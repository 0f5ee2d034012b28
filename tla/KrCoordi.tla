------------------------------ MODULE KrCoordi ------------------------------
(***************************************************************************)
(* The coordinator (krcoordi): servers and clients connect to it, announce *)
(* themselves, and it passes the clients' events on to servers, chosen by  *)
(* consistent hashing (krutils/kr_conhash.c), and the replies back.        *)
(*                                                                         *)
(* One thread runs an event loop; each event is handled to its end, so a   *)
(* step of this module is one call of a handler.  What interleaves is the  *)
(* outside: a peer may connect again before the coordinator has noticed    *)
(* that its old connection is gone, and data of the old connection may be  *)
(* read after data of the new one.                                         *)
(*                                                                         *)
(* A connector (T_KRCoordiConnector) is freed when its peer goes offline;  *)
(* it is known here by its peer and its descriptor.  The counters aplnum,  *)
(* rplnum, errnum and kicks are statistics and left out.                   *)
(***************************************************************************)
EXTENDS Integers, FiniteSets

CONSTANTS
  Servers,     \* ids of servers: numbers, in the order of strcmp
  Clients,     \* ids of clients
  MaxFd,       \* the descriptors the event loop has room for are 1 .. MaxFd
  Objects,     \* the msgids that applies are located by
  MaxWeight,   \* bound on the weights of a server
  VidHash,     \* hash_func of each vid
  ObjHash,     \* hash_func of each msgid
  Nobody       \* no peer

Fds == 1 .. MaxFd
Peers == Servers \cup Clients
Vids == Servers \X (0 .. MaxWeight - 1)

ASSUME CoordiAssumption ==
  /\ Servers \subseteq Nat
  /\ Servers \cap Clients = {}
  /\ Nobody \notin Peers
  /\ MaxFd \in Nat
  /\ MaxWeight \in Nat \ {0}
  /\ VidHash \in [Vids -> Nat]
  /\ ObjHash \in [Objects -> Nat]

VARIABLES
  conn,        \* the peer behind each open descriptor
  fdtable,     \* the peer of the connector that fdtable holds for it
  servers,     \* node_list of the servers: descriptor, weights, replica
  clients,     \* the clients' list: the descriptor of each
  vnode_list,  \* the virtual nodes on the ring
  sent,        \* what the last apply or reply was written to
  overlap      \* history: a peer connected while its old connection was open

vars == <<conn, fdtable, servers, clients, vnode_list, sent, overlap>>

NoFd == 0
Offline == [fd |-> NoFd, weights |-> 0, replica |-> 0]

\* The message was meant for the first, and written to a descriptor of the
\* second; chosen is the server an apply is for.
NotSent == [chosen |-> Nobody, writes |-> {}]

-----------------------------------------------------------------------------
(***************************************************************************)
(* Consistent hashing.  The skip list keeps the virtual nodes in the order *)
(* of their hash, and of their vid where hashes collide.                   *)
(***************************************************************************)

\* The virtual nodes of a server.
VnodesOf(s, weights) == {<<s, i>> : i \in 0 .. weights - 1}

\* v comes before u, or is u (kr_vnode_compare: the server id, then the
\* number).
Precedes(v, u) ==
  \/ VidHash[v] < VidHash[u]
  \/ /\ VidHash[v] = VidHash[u]
     /\ v[1] < u[1] \/ (v[1] = u[1] /\ v[2] <= u[2])

First(S) == CHOOSE v \in S : \A u \in S : Precedes(v, u)

\* Mutant of Locate: the n-th virtual node, by the remainder of the hash.
LocateByRemainder(ring, o) ==
  LET n == ObjHash[o] % Cardinality(ring)
  IN  IF ring = {} THEN Nobody
      ELSE (CHOOSE v \in ring : Cardinality({u \in ring \ {v} : Precedes(u, v)}) = n)[1]

\* kr_conhash_locate: the first virtual node at or after the hash of the
\* object, and past the end of the ring the first of all.
Locate(ring, o) ==
  LET after == {v \in ring : VidHash[v] >= ObjHash[o]}
  IN  IF ring = {} THEN Nobody
      ELSE IF after # {} THEN First(after)[1] ELSE First(ring)[1]

-----------------------------------------------------------------------------
\* kr_coordi_initialize.
Init ==
  /\ conn = [f \in Fds |-> Nobody]
  /\ fdtable = [f \in Fds |-> Nobody]
  /\ servers = [s \in Servers |-> Offline]
  /\ clients = [c \in Clients |-> NoFd]
  /\ vnode_list = {}
  /\ sent = NotSent
  /\ overlap = FALSE

registry == <<fdtable, servers, clients, vnode_list>>

\* The descriptor of the connector of a peer that is online.
FdOf(p) == IF p \in Servers THEN servers[p].fd ELSE clients[p]
Online == {p \in Peers : FdOf(p) # NoFd}

\* kr_coordi_tcp_accept_handler: the kernel gives the lowest descriptor; one
\* that the event loop has no room for is closed again.
Accept(p, f) ==
  /\ conn[f] = Nobody
  /\ \A g \in Fds : g < f => conn[g] # Nobody
  /\ conn' = [conn EXCEPT ![f] = p]
  /\ overlap' = (overlap \/ \E g \in Fds : conn[g] = p)
  /\ UNCHANGED <<registry, sent>>

\* kr_coordi_handle_svron: weights and replica come from the message; a
\* server that exists stays as it is.
SvrOn(f, weights, replica) ==
  LET s == conn[f]
  IN  /\ s \in Servers
      /\ weights > 0 /\ replica > 0
      /\ s \notin Online
      /\ servers' = [servers EXCEPT ![s] = [fd |-> f, weights |-> weights, replica |-> replica]]
      /\ vnode_list' = vnode_list \cup VnodesOf(s, weights)
      /\ fdtable' = [fdtable EXCEPT ![f] = s]
      /\ UNCHANGED <<conn, clients, sent, overlap>>

\* Mutant of ConhashRemove: the node stays in node_list.
ConhashRemoveKeepsNode(s) ==
  /\ vnode_list' = vnode_list \ VnodesOf(s, servers[s].weights)
  /\ UNCHANGED servers

\* Mutant of ConhashRemove: the last virtual node stays.
ConhashRemoveAllButLast(s) ==
  /\ vnode_list' = vnode_list \ VnodesOf(s, servers[s].weights - 1)
  /\ servers' = [servers EXCEPT ![s] = Offline]

\* kr_conhash_remove, and the connector is freed.
ConhashRemove(s) ==
  /\ vnode_list' = vnode_list \ VnodesOf(s, servers[s].weights)
  /\ servers' = [servers EXCEPT ![s] = Offline]

\* Mutant of Close: the descriptor stays in fdtable.
CloseKeepsEntry(f) ==
  /\ conn' = [conn EXCEPT ![f] = Nobody]
  /\ UNCHANGED fdtable

\* The descriptor THE MESSAGE CAME ON leaves fdtable and is closed.
Close(f) ==
  /\ conn' = [conn EXCEPT ![f] = Nobody]
  /\ fdtable' = [fdtable EXCEPT ![f] = Nobody]

\* kr_coordi_handle_svroff.
SvrOff(f, s) ==
  /\ s \in Servers \cap Online
  /\ ConhashRemove(s)
  /\ Close(f)
  /\ UNCHANGED <<clients, sent, overlap>>

\* kr_coordi_handle_clion.
CliOn(f) ==
  LET c == conn[f]
  IN  /\ c \in Clients \ Online
      /\ clients' = [clients EXCEPT ![c] = f]
      /\ fdtable' = [fdtable EXCEPT ![f] = c]
      /\ UNCHANGED <<conn, servers, vnode_list, sent, overlap>>

\* kr_coordi_handle_clioff.
CliOff(f, c) ==
  /\ c \in Clients \cap Online
  /\ clients' = [clients EXCEPT ![c] = NoFd]
  /\ Close(f)
  /\ UNCHANGED <<servers, vnode_list, sent, overlap>>

\* The message that says good-bye.
Off(f) == SvrOff(f, conn[f]) \/ CliOff(f, conn[f])

\* fdtable holds a connector that has been freed, and maybe is in use again.
Dangling(f) == fdtable[f] # Nobody /\ FdOf(fdtable[f]) # f

\* What kr_coordi_read_handler takes for the peer behind a descriptor: after
\* the connector is freed, anybody.
Found(f) == IF Dangling(f) THEN Peers ELSE {fdtable[f]}

\* kr_message_read fails: the connection is gone, or a message is cut short.
\* A connector found under the descriptor is handled as if it had said
\* good-bye; a descriptor without one is closed (the key of a freed connector
\* may not be found either).
ReadFails(f) ==
  /\ conn[f] # Nobody
  /\ \/ \E p \in Found(f) : SvrOff(f, p) \/ CliOff(f, p)
     \/ /\ fdtable[f] = Nobody \/ Dangling(f)
        /\ conn' = [conn EXCEPT ![f] = Nobody]
        /\ UNCHANGED <<registry, sent, overlap>>

\* kr_coordi_handle_apply: the server the message names if it is online, else
\* the one its msgid is located at.
Target(named, o) == IF named \in Online THEN named ELSE Locate(vnode_list, o)

\* kr_coordi_send_to_server for each server in node_list.
Receivers(chosen) ==
  {s \in Servers \cap Online : servers[s].replica # 0 \/ s = chosen}

Apply(f, named, o) ==
  /\ conn[f] \in Clients \cap Online
  /\ Target(named, o) # Nobody
  /\ sent' = [chosen |-> Target(named, o),
              writes |-> {<<s, conn[servers[s].fd]>> : s \in Receivers(Target(named, o))}]
  /\ UNCHANGED <<conn, registry, overlap>>

\* kr_coordi_handle_reply: a server that is online answers client c.
Reply(f, c) ==
  /\ conn[f] \in Servers \cap Online
  /\ c \in Online
  /\ sent' = [chosen |-> Nobody, writes |-> {<<c, conn[clients[c]]>>}]
  /\ UNCHANGED <<conn, registry, overlap>>

Next ==
  \E f \in Fds :
    \/ \E p \in Peers : Accept(p, f)
    \/ \E weights \in 1 .. MaxWeight : SvrOn(f, weights, 1)
    \/ CliOn(f)
    \/ Off(f)
    \/ ReadFails(f)
    \/ \E named \in Servers \cup {Nobody}, o \in Objects : Apply(f, named, o)
    \/ \E c \in Clients : Reply(f, c)

Spec == Init /\ [][Next]_vars

-----------------------------------------------------------------------------
\* Descriptors, weights and virtual nodes are in their ranges.
TypeOK ==
  /\ conn \in [Fds -> Peers \cup {Nobody}]
  /\ fdtable \in [Fds -> Peers \cup {Nobody}]
  /\ servers \in [Servers -> [fd : Fds \cup {NoFd}, weights : 0 .. MaxWeight, replica : Nat]]
  /\ clients \in [Clients -> Fds \cup {NoFd}]
  /\ vnode_list \subseteq Vids
  /\ sent \in [chosen : Servers \cup {Nobody}, writes : SUBSET (Peers \X (Peers \cup {Nobody}))]

\* The ring holds the virtual nodes of the servers that are online and no
\* others, so kr_conhash_locate never returns a node that has been freed.
RingExact ==
  vnode_list = UNION {VnodesOf(s, servers[s].weights) : s \in Servers \cap Online}

\* As long as no peer comes back before its old connection is noticed to be
\* gone, fdtable and the lists of servers and clients agree: a connector is
\* found under the descriptor of its own peer's open connection, and nothing
\* that was freed is found (kr_coordi.h: "use for searching server/client
\* with fd").
FdTableExact ==
  ~ overlap =>
    /\ \A f \in Fds : fdtable[f] # Nobody => fdtable[f] = conn[f] /\ FdOf(fdtable[f]) = f
    /\ \A p \in Online : fdtable[FdOf(p)] = p

\* Under the same condition every message is written to the peer it is meant
\* for, although descriptors are used again, and an apply reaches the server
\* chosen for it.
RoutedToOwner ==
  ~ overlap =>
    /\ \A w \in sent.writes : w[2] = w[1]
    /\ sent.chosen # Nobody => \E w \in sent.writes : w[1] = sent.chosen

\* Consistent hashing: an object changes its server only from one that has
\* gone, or to one that has come.
StickyRouting ==
  [][\A o \in Objects :
       LET old == Locate(vnode_list, o)
           new == Locate(vnode_list', o)
       IN  old # new => old \notin Online' \/ new \notin Online]_vars

=============================================================================
