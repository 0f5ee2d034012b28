--------------------------- MODULE KrCoordiProofs ---------------------------
(***************************************************************************)
(* Proofs about KrCoordi, for any number of servers, clients, descriptors  *)
(* and weights, and any hash function; and, at the end, about KrHashTable, *)
(* the table in which the coordinator finds whom a descriptor belongs to,  *)
(* for any keys, values and hash function.                                 *)
(***************************************************************************)
EXTENDS KrCoordi, KrHashTable, FiniteSetTheorems, WellFoundedInduction, TLAPS

-----------------------------------------------------------------------------
(***************************************************************************)
(* Consistent hashing.                                                     *)
(***************************************************************************)

\* A set of naturals has a least element.
LEMMA LeastNat ==
  ASSUME NEW T, T \subseteq Nat, T # {}
  PROVE  \E x \in T : \A y \in T : x <= y
<1> DEFINE R == OpToRel(<, Nat)
<1>1. \E x \in T : \A y \in T : ~ (<<y, x>> \in R)
  BY NatLessThanWellFounded, WFMin
<1>2. PICK x \in T : \A y \in T : ~ (<<y, x>> \in R)
  BY <1>1
<1>3. \A y \in T : ~ (y < x)
  BY <1>2 DEF OpToRel
<1> QED
  BY <1>3

\* A vid: the server, the number of the virtual node, and their hash.
LEMMA VidParts ==
  ASSUME NEW u \in Vids
  PROVE  u = <<u[1], u[2]>> /\ u[1] \in Nat /\ u[2] \in Nat /\ VidHash[u] \in Nat
<1>1. PICK s \in Servers, i \in 0 .. MaxWeight - 1 : u = <<s, i>>
  BY DEF Vids
<1>2. s \in Nat /\ i \in Nat
  BY CoordiAssumption
<1>3. VidHash[u] \in Nat
  BY CoordiAssumption
<1> QED
  BY <1>1, <1>2, <1>3

\* The order of the ring is total.
LEMMA PrecedesTotal ==
  ASSUME NEW u \in Vids, NEW v \in Vids
  PROVE  /\ Precedes(u, v) \/ Precedes(v, u)
         /\ Precedes(u, v) /\ Precedes(v, u) => u = v
<1>1. /\ u = <<u[1], u[2]>> /\ v = <<v[1], v[2]>>
      /\ u[1] \in Nat /\ u[2] \in Nat /\ v[1] \in Nat /\ v[2] \in Nat
      /\ VidHash[u] \in Nat /\ VidHash[v] \in Nat
  BY VidParts
<1> QED
  BY <1>1 DEF Precedes

\* A ring that is not empty has a first virtual node.
LEMMA FirstOfRing ==
  ASSUME NEW S, S \subseteq Vids, S # {}
  PROVE  First(S) \in S /\ \A u \in S : Precedes(First(S), u)
<1>1. \A u \in S : u[1] \in Nat /\ u[2] \in Nat /\ VidHash[u] \in Nat
  BY VidParts
<1>2. PICK u \in S : \A y \in S : VidHash[u] <= VidHash[y]
  <2> DEFINE T == {VidHash[y] : y \in S}
  <2>1. \E x \in T : \A y \in T : x <= y
    BY <1>1, LeastNat
  <2> QED
    BY <2>1
<1> DEFINE S1 == {y \in S : VidHash[y] = VidHash[u]}
<1>3. PICK v \in S1 : \A y \in S1 : v[1] <= y[1]
  <2> DEFINE T == {y[1] : y \in S1}
  <2>1. \E x \in T : \A y \in T : x <= y
    BY <1>1, LeastNat
  <2> QED
    BY <2>1
<1> DEFINE S2 == {y \in S1 : y[1] = v[1]}
<1>4. PICK w \in S2 : \A y \in S2 : w[2] <= y[2]
  <2> DEFINE T == {y[2] : y \in S2}
  <2>1. \E x \in T : \A y \in T : x <= y
    BY <1>1, LeastNat
  <2> QED
    BY <2>1
<1>5. \A y \in S : Precedes(w, y)
  BY <1>1, <1>2, <1>3, <1>4 DEF Precedes
<1> QED
  BY <1>4, <1>5 DEF First

\* The first of a set is the first of a part it is in.
LEMMA FirstOfPart ==
  ASSUME NEW S, S \subseteq Vids, NEW T, T \subseteq S, First(S) \in T
  PROVE  First(T) = First(S)
<1>1. T # {} /\ S # {} /\ T \subseteq Vids
  OBVIOUS
<1>2. /\ First(T) \in T /\ \A u \in T : Precedes(First(T), u)
      /\ First(S) \in S /\ \A u \in S : Precedes(First(S), u)
  BY <1>1, FirstOfRing
<1> QED
  BY <1>1, <1>2, PrecedesTotal

\* The virtual node an object is located at.
Start(ring, o) ==
  LET after == {v \in ring : VidHash[v] >= ObjHash[o]}
  IN  IF after # {} THEN after ELSE ring

\* An object is located at a server of the ring.
LEMMA LocateOnRing ==
  ASSUME NEW ring, ring \subseteq Vids, NEW o \in Objects
  PROVE  /\ ring = {} => Locate(ring, o) = Nobody
         /\ ring # {} => /\ First(Start(ring, o)) \in ring
                         /\ Locate(ring, o) = First(Start(ring, o))[1]
<1>1. Start(ring, o) \subseteq ring /\ (ring # {} => Start(ring, o) # {})
  BY DEF Start
<1>2. ring # {} => First(Start(ring, o)) \in ring
  BY <1>1, FirstOfRing
<1> QED
  BY <1>2 DEF Locate, Start

\* The virtual nodes of one server come or go: what is not located at that
\* server stays where it is.
LEMMA LocateSticks ==
  ASSUME NEW R, R \subseteq Vids, NEW A, A \subseteq Vids, NEW s,
         \A v \in A : v[1] = s, NEW o \in Objects
  PROVE  Locate(R \cup A, o) = s \/ Locate(R \cup A, o) = Locate(R, o)
<1> DEFINE ring == R \cup A
           w    == First(Start(ring, o))
<1>1. CASE ring = {}
  BY <1>1
<1>2. CASE ring # {}
  <2>1. w \in ring /\ Locate(ring, o) = w[1]
    BY <1>2, LocateOnRing
  <2>2. CASE w \in A
    BY <2>1, <2>2
  <2>3. CASE w \in R
    <3>1. Start(ring, o) \subseteq Vids /\ Start(ring, o) # {}
      BY <1>2 DEF Start
    <3>2. w \in Start(ring, o)
      BY <3>1, FirstOfRing
    <3>3. Start(R, o) \subseteq Start(ring, o) /\ w \in Start(R, o)
      BY <2>3, <3>2 DEF Start
    <3>4. First(Start(R, o)) = w
      BY <3>1, <3>3, FirstOfPart
    <3> QED
      BY <2>1, <2>3, <3>4, LocateOnRing
  <2> QED
    BY <2>1, <2>2, <2>3
<1> QED
  BY <1>1, <1>2

-----------------------------------------------------------------------------
(***************************************************************************)
(* The registry.                                                           *)
(***************************************************************************)

\* The coordinator has one open connection with each peer, unless a peer came
\* back too early.  FdTableExact needs it: the descriptor that a good-bye
\* comes on is then the descriptor of the connector.
OneConnection == \A f, g \in Fds : conn[f] = conn[g] /\ conn[f] # Nobody => f = g

\* A connector under a descriptor, and the descriptor of a connector.
FoundIsOwn ==
  \A f \in Fds : fdtable[f] # Nobody => fdtable[f] = conn[f] /\ FdOf(fdtable[f]) = f
OnlineIsFound == \A p \in Online : fdtable[FdOf(p)] = p

FdInv == OneConnection /\ FoundIsOwn /\ OnlineIsFound

SentInv ==
  /\ \A w \in sent.writes : w[2] = w[1]
  /\ sent.chosen # Nobody => \E w \in sent.writes : w[1] = sent.chosen

IInv == TypeOK /\ RingExact /\ (~ overlap => FdInv /\ SentInv)

\* Descriptors of connectors.
LEMMA Descriptors ==
  ASSUME TypeOK
  PROVE  /\ NoFd \notin Fds
         /\ \A p \in Online : p \in Peers /\ FdOf(p) \in Fds
         /\ \A s \in Servers : FdOf(s) = servers[s].fd
         /\ \A c \in Clients : FdOf(c) = clients[c]
         /\ Nobody \notin Online
<1>1. NoFd \notin Fds
  BY CoordiAssumption DEF NoFd, Fds
<1>2. /\ \A s \in Servers : FdOf(s) = servers[s].fd
      /\ \A c \in Clients : FdOf(c) = clients[c]
  BY CoordiAssumption DEF FdOf
<1>3. \A p \in Peers : FdOf(p) \in Fds \cup {NoFd}
  BY <1>2 DEF TypeOK, Peers
<1> QED
  BY <1>1, <1>2, <1>3, CoordiAssumption DEF Online

\* The virtual nodes of a server are vids.
LEMMA VnodeType ==
  ASSUME NEW s \in Servers, NEW n \in 0 .. MaxWeight
  PROVE  VnodesOf(s, n) \subseteq Vids /\ \A v \in VnodesOf(s, n) : v[1] = s
BY CoordiAssumption DEF VnodesOf, Vids

\* An apply is sent to somebody who is online.
LEMMA TargetOnline ==
  ASSUME TypeOK, RingExact, NEW named \in Servers \cup {Nobody}, NEW o \in Objects,
         Target(named, o) # Nobody
  PROVE  Target(named, o) \in Servers \cap Online
<1>1. CASE named \in Online
  BY <1>1, Descriptors DEF Target
<1>2. CASE named \notin Online
  <2>1. /\ vnode_list \subseteq Vids /\ Target(named, o) = Locate(vnode_list, o)
    BY <1>2 DEF TypeOK, Target
  <2>2. vnode_list # {} /\ \E v \in vnode_list : Locate(vnode_list, o) = v[1]
    BY <2>1, LocateOnRing
  <2>3. PICK v \in vnode_list : Locate(vnode_list, o) = v[1]
    BY <2>2
  <2>4. PICK s \in Servers \cap Online : v \in VnodesOf(s, servers[s].weights)
    BY <2>3 DEF RingExact
  <2>5. v[1] = s
    BY <2>4 DEF VnodesOf
  <2> QED
    BY <2>1, <2>3, <2>4, <2>5
<1> QED
  BY <1>1, <1>2

\* Types.
LEMMA TypeStep ==
  ASSUME TypeOK, RingExact, [Next]_vars
  PROVE  TypeOK'
<1>1. CASE UNCHANGED vars
  BY <1>1 DEF vars, TypeOK
<1>2. ASSUME NEW f \in Fds, NEW p \in Peers, Accept(p, f)
      PROVE  TypeOK'
  BY <1>2 DEF Accept, registry, TypeOK
<1>3. ASSUME NEW f \in Fds, NEW weights \in 1 .. MaxWeight, SvrOn(f, weights, 1)
      PROVE  TypeOK'
  <2>1. VnodesOf(conn[f], weights) \subseteq Vids
    BY <1>3, VnodeType DEF SvrOn
  <2>2. [fd |-> f, weights |-> weights, replica |-> 1]
          \in [fd : Fds \cup {NoFd}, weights : 0 .. MaxWeight, replica : Nat]
    BY CoordiAssumption
  <2> QED
    BY <1>3, <2>1, <2>2 DEF SvrOn, TypeOK, Peers
<1>4. ASSUME NEW f \in Fds, CliOn(f)
      PROVE  TypeOK'
  BY <1>4 DEF CliOn, TypeOK, Peers
<1>5. ASSUME NEW f \in Fds, NEW s, SvrOff(f, s)
      PROVE  TypeOK'
  <2>1. Offline \in [fd : Fds \cup {NoFd}, weights : 0 .. MaxWeight, replica : Nat]
    BY CoordiAssumption DEF Offline
  <2> QED
    BY <1>5, <2>1 DEF SvrOff, ConhashRemove, Close, TypeOK
<1>6. ASSUME NEW f \in Fds, NEW c, CliOff(f, c)
      PROVE  TypeOK'
  BY <1>6 DEF CliOff, Close, TypeOK
<1>7. ASSUME NEW f \in Fds, ReadFails(f)
      PROVE  TypeOK'
  <2>1. CASE UNCHANGED <<registry, sent, overlap>> /\ conn' = [conn EXCEPT ![f] = Nobody]
    BY <2>1 DEF registry, TypeOK
  <2> QED
    BY <1>5, <1>6, <1>7, <2>1 DEF ReadFails
<1>8. ASSUME NEW f \in Fds, NEW named \in Servers \cup {Nobody}, NEW o \in Objects, Apply(f, named, o)
      PROVE  TypeOK'
  <2>1. Target(named, o) \in Servers
    BY <1>8, TargetOnline DEF Apply
  <2>2. {<<s, conn[servers[s].fd]>> : s \in Receivers(Target(named, o))}
          \subseteq Peers \X (Peers \cup {Nobody})
    BY Descriptors DEF Receivers, TypeOK, Peers
  <2> QED
    BY <1>8, <2>1, <2>2 DEF Apply, registry, TypeOK
<1>9. ASSUME NEW f \in Fds, NEW c \in Clients, Reply(f, c)
      PROVE  TypeOK'
  <2>1. <<c, conn[clients[c]]>> \in Peers \X (Peers \cup {Nobody})
    BY <1>9, Descriptors DEF Reply, TypeOK, Peers
  <2> QED
    BY <1>9, <2>1 DEF Reply, registry, TypeOK
<1> QED
  BY <1>1, <1>2, <1>3, <1>4, <1>5, <1>6, <1>7, <1>8, <1>9 DEF Next, Off

-----------------------------------------------------------------------------
(***************************************************************************)
(* The ring.                                                               *)
(***************************************************************************)

\* A server is online exactly when its connector has a descriptor.
LEMMA ServersOnline ==
  Servers \cap Online = {s \in Servers : servers[s].fd # NoFd}
BY DEF Online, FdOf, Peers

\* The ring is what node_list says, in both directions.
LEMMA RingMembers ==
  RingExact <=> \A v : v \in vnode_list <=>
    \E s \in Servers : servers[s].fd # NoFd /\ v \in VnodesOf(s, servers[s].weights)
BY ServersOnline DEF RingExact

\* A step that leaves node_list and the ring alone keeps the ring exact.
LEMMA RingUnchanged ==
  ASSUME RingExact, UNCHANGED <<servers, vnode_list>>
  PROVE  RingExact'
<1>1. (Servers \cap Online)' = Servers \cap Online
  BY DEF Online, FdOf, Peers
<1> QED
  BY <1>1 DEF RingExact, VnodesOf

\* A server that goes takes its virtual nodes, and nobody else's.
LEMMA RingSvrOff ==
  ASSUME TypeOK, RingExact, NEW f \in Fds, NEW s, SvrOff(f, s)
  PROVE  RingExact'
<1>1. /\ s \in Servers /\ vnode_list' = vnode_list \ VnodesOf(s, servers[s].weights)
      /\ servers' = [servers EXCEPT ![s] = Offline]
  BY DEF SvrOff, ConhashRemove
<1>2. servers'[s].fd = NoFd /\ \A t \in Servers \ {s} : servers'[t] = servers[t]
  BY <1>1 DEF TypeOK, Offline
<1>3. \A t \in Servers : \A n, m, v : v \in VnodesOf(t, n) /\ v \in VnodesOf(s, m) => t = s
  BY DEF VnodesOf
<1>4. \A v : v \in vnode_list' <=>
        \E t \in Servers : servers'[t].fd # NoFd /\ v \in VnodesOf(t, servers'[t].weights)
  <2> TAKE v
  <2>1. v \in vnode_list <=>
          \E t \in Servers : servers[t].fd # NoFd /\ v \in VnodesOf(t, servers[t].weights)
    BY RingMembers
  <2> QED
    BY <1>1, <1>2, <1>3, <2>1
<1>5. (Servers \cap Online)' = {t \in Servers : servers'[t].fd # NoFd}
  BY DEF Online, FdOf, Peers
<1> QED
  BY <1>4, <1>5 DEF RingExact, VnodesOf

\* A server that comes brings its own.
LEMMA RingSvrOn ==
  ASSUME TypeOK, RingExact, NEW f \in Fds, NEW weights \in 1 .. MaxWeight,
         SvrOn(f, weights, 1)
  PROVE  RingExact'
<1> DEFINE s == conn[f]
<1>1. /\ s \in Servers /\ vnode_list' = vnode_list \cup VnodesOf(s, weights)
      /\ servers' = [servers EXCEPT ![s] = [fd |-> f, weights |-> weights, replica |-> 1]]
      /\ s \notin Online
  BY DEF SvrOn
<1>2. /\ servers'[s].fd = f /\ servers'[s].weights = weights
      /\ \A t \in Servers \ {s} : servers'[t] = servers[t]
  BY <1>1 DEF TypeOK
<1>3. f # NoFd /\ servers[s].fd = NoFd
  BY <1>1, ServersOnline, CoordiAssumption DEF Fds, NoFd
<1>4. \A v : v \in vnode_list' <=>
        \E t \in Servers : servers'[t].fd # NoFd /\ v \in VnodesOf(t, servers'[t].weights)
  <2> TAKE v
  <2>1. v \in vnode_list <=>
          \E t \in Servers : servers[t].fd # NoFd /\ v \in VnodesOf(t, servers[t].weights)
    BY RingMembers
  <2> QED
    BY <1>1, <1>2, <1>3, <2>1
<1>5. (Servers \cap Online)' = {t \in Servers : servers'[t].fd # NoFd}
  BY DEF Online, FdOf, Peers
<1> QED
  BY <1>4, <1>5 DEF RingExact, VnodesOf

\* Every step keeps the ring exact.
LEMMA RingStep ==
  ASSUME TypeOK, RingExact, [Next]_vars
  PROVE  RingExact'
<1>1. CASE UNCHANGED vars
  BY <1>1, RingUnchanged DEF vars
<1>2. ASSUME NEW f \in Fds, NEW p, Accept(p, f)
      PROVE  RingExact'
  BY <1>2, RingUnchanged DEF Accept, registry
<1>3. ASSUME NEW f \in Fds, CliOn(f)
      PROVE  RingExact'
  BY <1>3, RingUnchanged DEF CliOn
<1>4. ASSUME NEW f \in Fds, NEW c, CliOff(f, c)
      PROVE  RingExact'
  BY <1>4, RingUnchanged DEF CliOff
<1>5. ASSUME NEW f \in Fds, ReadFails(f)
      PROVE  RingExact'
  <2>1. CASE UNCHANGED <<registry, sent, overlap>>
    BY <2>1, RingUnchanged DEF registry
  <2> QED
    BY <1>4, <1>5, <2>1, RingSvrOff DEF ReadFails
<1>6. ASSUME NEW f \in Fds, NEW named, NEW o, Apply(f, named, o)
      PROVE  RingExact'
  BY <1>6, RingUnchanged DEF Apply, registry
<1>7. ASSUME NEW f \in Fds, NEW c, Reply(f, c)
      PROVE  RingExact'
  BY <1>7, RingUnchanged DEF Reply, registry
<1> QED
  BY <1>1, <1>2, <1>3, <1>4, <1>5, <1>6, <1>7, RingSvrOn, RingSvrOff DEF Next, Off

-----------------------------------------------------------------------------
(***************************************************************************)
(* fdtable.                                                                *)
(***************************************************************************)

\* Connectors that no step touches keep their descriptors.
LEMMA FdOfKept ==
  ASSUME UNCHANGED <<servers, clients>>
  PROVE  Online' = Online /\ \A p \in Peers : FdOf(p)' = FdOf(p)
BY DEF Online, FdOf, Peers

\* A peer goes: its connector, and no other, has no descriptor any more.
LEMMA FdOfGone ==
  ASSUME TypeOK, NEW f \in Fds, NEW p, SvrOff(f, p) \/ CliOff(f, p)
  PROVE  /\ p \in Peers /\ p \in Online
         /\ FdOf(p)' = NoFd /\ \A q \in Peers \ {p} : FdOf(q)' = FdOf(q)
         /\ Close(f) /\ UNCHANGED <<sent, overlap>>
<1>1. CASE SvrOff(f, p)
  BY <1>1, CoordiAssumption
     DEF SvrOff, ConhashRemove, FdOf, TypeOK, Offline, Peers
<1>2. CASE CliOff(f, p)
  BY <1>2, CoordiAssumption DEF CliOff, FdOf, TypeOK, Peers
<1> QED
  BY <1>1, <1>2

\* The descriptor that is closed is the one the connector was found under, and
\* the rest of fdtable still agrees.
LEMMA FdGone ==
  ASSUME TypeOK, FdInv, NEW f \in Fds, NEW p, p = conn[f], SvrOff(f, p) \/ CliOff(f, p)
  PROVE  FdInv'
<1>1. /\ p \in Peers /\ p \in Online
      /\ FdOf(p)' = NoFd /\ \A q \in Peers \ {p} : FdOf(q)' = FdOf(q)
      /\ Close(f)
  BY FdOfGone
<1>2. p # Nobody /\ conn' = [conn EXCEPT ![f] = Nobody]
      /\ fdtable' = [fdtable EXCEPT ![f] = Nobody]
  BY <1>1, Descriptors DEF Close
<1>3. OneConnection'
  BY <1>2 DEF FdInv, OneConnection, TypeOK
<1>4. FoundIsOwn'
  <2> SUFFICES ASSUME NEW g \in Fds, NEW q, q = fdtable'[g], q # Nobody
               PROVE  q = conn'[g] /\ FdOf(q)' = g
    BY DEF FoundIsOwn, FdOf
  <2>1. /\ g # f /\ q = fdtable[g] /\ conn'[g] = conn[g]
        /\ q = conn[g]
    BY <1>2 DEF TypeOK, FdInv, FoundIsOwn
  <2>2. FdOf(q) = g
    BY <2>1 DEF FdInv, FoundIsOwn, FdOf
  <2>3. q # p
    BY <1>2, <2>1 DEF FdInv, OneConnection
  <2>4. q \in Peers
    BY <2>1 DEF TypeOK
  <2>5. FdOf(q)' = g
    BY <1>1, <2>2, <2>3, <2>4
  <2> QED
    BY <2>1, <2>5
<1>5. OnlineIsFound'
  <2> SUFFICES ASSUME NEW q, (q \in Online)'
               PROVE  (fdtable[FdOf(q)] = q)'
    BY DEF OnlineIsFound, FdOf
  <2>1. q \in Peers /\ FdOf(q)' # NoFd
    BY DEF Online, FdOf, Peers
  <2>2. q # p
    BY <1>1, <2>1
  <2>3. FdOf(q)' = FdOf(q)
    BY <1>1, <2>1, <2>2
  <2>4. q \in Online
    BY <2>1, <2>3 DEF Online, FdOf
  <2>5. FdOf(q) \in Fds /\ fdtable[FdOf(q)] = q /\ q # Nobody
    BY <2>4, Descriptors DEF FdInv, OnlineIsFound, FdOf
  <2>6. FdOf(q) # f
    BY <2>2, <2>5 DEF FdInv, FoundIsOwn
  <2>7. fdtable'[FdOf(q)] = q
    BY <1>2, <2>5, <2>6 DEF TypeOK
  <2> QED
    BY <2>3, <2>7
<1> QED
  BY <1>3, <1>4, <1>5 DEF FdInv

\* A peer announces itself.
LEMMA FdNew ==
  ASSUME TypeOK, FdInv, NEW f \in Fds, NEW p \in Peers, p = conn[f], p \notin Online,
         UNCHANGED conn, fdtable' = [fdtable EXCEPT ![f] = p],
         FdOf(p)' = f, \A q \in Peers \ {p} : FdOf(q)' = FdOf(q)
  PROVE  FdInv'
<1>1. OneConnection'
  BY DEF FdInv, OneConnection
<1>2. FoundIsOwn'
  <2> SUFFICES ASSUME NEW g \in Fds, NEW q, q = fdtable'[g], q # Nobody
               PROVE  q = conn'[g] /\ FdOf(q)' = g
    BY DEF FoundIsOwn, FdOf
  <2>1. CASE g = f
    <3>1. q = p
      BY <2>1 DEF TypeOK
    <3> QED
      BY <2>1, <3>1
  <2>2. CASE g # f
    <3>1. q = fdtable[g] /\ q = conn[g]
      BY <2>2 DEF TypeOK, FdInv, FoundIsOwn
    <3>2. FdOf(q) = g
      BY <3>1 DEF FdInv, FoundIsOwn, FdOf
    <3>3. q # p /\ q \in Peers
      BY <2>2, <3>1 DEF FdInv, OneConnection, TypeOK
    <3>4. FdOf(q)' = g
      BY <3>2, <3>3
    <3> QED
      BY <3>1, <3>4
  <2> QED
    BY <2>1, <2>2
<1>3. OnlineIsFound'
  <2> SUFFICES ASSUME NEW q, (q \in Online)'
               PROVE  (fdtable[FdOf(q)] = q)'
    BY DEF OnlineIsFound, FdOf
  <2>1. q \in Peers /\ FdOf(q)' # NoFd
    BY DEF Online, FdOf, Peers
  <2>2. CASE q = p
    <3>1. fdtable'[f] = p /\ FdOf(q)' = f
      BY <2>2 DEF TypeOK
    <3> QED
      BY <2>2, <3>1
  <2>3. CASE q # p
    <3>1. FdOf(q)' = FdOf(q)
      BY <2>1, <2>3
    <3>2. q \in Online
      BY <2>1, <3>1 DEF Online, FdOf
    <3>3. FdOf(q) \in Fds /\ fdtable[FdOf(q)] = q /\ q # Nobody
      BY <3>2, Descriptors DEF FdInv, OnlineIsFound, FdOf
    <3>4. FdOf(q) # f
      BY <2>3, <3>3 DEF FdInv, FoundIsOwn
    <3>5. fdtable'[FdOf(q)] = q
      BY <3>3, <3>4 DEF TypeOK
    <3> QED
      BY <3>1, <3>5
  <2> QED
    BY <2>2, <2>3
<1> QED
  BY <1>1, <1>2, <1>3 DEF FdInv

\* A connection is accepted, or a descriptor without a connector is closed:
\* nothing but conn changes.
LEMMA FdConn ==
  ASSUME TypeOK, FdInv, NEW f \in Fds, NEW p,
         p = Nobody \/ \A g \in Fds : conn[g] # p,
         fdtable[f] = Nobody,
         conn' = [conn EXCEPT ![f] = p], UNCHANGED registry
  PROVE  FdInv'
<1>1. OneConnection'
  BY DEF FdInv, OneConnection, TypeOK
<1>2. Online' = Online /\ \A q \in Peers : FdOf(q)' = FdOf(q)
  BY FdOfKept DEF registry
<1>3. FoundIsOwn'
  <2> SUFFICES ASSUME NEW g \in Fds, NEW q, q = fdtable'[g], q # Nobody
               PROVE  q = conn'[g] /\ FdOf(q)' = g
    BY DEF FoundIsOwn, FdOf
  <2>1. g # f /\ q = fdtable[g] /\ q = conn'[g] /\ q \in Peers
    BY DEF TypeOK, FdInv, FoundIsOwn, registry
  <2>2. FdOf(q) = g
    BY <2>1 DEF FdInv, FoundIsOwn, FdOf
  <2> QED
    BY <1>2, <2>1, <2>2
<1>4. OnlineIsFound'
  BY <1>2 DEF FdInv, OnlineIsFound, Online, FdOf, registry
<1> QED
  BY <1>1, <1>3, <1>4 DEF FdInv

\* A descriptor that is not open has no connector under it.
LEMMA ClosedNotFound ==
  ASSUME FdInv, NEW f \in Fds, conn[f] = Nobody
  PROVE  fdtable[f] = Nobody
BY DEF FdInv, FoundIsOwn

\* As long as no peer comes back too early, no connector dangles.
LEMMA NotDangling ==
  ASSUME FdInv, NEW f \in Fds
  PROVE  /\ ~ Dangling(f) /\ Found(f) = {fdtable[f]}
         /\ fdtable[f] # Nobody => fdtable[f] = conn[f]
BY DEF FdInv, FoundIsOwn, Dangling, Found

\* Every step by which no peer comes back too early keeps fdtable exact.
LEMMA FdStep ==
  ASSUME TypeOK, FdInv, [Next]_vars, ~ overlap'
  PROVE  FdInv'
<1>1. CASE UNCHANGED vars
  <2>1. Online' = Online /\ \A q \in Peers : FdOf(q)' = FdOf(q)
    BY <1>1, FdOfKept DEF vars
  <2> QED
    BY <1>1, <2>1 DEF vars, FdInv, OneConnection, FoundIsOwn, OnlineIsFound, Online, FdOf
<1>2. ASSUME NEW f \in Fds, NEW p \in Peers, Accept(p, f)
      PROVE  FdInv'
  <2>1. \A g \in Fds : conn[g] # p
    BY <1>2 DEF Accept
  <2> QED
    BY <1>2, <2>1, FdConn, ClosedNotFound DEF Accept
<1>3. ASSUME NEW f \in Fds, NEW weights \in 1 .. MaxWeight, SvrOn(f, weights, 1)
      PROVE  FdInv'
  <2>1. PICK s : s = conn[f]
    OBVIOUS
  <2>2. s \in Peers /\ s \notin Online /\ s \in Servers
    BY <1>3, <2>1 DEF SvrOn, Peers
  <2>3. FdOf(s)' = f /\ \A q \in Peers \ {s} : FdOf(q)' = FdOf(q)
    BY <1>3, <2>1, <2>2 DEF SvrOn, FdOf, TypeOK, Peers
  <2> QED
    BY <1>3, <2>1, <2>2, <2>3, FdNew DEF SvrOn
<1>4. ASSUME NEW f \in Fds, CliOn(f)
      PROVE  FdInv'
  <2>1. PICK c : c = conn[f]
    OBVIOUS
  <2>2. c \in Peers /\ c \notin Online /\ c \in Clients /\ c \notin Servers
    BY <1>4, <2>1, CoordiAssumption DEF CliOn, Peers
  <2>3. FdOf(c)' = f /\ \A q \in Peers \ {c} : FdOf(q)' = FdOf(q)
    BY <1>4, <2>1, <2>2 DEF CliOn, FdOf, TypeOK, Peers
  <2> QED
    BY <1>4, <2>1, <2>2, <2>3, FdNew DEF CliOn
<1>5. ASSUME NEW f \in Fds, Off(f)
      PROVE  FdInv'
  BY <1>5, FdGone DEF Off
<1>6. ASSUME NEW f \in Fds, ReadFails(f)
      PROVE  FdInv'
  <2>1. ASSUME NEW p \in Found(f), SvrOff(f, p) \/ CliOff(f, p)
        PROVE  FdInv'
    <3>1. p # Nobody
      BY <2>1, FdOfGone, Descriptors
    <3>2. p = conn[f]
      BY <2>1, <3>1, NotDangling
    <3> QED
      BY <2>1, <3>2, FdGone
  <2>2. CASE /\ fdtable[f] = Nobody \/ Dangling(f)
             /\ conn' = [conn EXCEPT ![f] = Nobody]
             /\ UNCHANGED <<registry, sent, overlap>>
    BY <2>2, NotDangling, FdConn
  <2> QED
    BY <1>6, <2>1, <2>2 DEF ReadFails
<1>7. ASSUME UNCHANGED <<conn, registry>>
      PROVE  FdInv'
  <2>1. Online' = Online /\ \A q \in Peers : FdOf(q)' = FdOf(q)
    BY <1>7, FdOfKept DEF registry
  <2> QED
    BY <1>7, <2>1
       DEF registry, FdInv, OneConnection, FoundIsOwn, OnlineIsFound, Online, FdOf
<1>8. ASSUME NEW f, NEW named, NEW o, Apply(f, named, o)
      PROVE  FdInv'
  BY <1>7, <1>8 DEF Apply
<1>9. ASSUME NEW f, NEW c, Reply(f, c)
      PROVE  FdInv'
  BY <1>7, <1>9 DEF Reply
<1> QED
  BY <1>1, <1>2, <1>3, <1>4, <1>5, <1>6, <1>8, <1>9 DEF Next

\* Every message goes to the peer it is meant for.
LEMMA SentStep ==
  ASSUME TypeOK, RingExact, FdInv, SentInv, [Next]_vars
  PROVE  SentInv'
<1>1. CASE UNCHANGED sent
  BY <1>1 DEF SentInv
<1>2. ASSUME NEW p \in Online
      PROVE  conn[FdOf(p)] = p
  <2>1. FdOf(p) \in Fds /\ p # Nobody
    BY <1>2, Descriptors
  <2> QED
    BY <1>2, <2>1 DEF FdInv, FoundIsOwn, OnlineIsFound
<1>3. ASSUME NEW f \in Fds, NEW named \in Servers \cup {Nobody}, NEW o \in Objects, Apply(f, named, o)
      PROVE  SentInv'
  <2> DEFINE t == Target(named, o)
             writes == {<<s, conn[servers[s].fd]>> : s \in Receivers(t)}
  <2>1. t \in Servers \cap Online
    BY <1>3, TargetOnline DEF Apply
  <2>2. t \in Receivers(t) /\ \A s \in Receivers(t) : s \in Servers /\ s \in Online
    BY <2>1 DEF Receivers
  <2>3. \A s \in Receivers(t) : conn[servers[s].fd] = s
    BY <1>2, <2>2, Descriptors
  <2>4. sent' = [chosen |-> t, writes |-> writes]
    BY <1>3 DEF Apply
  <2>5. \A w \in writes : w[2] = w[1]
    BY <2>3
  <2>6. <<t, conn[servers[t].fd]>> \in writes
    BY <2>2
  <2>7. \E w \in writes : w[1] = t
    BY <2>6
  <2> HIDE DEF t, writes
  <2> QED
    BY <2>4, <2>5, <2>7 DEF SentInv
<1>4. ASSUME NEW f \in Fds, NEW c \in Clients, Reply(f, c)
      PROVE  SentInv'
  <2>1. conn[clients[c]] = c
    BY <1>2, <1>4, Descriptors DEF Reply
  <2>2. sent' = [chosen |-> Nobody, writes |-> {<<c, c>>}]
    BY <1>4, <2>1 DEF Reply
  <2> QED
    BY <2>2 DEF SentInv
<1>5. ASSUME NEW f \in Fds, NEW p, SvrOff(f, p) \/ CliOff(f, p)
      PROVE  UNCHANGED sent
  BY <1>5 DEF SvrOff, CliOff
<1>6. ASSUME NEW f \in Fds, ReadFails(f)
      PROVE  UNCHANGED sent
  BY <1>5, <1>6 DEF ReadFails
<1>7. ASSUME NEW f \in Fds, Off(f)
      PROVE  UNCHANGED sent
  BY <1>5, <1>7 DEF Off
<1>8. ASSUME NEW f \in Fds,
             \/ \E p \in Peers : Accept(p, f)
             \/ \E weights \in 1 .. MaxWeight : SvrOn(f, weights, 1)
             \/ CliOn(f)
      PROVE  UNCHANGED sent
  BY <1>8 DEF Accept, SvrOn, CliOn
<1>9. CASE UNCHANGED vars
  BY <1>1, <1>9 DEF vars
<1> QED
  BY <1>1, <1>3, <1>4, <1>6, <1>7, <1>8, <1>9 DEF Next

\* A peer that came back too early is not forgotten.
LEMMA OverlapStays ==
  ASSUME [Next]_vars, ~ overlap'
  PROVE  ~ overlap
<1>1. ASSUME NEW f \in Fds, NEW p, SvrOff(f, p) \/ CliOff(f, p)
      PROVE  UNCHANGED overlap
  BY <1>1 DEF SvrOff, CliOff
<1>2. ASSUME NEW f \in Fds, ReadFails(f)
      PROVE  UNCHANGED overlap
  BY <1>1, <1>2 DEF ReadFails
<1>3. ASSUME NEW f \in Fds, Off(f)
      PROVE  UNCHANGED overlap
  BY <1>1, <1>3 DEF Off
<1>4. ASSUME NEW f \in Fds, NEW p \in Peers, Accept(p, f)
      PROVE  ~ overlap
  BY <1>4 DEF Accept
<1>5. ASSUME NEW f \in Fds,
             \/ \E weights \in 1 .. MaxWeight : SvrOn(f, weights, 1)
             \/ CliOn(f)
             \/ \E named \in Servers \cup {Nobody}, o \in Objects : Apply(f, named, o)
             \/ \E c \in Clients : Reply(f, c)
      PROVE  UNCHANGED overlap
  BY <1>5 DEF SvrOn, CliOn, Apply, Reply
<1>6. CASE UNCHANGED vars
  BY <1>6 DEF vars
<1> QED
  BY <1>2, <1>3, <1>4, <1>5, <1>6 DEF Next

\* The inductive invariant holds initially.
LEMMA InitInv ==
  ASSUME Init
  PROVE  IInv
<1>1. \A p \in Peers : FdOf(p) = NoFd
  BY DEF Init, FdOf, Peers, Offline
<1>2. Online = {}
  BY <1>1 DEF Online
<1>3. TypeOK
  BY CoordiAssumption DEF Init, TypeOK, Offline, NotSent, Peers
<1>4. RingExact
  BY <1>2 DEF Init, RingExact
<1>5. FdInv
  BY <1>2 DEF Init, FdInv, OneConnection, FoundIsOwn, OnlineIsFound
<1>6. SentInv
  BY DEF Init, SentInv, NotSent
<1> QED
  BY <1>3, <1>4, <1>5, <1>6 DEF IInv

\* Every step keeps it.
LEMMA StepInv ==
  ASSUME IInv, [Next]_vars
  PROVE  IInv'
<1>1. TypeOK /\ RingExact
  BY DEF IInv
<1>2. TypeOK' /\ RingExact'
  BY <1>1, TypeStep, RingStep
<1>3. ASSUME ~ overlap'
      PROVE  FdInv' /\ SentInv'
  <2>1. FdInv /\ SentInv
    BY <1>3, OverlapStays DEF IInv
  <2> QED
    BY <1>1, <1>3, <2>1, FdStep, SentStep
<1> QED
  BY <1>2, <1>3 DEF IInv

-----------------------------------------------------------------------------
(***************************************************************************)
(* The theorems.                                                           *)
(***************************************************************************)

\* IInv holds in every reachable state.
LEMMA Invariance == Spec => []IInv
BY InitInv, StepInv, PTL DEF Spec

\* Descriptors, weights and virtual nodes stay in their ranges.
THEOREM TypeCorrect == Spec => []TypeOK
<1>1. IInv => TypeOK
  BY DEF IInv
<1> QED
  BY <1>1, Invariance, PTL

\* The ring of the coordinator holds the virtual nodes of the servers online
\* and no others, whatever the peers do (kr_conhash_add, kr_conhash_remove).
THEOREM RingIsExact == Spec => []RingExact
<1>1. IInv => RingExact
  BY DEF IInv
<1> QED
  BY <1>1, Invariance, PTL

\* fdtable agrees with the lists of servers and clients as long as no peer
\* comes back before its old connection is noticed to be gone.
THEOREM FdTableCorrect == Spec => []FdTableExact
<1>1. IInv => FdTableExact
  BY DEF IInv, FdInv, FoundIsOwn, OnlineIsFound, FdTableExact
<1> QED
  BY <1>1, Invariance, PTL

\* Applies and replies are then written to the peers they are meant for.
THEOREM RoutedCorrectly == Spec => []RoutedToOwner
<1>1. IInv => RoutedToOwner
  BY DEF IInv, SentInv, RoutedToOwner
<1> QED
  BY <1>1, Invariance, PTL

\* The step property behind StickyRouting.
StickyStep ==
  \A o \in Objects :
    LET old == Locate(vnode_list, o)
        new == Locate(vnode_list', o)
    IN  old # new => old \notin Online' \/ new \notin Online

\* A server that comes draws objects to itself only.
LEMMA StickySvrOn ==
  ASSUME TypeOK, NEW f \in Fds, NEW weights \in 1 .. MaxWeight, SvrOn(f, weights, 1)
  PROVE  StickyStep
<1>1. PICK s : s = conn[f]
  OBVIOUS
<1>2. s \in Servers /\ s \notin Online /\ vnode_list' = vnode_list \cup VnodesOf(s, weights)
  BY <1>1 DEF SvrOn
<1>3. weights \in 0 .. MaxWeight
  BY CoordiAssumption
<1>4. /\ vnode_list \subseteq Vids /\ VnodesOf(s, weights) \subseteq Vids
      /\ \A v \in VnodesOf(s, weights) : v[1] = s
  BY <1>2, <1>3, VnodeType DEF TypeOK
<1>5. \A o \in Objects : \/ Locate(vnode_list \cup VnodesOf(s, weights), o) = s
                         \/ Locate(vnode_list \cup VnodesOf(s, weights), o) = Locate(vnode_list, o)
  BY <1>4, LocateSticks, ZenonT(40)
<1> QED
  BY <1>2, <1>5 DEF StickyStep

\* A server that goes gives up its own objects only.
LEMMA StickySvrOff ==
  ASSUME TypeOK, NEW f \in Fds, NEW s, SvrOff(f, s)
  PROVE  StickyStep
<1>1. /\ s \in Servers /\ vnode_list' = vnode_list \ VnodesOf(s, servers[s].weights)
      /\ FdOf(s)' = NoFd /\ servers[s].weights \in 0 .. MaxWeight
  BY FdOfGone DEF SvrOff, ConhashRemove, TypeOK
<1>2. s \notin Online'
  BY <1>1 DEF Online, FdOf
<1> DEFINE A == vnode_list \cap VnodesOf(s, servers[s].weights)
<1>3. /\ vnode_list = vnode_list' \cup A
      /\ vnode_list' \subseteq Vids /\ A \subseteq Vids /\ \A v \in A : v[1] = s
  BY <1>1, VnodeType DEF TypeOK
<1>4. PICK R, B : R = vnode_list' /\ B = A
  OBVIOUS
<1>5. R \subseteq Vids /\ B \subseteq Vids /\ \A v \in B : v[1] = s
  BY <1>3, <1>4
<1>6. \A o \in Objects : Locate(R \cup B, o) = s \/ Locate(R \cup B, o) = Locate(R, o)
  BY <1>5, LocateSticks, ZenonT(40)
<1>7. \A o \in Objects : Locate(vnode_list, o) = s \/ Locate(vnode_list, o) = Locate(vnode_list', o)
  BY <1>3, <1>4, <1>6
<1> QED
  BY <1>2, <1>7 DEF StickyStep

\* Consistent hashing: an object changes its server only from one that has
\* gone, or to one that has come.
THEOREM ConsistentHashing == Spec => StickyRouting
<1>1. ASSUME TypeOK, [Next]_vars
      PROVE  [StickyStep]_vars
  <2>1. ASSUME UNCHANGED vnode_list
        PROVE  StickyStep
    BY <2>1 DEF StickyStep
  <2>2. ASSUME NEW f \in Fds, NEW p, SvrOff(f, p) \/ CliOff(f, p)
        PROVE  StickyStep
    <3>1. CASE CliOff(f, p)
      BY <2>1, <3>1 DEF CliOff
    <3> QED
      BY <1>1, <2>2, <3>1, StickySvrOff
  <2>3. ASSUME NEW f \in Fds, ReadFails(f)
        PROVE  StickyStep
    <3>1. CASE UNCHANGED registry
      BY <2>1, <3>1 DEF registry
    <3> QED
      BY <2>2, <2>3, <3>1 DEF ReadFails
  <2>4. ASSUME NEW f \in Fds, Off(f)
        PROVE  StickyStep
    BY <2>2, <2>4 DEF Off
  <2>5. ASSUME NEW f \in Fds,
               \/ \E p \in Peers : Accept(p, f)
               \/ CliOn(f)
               \/ \E named \in Servers \cup {Nobody}, o \in Objects : Apply(f, named, o)
               \/ \E c \in Clients : Reply(f, c)
        PROVE  UNCHANGED vnode_list
    BY <2>5 DEF Accept, CliOn, Apply, Reply, registry
  <2>6. CASE UNCHANGED vars
    BY <2>6
  <2> QED
    BY <1>1, <2>1, <2>3, <2>4, <2>5, <2>6, StickySvrOn DEF Next
<1>2. IInv => TypeOK
  BY DEF IInv
<1>3. Spec => [][StickyStep]_vars
  BY <1>1, <1>2, Invariance, PTL DEF Spec
<1> QED
  BY <1>3 DEF StickyRouting, StickyStep

-----------------------------------------------------------------------------
(***************************************************************************)
(* The hash table: its sizes are powers of two.                            *)
(***************************************************************************)

\* The shifts that a table can have, and the one past them.
Shifts == 0 .. 30

LEMMA PowersOfTwo ==
  /\ \A n \in Shifts : 2 ^ (n + 1) = 2 * 2 ^ n
  /\ \A n \in 0 .. 31 : 2 ^ n \in Nat /\ 2 ^ n > n
  /\ 2 ^ 0 = 1
<1> DEFINE Two(n) == 2 ^ n
<1>1. /\ Two(0) = 1 /\ Two(1) = 2 /\ Two(2) = 4 /\ Two(3) = 8 /\ Two(4) = 16 /\ Two(5) = 32
      /\ Two(6) = 64 /\ Two(7) = 128 /\ Two(8) = 256 /\ Two(9) = 512 /\ Two(10) = 1024
      /\ Two(11) = 2048 /\ Two(12) = 4096 /\ Two(13) = 8192 /\ Two(14) = 16384
      /\ Two(15) = 32768 /\ Two(16) = 65536 /\ Two(17) = 131072 /\ Two(18) = 262144
      /\ Two(19) = 524288 /\ Two(20) = 1048576 /\ Two(21) = 2097152 /\ Two(22) = 4194304
      /\ Two(23) = 8388608 /\ Two(24) = 16777216 /\ Two(25) = 33554432
      /\ Two(26) = 67108864 /\ Two(27) = 134217728 /\ Two(28) = 268435456
      /\ Two(29) = 536870912 /\ Two(30) = 1073741824 /\ Two(31) = 2147483648
  OBVIOUS
<1> HIDE DEF Two
<1>2. ASSUME NEW n \in Shifts
      PROVE  Two(n + 1) = 2 * Two(n)
  <2>1. n \in {0, 1, 2, 3, 4, 5, 6, 7, 8, 9, 10, 11, 12, 13, 14, 15, 16, 17, 18, 19, 20,
               21, 22, 23, 24, 25, 26, 27, 28, 29, 30}
    BY DEF Shifts
  <2> QED
    BY <1>1, <2>1
<1>3. ASSUME NEW n \in 0 .. 31
      PROVE  Two(n) \in Nat /\ Two(n) > n
  <2>1. n \in {0, 1, 2, 3, 4, 5, 6, 7, 8, 9, 10, 11, 12, 13, 14, 15, 16, 17, 18, 19, 20,
               21, 22, 23, 24, 25, 26, 27, 28, 29, 30, 31}
    OBVIOUS
  <2> QED
    BY <1>1, <2>1
<1> QED
  BY <1>1, <1>2, <1>3 DEF Two

\* An odd number takes no factor of two from a product.
LEMMA OddFactor ==
  ASSUME NEW n \in 0 .. 31, NEW a \in Nat, NEW b \in Nat, NEW q \in Nat,
         a % 2 = 1, a * b = q * 2 ^ n
  PROVE  \E r \in Nat : b = r * 2 ^ n
<1> DEFINE Fails(m, c) == (\E k \in Nat : a * c = k * 2 ^ m) /\ ~ (\E r \in Nat : c = r * 2 ^ m)
           Wrong == {m \in 0 .. 31 : \E c \in Nat : Fails(m, c)}
<1>1. SUFFICES ASSUME Wrong # {}
               PROVE  FALSE
  OBVIOUS
<1>2. Wrong \subseteq Nat
  OBVIOUS
<1>3. PICK m \in Wrong : \A y \in Wrong : m <= y
  BY <1>1, <1>2, LeastNat
<1>4. PICK c \in Nat : Fails(m, c)
  BY <1>3
<1> HIDE DEF Wrong
<1>5. m \in 0 .. 31
  BY <1>3 DEF Wrong
<1>6. CASE m = 0
  <2>1. c = c * 2 ^ m
    BY <1>6, PowersOfTwo
  <2> QED
    BY <1>4, <2>1
<1>7. CASE m # 0
  <2>1. PICK p \in Shifts : m = p + 1
    BY <1>5, <1>7 DEF Shifts
  <2>2. PICK N \in Nat : N = 2 ^ p
    <3>1. p \in 0 .. 31
      BY <2>1 DEF Shifts
    <3>2. 2 ^ p \in Nat
      BY <3>1, PowersOfTwo, Zenon
    <3> QED
      BY <3>2, Zenon
  <2>3. 2 ^ m = 2 * N
    BY <2>1, <2>2, PowersOfTwo
  <2>4. PICK k \in Nat : a * c = k * (2 * N)
    BY <1>4, <2>3
  <2>5. PICK h \in Nat : a = 2 * h + 1
    <3>1. a = 2 * (a \div 2) + 1 /\ a \div 2 \in Nat
      OBVIOUS
    <3> QED
      BY <3>1
  <2>6. PICK d \in Nat : c = 2 * d
    <3>1. c = 2 * (k * N) - 2 * (h * c)
      BY <2>4, <2>5
    <3>2. k * N \in Nat /\ h * c \in Nat
      OBVIOUS
    <3>3. c = 2 * (k * N - h * c)
      BY <3>1, <3>2
    <3>4. k * N - h * c \in Nat
      BY <3>2, <3>3
    <3> QED
      BY <3>3, <3>4
  <2>7. a * d = k * N
    <3>1. a * (2 * d) = 2 * (a * d) /\ k * (2 * N) = 2 * (k * N)
      OBVIOUS
    <3>2. a * d \in Nat /\ k * N \in Nat
      OBVIOUS
    <3> QED
      BY <2>4, <2>6, <3>1, <3>2
  <2>8. p \notin Wrong
    BY <1>3, <2>1 DEF Shifts
  <2>9. PICK r \in Nat : d = r * N
    <3>1. p \in 0 .. 31
      BY <2>1 DEF Shifts
    <3>2. ~ Fails(p, d)
      BY <2>8, <3>1, Zenon DEF Wrong
    <3>3. \E j \in Nat : a * d = j * 2 ^ p
      BY <2>2, <2>7, Zenon
    <3>4. \E r \in Nat : d = r * 2 ^ p
      BY <3>2, <3>3, Zenon
    <3> QED
      BY <2>2, <3>4, Zenon
  <2>10. c = r * (2 * N)
    BY <2>6, <2>9
  <2> QED
    BY <1>4, <2>3, <2>10
<1> QED
  BY <1>6, <1>7

\* Two numbers with the same remainder differ by a multiple.
LEMMA SameRemainder ==
  ASSUME NEW N \in Nat, N > 0, NEW x \in Nat, NEW y \in Nat, x % N = y % N
  PROVE  \E q \in Int : y - x = q * N
<1>1. PICK i \in Int, j \in Int, r \in 0 .. N - 1 : x = (i * N) + r /\ y = (j * N) + r
  <2>1. \E i \in Int, r \in 0 .. N - 1 : x = (i * N) + r /\ r = x % N
    OBVIOUS
  <2>2. \E j \in Int, r \in 0 .. N - 1 : y = (j * N) + r /\ r = y % N
    OBVIOUS
  <2> QED
    BY <2>1, <2>2
<1>2. y - x = (j - i) * N
  BY <1>1
<1> QED
  BY <1>2

LEMMA SizeFacts ==
  ASSUME NEW sh \in Shifts
  PROVE  /\ 2 ^ sh \in Nat /\ 2 ^ sh > 0
         /\ Buckets(sh) = 0 .. 2 ^ sh - 1
         /\ Mod(sh) \in Nat \ {0}
<1>1. sh \in 0 .. 31 /\ sh + 1 \in 1 .. 32
  BY DEF Shifts
<1>2. 2 ^ sh \in Nat /\ 2 ^ sh > sh
  BY <1>1, PowersOfTwo, Zenon
<1>3. \A i \in 1 .. 32 : prime_mod[i] \in Nat \ {0}
  <2> TAKE i \in 1 .. 32
  <2>1. i \in {1, 2, 3, 4, 5, 6, 7, 8, 9, 10, 11, 12, 13, 14, 15, 16, 17, 18, 19, 20,
               21, 22, 23, 24, 25, 26, 27, 28, 29, 30, 31, 32}
    OBVIOUS
  <2> QED
    BY <2>1 DEF prime_mod
<1>4. Mod(sh) \in Nat \ {0}
  BY <1>1, <1>3 DEF Mod
<1>5. PICK N : N = 2 ^ sh
  OBVIOUS
<1>6. N > 0
  BY <1>1, <1>2, <1>5
<1> QED
  BY <1>2, <1>4, <1>5, <1>6 DEF Buckets

\* The steps of 1, 2, 3, ... add up to the half of s * (s + 1).
LEMMA Triangle ==
  ASSUME NEW s \in Nat
  PROVE  (s * (s + 1)) \div 2 \in Nat /\ 2 * ((s * (s + 1)) \div 2) = s * (s + 1)
<1>1. PICK h \in Nat : s = 2 * h \/ s = 2 * h + 1
  <2>1. s \div 2 \in Nat /\ (s = 2 * (s \div 2) \/ s = 2 * (s \div 2) + 1)
    OBVIOUS
  <2> QED
    BY <2>1
<1>2. PICK p \in Nat : s * (s + 1) = 2 * p
  <2>1. CASE s = 2 * h
    <3>1. s * (s + 1) = 2 * (h * (s + 1)) /\ h * (s + 1) \in Nat
      BY <2>1
    <3> QED
      BY <3>1
  <2>2. CASE s = 2 * h + 1
    <3>1. s + 1 = 2 * (h + 1)
      BY <2>2
    <3>2. s * (s + 1) = 2 * (s * (h + 1)) /\ s * (h + 1) \in Nat
      BY <3>1
    <3> QED
      BY <3>2
  <2> QED
    BY <1>1, <2>1, <2>2
<1>3. (2 * p) \div 2 = p
  OBVIOUS
<1> QED
  BY <1>2, <1>3

LEMMA ProbeIsBucket ==
  ASSUME NEW sh \in Shifts, NEW h \in Nat, NEW s \in Nat
  PROVE  Probe(sh, h, s) \in Buckets(sh)
<1>1. PICK N \in Nat : N = 2 ^ sh /\ N > 0
  BY SizeFacts, Zenon
<1>2. h % Mod(sh) \in Nat
  BY SizeFacts
<1>3. PICK x \in Nat : x = (h % Mod(sh)) + (s * (s + 1)) \div 2
  BY <1>2, Triangle
<1>4. x % N \in 0 .. N - 1
  BY <1>1
<1> QED
  BY <1>1, <1>3, <1>4 DEF Probe, Buckets

\* The first 2 ^ sh steps go to different buckets.
LEMMA ProbesDiffer ==
  ASSUME NEW sh \in Shifts, NEW h \in Nat, NEW s \in Buckets(sh), NEW t \in Buckets(sh), s < t
  PROVE  Probe(sh, h, s) # Probe(sh, h, t)
<1> SUFFICES ASSUME Probe(sh, h, s) = Probe(sh, h, t)
             PROVE  FALSE
  OBVIOUS
<1>1. PICK N \in Nat : N = 2 ^ sh /\ N > 0
  BY SizeFacts, Zenon
<1>2. s \in 0 .. N - 1 /\ t \in 0 .. N - 1
  BY <1>1 DEF Buckets
<1>3. PICK m \in Nat : m = h % Mod(sh)
  BY SizeFacts
<1>4. PICK S, U : S = (s * (s + 1)) \div 2 /\ U = (t * (t + 1)) \div 2
  OBVIOUS
<1>5. S \in Nat /\ U \in Nat /\ 2 * S = s * (s + 1) /\ 2 * U = t * (t + 1)
  BY <1>2, <1>4, Triangle
<1>6. (m + S) % N = (m + U) % N
  BY <1>1, <1>3, <1>4 DEF Probe
<1>7. PICK q \in Int : U - S = q * N
  <2>1. m + S \in Nat /\ m + U \in Nat
    BY <1>5
  <2>2. PICK q \in Int : (m + U) - (m + S) = q * N
    BY <1>1, <1>6, <2>1, SameRemainder, Zenon
  <2>3. q * N \in Int
    BY <1>1
  <2> QED
    BY <1>5, <2>2, <2>3
<1>8. PICK d \in Nat, e \in Nat : d = t - s /\ e = t + s + 1
  BY <1>2
<1>9. 0 < d /\ d < 2 * N /\ 0 < e /\ e < 2 * N
  BY <1>2, <1>8
<1>10. d * e = 2 * (U - S)
  <2>1. d * e = t * (t + 1) - s * (s + 1)
    BY <1>2, <1>8
  <2> QED
    BY <1>5, <2>1
<1>11. d * e = q * (2 * N)
  BY <1>7, <1>10
<1>12. q \in Nat
  <2>1. d * e > 0
    BY <1>9
  <2>2. ASSUME q < 0
        PROVE  FALSE
    <3>1. q * (2 * N) <= 0
      BY <1>1, <2>2
    <3> QED
      BY <1>11, <2>1, <3>1
  <2> QED
    BY <2>2
<1>13. sh + 1 \in 0 .. 31 /\ 2 ^ (sh + 1) = 2 * N
  <2>1. sh + 1 \in 0 .. 31
    BY DEF Shifts
  <2>2. 2 ^ (sh + 1) = 2 * 2 ^ sh
    BY PowersOfTwo, Zenon
  <2> QED
    BY <1>1, <2>1, <2>2, Zenon
<1>14. d % 2 = 1 \/ e % 2 = 1
  BY <1>2, <1>8
<1>15. ASSUME NEW x \in Nat, 0 < x, x < 2 * N, NEW r \in Nat, x = r * (2 * N)
       PROVE  FALSE
  <2>1. CASE r = 0
    BY <1>15, <2>1
  <2>2. CASE r > 0
    <3>1. r * (2 * N) >= 2 * N
      BY <2>2
    <3> QED
      BY <1>15, <3>1
  <2> QED
    BY <2>1, <2>2
<1>16. CASE d % 2 = 1
  <2>1. d * e = q * 2 ^ (sh + 1)
    BY <1>11, <1>13, Zenon
  <2>2. \E r \in Nat : e = r * 2 ^ (sh + 1)
    BY <1>12, <1>13, <1>16, <2>1, OddFactor, ZenonT(60)
  <2>3. \E r \in Nat : e = r * (2 * N)
    BY <1>13, <2>2, Zenon
  <2> QED
    BY <1>9, <1>15, <2>3
<1>17. CASE e % 2 = 1
  <2>1. e * d = q * (2 * N)
    BY <1>11
  <2>2. e * d = q * 2 ^ (sh + 1)
    BY <1>13, <2>1, Zenon
  <2>3. \E r \in Nat : d = r * 2 ^ (sh + 1)
    BY <1>12, <1>13, <1>17, <2>2, OddFactor, ZenonT(60)
  <2>4. \E r \in Nat : d = r * (2 * N)
    BY <1>13, <2>3, Zenon
  <2> QED
    BY <1>9, <1>15, <2>4
<1> QED
  BY <1>14, <1>16, <1>17

\* The probes of a key visit every bucket of the table.
LEMMA ProbesAll ==
  ASSUME NEW sh \in Shifts, NEW h \in Nat, NEW i \in Buckets(sh)
  PROVE  \E s \in Buckets(sh) : Probe(sh, h, s) = i
<1> DEFINE B == Buckets(sh)
           f == [s \in B |-> Probe(sh, h, s)]
<1>1. B \subseteq Int /\ B \subseteq Nat /\ IsFiniteSet(B)
  <2>1. PICK N \in Nat : N = 2 ^ sh
    BY SizeFacts, Zenon
  <2>2. B = 0 .. N - 1 /\ N - 1 \in Int
    BY <2>1 DEF Buckets
  <2> QED
    BY <2>2, FS_Interval
<1>2. f \in [B -> B]
  BY <1>1, ProbeIsBucket
<1>3. f \in Injection(B, B)
  <2>1. ASSUME NEW s \in B, NEW t \in B, f[s] = f[t]
        PROVE  s = t
    <3>1. ~ (s < t) /\ ~ (t < s)
      BY <2>1, ProbesDiffer
    <3> QED
      BY <1>1, <3>1
  <2> QED
    BY <1>2, <2>1 DEF Injection, IsInjective
<1>4. f \in Surjection(B, B)
  BY <1>1, <1>3, FS_Injection
<1> QED
  BY <1>4 DEF Surjection

-----------------------------------------------------------------------------
(***************************************************************************)
(* What a table of entries is, for any of its sizes.                       *)
(***************************************************************************)

Entry(k, v) == [hash |-> KeyHash(k), key |-> k, value |-> v]

IsEntry(n) == \E k \in Key : \E v \in Value[k] : n = Entry(k, v)

\* A search for the hash gets to bucket i.
Reached(sh, nds, h, i) ==
  \E s \in Buckets(sh) :
    /\ Probe(sh, h, s) = i
    /\ \A t \in 0 .. s - 1 : nds[Probe(sh, h, t)].hash # 0

IsTable(sh, nds) == nds = [i \in Buckets(sh) |-> nds[i]]

TableOK(sh, nds) ==
  /\ sh \in Shifts
  /\ IsTable(sh, nds)
  /\ \A i \in Buckets(sh) : nds[i] = EmptyNode \/ nds[i] = Tombstone \/ IsEntry(nds[i])
  /\ \A i, j \in Entries(nds) : nds[i].key = nds[j].key => i = j
  /\ \A i \in Entries(nds) : Reached(sh, nds, nds[i].hash, i)

HasRoom(sh, nds) == \E i \in Buckets(sh) : nds[i].hash = 0

Lacks(nds, k) == \A i \in Entries(nds) : nds[i].key # k

LEMMA KeyHashes == \A k \in Key : KeyHash(k) \in Nat /\ KeyHash(k) > 1
BY HashAssumption DEF KeyHash

LEMMA EntryFields ==
  ASSUME NEW n, IsEntry(n)
  PROVE  /\ n.key \in Key /\ n.hash = KeyHash(n.key) /\ n.value \in Value[n.key] /\ n.value # NULL
         /\ n.hash \in Nat /\ n.hash > 1
<1>1. PICK k \in Key : \E v \in Value[k] : n = Entry(k, v)
  BY DEF IsEntry
<1>2. PICK v \in Value[k] : n = Entry(k, v)
  BY <1>1
<1>3. n.key = k /\ n.hash = KeyHash(k) /\ n.value = v
  BY <1>2 DEF Entry
<1>4. v # NULL
  BY <1>2, HashAssumption
<1> QED
  BY <1>2, <1>3, <1>4, KeyHashes

LEMMA NodeFacts ==
  ASSUME NEW sh, NEW nds, TableOK(sh, nds)
  PROVE  /\ DOMAIN nds = Buckets(sh) /\ Entries(nds) \subseteq Buckets(sh)
         /\ \A i \in Buckets(sh) : nds[i].hash \in Nat
         /\ \A i \in Buckets(sh) : nds[i].hash > 1 <=> IsEntry(nds[i])
         /\ \A i \in Buckets(sh) : nds[i].hash = 0 <=> nds[i] = EmptyNode
         /\ \A i \in Entries(nds) : IsEntry(nds[i])
<1>1. DOMAIN nds = Buckets(sh)
  BY DEF TableOK, IsTable
<1>2. ASSUME NEW i \in Buckets(sh)
      PROVE  /\ nds[i].hash \in Nat /\ (nds[i].hash > 1 <=> IsEntry(nds[i]))
             /\ (nds[i].hash = 0 <=> nds[i] = EmptyNode)
  <2>1. CASE nds[i] = EmptyNode
    <3>1. nds[i].hash = 0
      BY <2>1 DEF EmptyNode
    <3> QED
      BY <2>1, <3>1, EntryFields
  <2>2. CASE nds[i] = Tombstone
    <3>1. nds[i].hash = 1
      BY <2>2 DEF Tombstone
    <3> QED
      BY <3>1, EntryFields DEF EmptyNode
  <2>3. CASE IsEntry(nds[i])
    <3>1. nds[i].hash \in Nat /\ nds[i].hash > 1
      BY <2>3, EntryFields
    <3> QED
      BY <2>3, <3>1 DEF EmptyNode
  <2> QED
    BY <2>1, <2>2, <2>3 DEF TableOK
<1> QED
  BY <1>1, <1>2 DEF Entries

\* A set of steps has a least one, which a search stops at.
LEMMA FirstStep ==
  ASSUME NEW S, S \subseteq Nat, S # {}
  PROVE  Min(S) \in S /\ \A m \in S : Min(S) <= m
<1>1. \E x \in S : \A y \in S : x <= y
  BY LeastNat
<1> QED
  BY <1>1 DEF Min

\* While a bucket is free, every search stops: at the key if the table has
\* it, at a free bucket otherwise (kr_hashtable_lookup_node).
LEMMA SearchStops ==
  ASSUME NEW sh, NEW nds, TableOK(sh, nds), HasRoom(sh, nds), NEW k \in Key
  PROVE  LET S == StopSteps(sh, nds, k)
             i == Probe(sh, KeyHash(k), Min(S))
         IN  /\ S # {} /\ Min(S) \in S /\ \A m \in S : Min(S) <= m
             /\ i \in Buckets(sh)
             /\ \A t \in 0 .. Min(S) - 1 : nds[Probe(sh, KeyHash(k), t)].hash # 0
             /\ \/ nds[i].hash > 1 /\ nds[i].key = k
                \/ nds[i].hash = 0 /\ Lacks(nds, k)
<1> DEFINE S == StopSteps(sh, nds, k)
           h == KeyHash(k)
<1>1. sh \in Shifts /\ h \in Nat /\ h > 1
  BY KeyHashes DEF TableOK
<1>2. Buckets(sh) \subseteq Nat
  BY <1>1, SizeFacts
<1>3. S \subseteq Buckets(sh)
  BY DEF StopSteps
<1>4. S # {}
  <2>1. PICK b \in Buckets(sh) : nds[b].hash = 0
    BY DEF HasRoom
  <2>2. PICK s \in Buckets(sh) : Probe(sh, h, s) = b
    BY <1>1, <2>1, ProbesAll
  <2>3. s \in S
    BY <2>1, <2>2 DEF StopSteps
  <2> QED
    BY <2>3
<1> HIDE DEF S, h
<1>5. PICK m : m = Min(S)
  OBVIOUS
<1>6. m \in S /\ (\A n \in S : m <= n) /\ m \in Nat /\ m \in Buckets(sh)
  BY <1>2, <1>3, <1>4, <1>5, FirstStep
<1>7. PICK i : i = Probe(sh, h, m)
  OBVIOUS
<1>8. i \in Buckets(sh)
  BY <1>1, <1>6, <1>7, ProbeIsBucket
<1>9. \A t \in 0 .. m - 1 : nds[Probe(sh, h, t)].hash # 0 /\ ~ Matches(nds[Probe(sh, h, t)], k)
  <2> TAKE t \in 0 .. m - 1
  <2>1. t \notin S
    BY <1>6
  <2>2. t \in Buckets(sh)
    BY <1>1, <1>6, SizeFacts
  <2> QED
    BY <2>1, <2>2 DEF S, h, StopSteps
<1>10. nds[i].hash = 0 \/ Matches(nds[i], k)
  BY <1>6, <1>7 DEF S, h, StopSteps
<1>11. ASSUME Matches(nds[i], k)
       PROVE  nds[i].hash > 1 /\ nds[i].key = k
  BY <1>1, <1>11 DEF Matches, h
<1>12. ASSUME nds[i].hash = 0
       PROVE  Lacks(nds, k)
  <2> SUFFICES ASSUME NEW j \in Entries(nds), nds[j].key = k
               PROVE  FALSE
    BY DEF Lacks
  <2>1. j \in Buckets(sh) /\ IsEntry(nds[j])
    BY NodeFacts
  <2>2. nds[j].hash = h /\ nds[j].hash > 1
    BY <2>1, EntryFields DEF h
  <2>3. PICK s \in Buckets(sh) : Probe(sh, h, s) = j /\ \A t \in 0 .. s - 1 : nds[Probe(sh, h, t)].hash # 0
    BY <2>2 DEF TableOK, Reached
  <2>4. Matches(nds[j], k)
    BY <2>2 DEF Matches, h
  <2>5. ~ (s < m)
    BY <1>2, <1>6, <1>9, <2>3, <2>4
  <2>6. ~ (m < s)
    BY <1>2, <1>6, <1>7, <1>12, <2>3
  <2>7. s = m
    BY <1>2, <1>6, <2>5, <2>6
  <2> QED
    BY <1>7, <1>12, <2>2, <2>3, <2>7
<1> QED
  BY <1>4, <1>5, <1>6, <1>7, <1>8, <1>9, <1>10, <1>11, <1>12 DEF S, h

\* kr_hashtable_lookup_node_for_insertion returns the entry of the key, or
\* else a bucket that can be taken and that searches for the key get to.
LEMMA InsertionPoint ==
  ASSUME TableOK(shift, nodes), HasRoom(shift, nodes), NEW k \in Key
  PROVE  LET i == LookupNodeForInsertion(k)
         IN  /\ i \in Buckets(shift)
             /\ Reached(shift, nodes, KeyHash(k), i)
             /\ \/ nodes[i].hash > 1 /\ nodes[i].key = k
                \/ nodes[i].hash \in {0, 1} /\ Lacks(nodes, k)
<1> DEFINE h == KeyHash(k)
           stop == Min(StopSteps(shift, nodes, k))
           tombs == {s \in 0 .. stop - 1 : nodes[Probe(shift, h, s)].hash = 1}
           at == Probe(shift, h, stop)
           found == Matches(nodes[at], k)
<1>1. shift \in Shifts /\ h \in Nat /\ h > 1
  BY KeyHashes DEF TableOK
<1>2. Buckets(shift) = 0 .. 2 ^ shift - 1 /\ Buckets(shift) \subseteq Nat
  BY <1>1, SizeFacts
<1>3. /\ stop \in StopSteps(shift, nodes, k) /\ at \in Buckets(shift)
      /\ \A t \in 0 .. stop - 1 : nodes[Probe(shift, h, t)].hash # 0
      /\ \/ nodes[at].hash > 1 /\ nodes[at].key = k
         \/ nodes[at].hash = 0 /\ Lacks(nodes, k)
  BY SearchStops
<1>4. stop \in Buckets(shift)
  BY <1>3 DEF StopSteps
<1>5. LookupNodeForInsertion(k) = Probe(shift, h, IF found \/ tombs = {} THEN stop ELSE Min(tombs))
  BY DEF LookupNodeForInsertion
<1>6. stop \in Nat
  BY <1>2, <1>4
<1>7. CASE found \/ tombs = {}
  <2>1. LookupNodeForInsertion(k) = at
    BY <1>5, <1>7
  <2>2. Reached(shift, nodes, h, at)
    BY <1>3, <1>4 DEF Reached
  <2> HIDE DEF at, h
  <2> QED
    BY <1>3, <2>1, <2>2 DEF h
<1>8. CASE ~ found /\ tombs # {}
  <2> DEFINE m == Min(tombs)
  <2>1. m \in tombs
    BY <1>6, <1>8, FirstStep
  <2>2. m \in 0 .. stop - 1 /\ nodes[Probe(shift, h, m)].hash = 1
    BY <2>1
  <2> HIDE DEF m
  <2>3. LookupNodeForInsertion(k) = Probe(shift, h, m)
    BY <1>5, <1>8 DEF m
  <2>4. m \in Nat /\ m \in Buckets(shift)
    <3>1. PICK N : N = 2 ^ shift
      OBVIOUS
    <3>2. Buckets(shift) = 0 .. N - 1
      BY <1>2, <3>1, Zenon
    <3>3. N \in Nat
      BY <1>1, <3>1, SizeFacts, Zenon
    <3> QED
      BY <1>4, <1>6, <2>2, <3>2, <3>3
  <2>5. Reached(shift, nodes, h, Probe(shift, h, m))
    BY <1>3, <1>6, <2>2, <2>4 DEF Reached
  <2>6. Lacks(nodes, k)
    <3>1. CASE nodes[at].hash > 1 /\ nodes[at].key = k
      <4>1. IsEntry(nodes[at])
        BY <1>3, <3>1, NodeFacts
      <4> QED
        BY <1>8, <3>1, <4>1, EntryFields DEF Matches
    <3> QED
      BY <1>3, <3>1
  <2>7. Probe(shift, h, m) \in Buckets(shift)
    BY <1>1, <2>4, ProbeIsBucket
  <2> QED
    BY <2>2, <2>3, <2>5, <2>6, <2>7
<1> QED
  BY <1>7, <1>8

\* A new entry in a bucket without one, where searches for it get to.
LEMMA PutEntry ==
  ASSUME NEW sh, NEW nds, TableOK(sh, nds), NEW i \in Buckets(sh), nds[i].hash \in {0, 1},
         NEW n, IsEntry(n), Lacks(nds, n.key), Reached(sh, nds, n.hash, i),
         NEW new, IsTable(sh, new),
         \A j \in Buckets(sh) : new[j] = IF j = i THEN n ELSE nds[j]
  PROVE  /\ TableOK(sh, new)
         /\ Entries(new) = Entries(nds) \cup {i} /\ i \notin Entries(nds)
<1>1. DOMAIN nds = Buckets(sh)
  BY NodeFacts
<1>2. /\ DOMAIN new = Buckets(sh) /\ new = [j \in Buckets(sh) |-> new[j]]
      /\ \A j \in Buckets(sh) : new[j] = IF j = i THEN n ELSE nds[j]
  BY DEF IsTable
<1>3. i \notin Entries(nds)
  BY DEF Entries
<1>4. n.hash > 1 /\ n.hash \in Nat
  BY EntryFields
<1>5. Entries(new) = Entries(nds) \cup {i}
  BY <1>1, <1>2, <1>4 DEF Entries
<1>6. \A p, q \in Entries(new) : new[p].key = new[q].key => p = q
  <2> TAKE p, q \in Entries(new)
  <2>1. p \in Buckets(sh) /\ q \in Buckets(sh)
    BY <1>2 DEF Entries
  <2>2. p # i => p \in Entries(nds) /\ new[p] = nds[p]
    BY <1>2, <1>5, <2>1
  <2>3. q # i => q \in Entries(nds) /\ new[q] = nds[q]
    BY <1>2, <1>5, <2>1
  <2>4. new[i] = n
    BY <1>2
  <2> QED
    BY <2>2, <2>3, <2>4 DEF Lacks, TableOK
<1>7. ASSUME NEW j \in Entries(new)
      PROVE  Reached(sh, new, new[j].hash, j)
  <2>1. Reached(sh, nds, new[j].hash, j)
    <3>1. CASE j = i
      BY <1>2, <3>1
    <3>2. CASE j # i
      BY <1>2, <1>5, <1>7, <3>2 DEF TableOK, Entries
    <3> QED
      BY <3>1, <3>2
  <2>2. sh \in Shifts /\ new[j].hash \in Nat
    <3>1. j \in Buckets(sh)
      BY <1>2 DEF Entries
    <3>2. new[j].hash = IF j = i THEN n.hash ELSE nds[j].hash
      BY <1>2, <3>1
    <3> QED
      BY <1>4, <3>1, <3>2, NodeFacts DEF TableOK
  <2>3. PICK s \in Buckets(sh) : /\ Probe(sh, new[j].hash, s) = j
                                /\ \A t \in 0 .. s - 1 : nds[Probe(sh, new[j].hash, t)].hash # 0
    BY <2>1 DEF Reached
  <2>4. \A t \in 0 .. s - 1 : new[Probe(sh, new[j].hash, t)].hash # 0
    <3> TAKE t \in 0 .. s - 1
    <3>1. Probe(sh, new[j].hash, t) \in Buckets(sh)
      BY <2>2, ProbeIsBucket
    <3> QED
      BY <1>2, <1>4, <2>3, <3>1
  <2> QED
    BY <2>3, <2>4 DEF Reached
<1>8. \A j \in Buckets(sh) : new[j] = EmptyNode \/ new[j] = Tombstone \/ IsEntry(new[j])
  BY <1>2 DEF TableOK
<1>9. TableOK(sh, new)
  BY <1>2, <1>6, <1>7, <1>8 DEF TableOK, IsTable
<1> QED
  BY <1>2, <1>3, <1>5, <1>9

\* Entries that give way to tombstones do not hide the others
\* (kr_hashtable_remove_node).
LEMMA Erase ==
  ASSUME NEW sh, NEW nds, TableOK(sh, nds), NEW R \in SUBSET Entries(nds),
         NEW new, IsTable(sh, new),
         \A i \in Buckets(sh) : new[i] = IF i \in R THEN Tombstone ELSE nds[i]
  PROVE  /\ TableOK(sh, new)
         /\ Entries(new) = Entries(nds) \ R
         /\ \A i \in Buckets(sh) : new[i].hash = 0 <=> nds[i].hash = 0
<1>1. /\ DOMAIN nds = Buckets(sh) /\ DOMAIN new = Buckets(sh)
      /\ Entries(nds) \subseteq Buckets(sh) /\ sh \in Shifts
  BY NodeFacts DEF TableOK, IsTable
<1>2. \A i \in Buckets(sh) : new[i] = IF i \in R THEN Tombstone ELSE nds[i]
  OBVIOUS
<1>3. Tombstone.hash = 1
  BY DEF Tombstone
<1>4. \A i \in Buckets(sh) : nds[i].hash \in Nat
  BY NodeFacts
<1>5. \A i \in Buckets(sh) : (new[i].hash = 0) <=> (nds[i].hash = 0)
  <2> TAKE i \in Buckets(sh)
  <2>1. CASE i \in R
    <3>1. nds[i].hash > 1
      BY <2>1 DEF Entries
    <3> QED
      BY <1>2, <1>3, <1>4, <2>1, <3>1
  <2>2. CASE i \notin R
    BY <1>2, <2>2
  <2> QED
    BY <2>1, <2>2
<1>6. Entries(new) = Entries(nds) \ R
  BY <1>1, <1>2, <1>3 DEF Entries
<1>7. \A i \in Entries(new) : i \in Entries(nds) /\ new[i] = nds[i]
  BY <1>1, <1>2, <1>6
<1>8. ASSUME NEW i \in Entries(new)
      PROVE  Reached(sh, new, new[i].hash, i)
  <2>1. i \in Entries(nds) /\ new[i] = nds[i] /\ nds[i].hash \in Nat
    BY <1>1, <1>4, <1>7
  <2>2. PICK s \in Buckets(sh) : /\ Probe(sh, nds[i].hash, s) = i
                                /\ \A t \in 0 .. s - 1 : nds[Probe(sh, nds[i].hash, t)].hash # 0
    BY <2>1 DEF TableOK, Reached
  <2>3. \A t \in 0 .. s - 1 : new[Probe(sh, nds[i].hash, t)].hash # 0
    <3> TAKE t \in 0 .. s - 1
    <3>1. Probe(sh, nds[i].hash, t) \in Buckets(sh)
      BY <1>1, <2>1, ProbeIsBucket
    <3> QED
      BY <1>5, <2>2, <3>1
  <2> QED
    BY <2>1, <2>2, <2>3 DEF Reached
<1>9. \A p, q \in Entries(new) : new[p].key = new[q].key => p = q
  BY <1>7 DEF TableOK
<1>10. \A i \in Buckets(sh) : new[i] = EmptyNode \/ new[i] = Tombstone \/ IsEntry(new[i])
  BY <1>2 DEF TableOK
<1>11. TableOK(sh, new)
  BY <1>1, <1>8, <1>9, <1>10 DEF TableOK, IsTable
<1> QED
  BY <1>5, <1>6, <1>11

-----------------------------------------------------------------------------
(***************************************************************************)
(* kr_hashtable_resize.                                                    *)
(***************************************************************************)

\* The new size has room for more than n entries.
LEMMA NewShift ==
  ASSUME NEW n \in Nat, n < 2 ^ 30
  PROVE  LET s == ShiftFromSize(n) IN s \in 3 .. 30 /\ n < 2 ^ s
<1> DEFINE S == {b \in 0 .. 30 : n < 2 ^ b}
           Fits(b) == n < 2 ^ b /\ (b > 0 => 2 ^ (b - 1) <= n)
<1>0. \A b \in 0 .. 31 : 2 ^ b \in Nat
  BY PowersOfTwo, Zenon
<1>1. S \subseteq Nat /\ 30 \in S
  OBVIOUS
<1>2. PICK b \in S : \A c \in S : b <= c
  BY <1>1, LeastNat
<1>3. b \in 0 .. 31 /\ b \in 0 .. 30 /\ n < 2 ^ b
  BY <1>2
<1>4. b > 0 => 2 ^ (b - 1) <= n
  <2> SUFFICES ASSUME b > 0
               PROVE  2 ^ (b - 1) <= n
    OBVIOUS
  <2>1. PICK c \in Nat : c = b - 1 /\ c \in 0 .. 30 /\ c \in 0 .. 31 /\ c < b
    BY <1>3
  <2>2. ~ (n < 2 ^ c)
    BY <1>2, <2>1
  <2>3. PICK m \in Nat : m = 2 ^ c
    BY <1>0, <2>1, Zenon
  <2>4. m <= n
    BY <2>2, <2>3
  <2> QED
    BY <2>1, <2>3, <2>4, Zenon
<1>5. \E d \in 0 .. 31 : Fits(d)
  BY <1>3, <1>4, Zenon
<1>6. PICK d : d = ClosestShift(n)
  OBVIOUS
<1>7. d \in 0 .. 31 /\ Fits(d)
  BY <1>5, <1>6, Zenon DEF ClosestShift
<1>8. d # 31
  <2> SUFFICES ASSUME d = 31
               PROVE  FALSE
    OBVIOUS
  <2>1. d > 0 /\ d - 1 = 30
    OBVIOUS
  <2>2. 2 ^ 30 <= n
    BY <1>7, <2>1, Zenon
  <2>3. 2 ^ 30 = 1073741824
    OBVIOUS
  <2> QED
    BY <2>2, <2>3
<1>9. d \in 0 .. 30
  BY <1>7, <1>8
<1>10. ASSUME d <= 3
       PROVE  n < 2 ^ 3
  <2>1. 2 ^ 0 = 1 /\ 2 ^ 1 = 2 /\ 2 ^ 2 = 4 /\ 2 ^ 3 = 8
    OBVIOUS
  <2>2. PICK m \in Nat : m = 2 ^ d /\ n < m
    BY <1>0, <1>7, Zenon
  <2>3. CASE d = 0
    BY <2>1, <2>2, <2>3
  <2>4. CASE d = 1
    BY <2>1, <2>2, <2>4
  <2>5. CASE d = 2
    BY <2>1, <2>2, <2>5
  <2>6. CASE d = 3
    BY <2>1, <2>2, <2>6
  <2> QED
    BY <1>9, <1>10, <2>3, <2>4, <2>5, <2>6
<1>11. ShiftFromSize(n) = IF d > 3 THEN d ELSE 3
  BY <1>6 DEF ShiftFromSize, HASH_TABLE_MIN_SHIFT
<1>12. CASE d > 3
  <2>1. ShiftFromSize(n) = d /\ d \in 3 .. 30
    BY <1>9, <1>11, <1>12
  <2> QED
    BY <1>7, <2>1, Zenon
<1>13. CASE d <= 3
  <2>1. ShiftFromSize(n) = 3 /\ 3 \in 3 .. 30
    BY <1>9, <1>11, <1>13
  <2> QED
    BY <1>10, <1>13, <2>1, Zenon
<1> QED
  BY <1>9, <1>12, <1>13

\* The new buckets after i of the old ones, step by step.
LEMMA PlacedIs ==
  ASSUME NEW sh \in Shifts, NEW nds, NEW new
  PROVE  LET P == Placed(sh, nds, new)
         IN  /\ P[0] = [b \in Buckets(new) |-> EmptyNode]
             /\ \A i \in 0 .. 2 ^ sh - 1 :
                  P[i + 1] = IF nds[i].hash > 1 THEN Place(new, P[i], nds[i]) ELSE P[i]
<1> DEFINE Step(g, i) == IF i = 0 THEN [b \in Buckets(new) |-> EmptyNode]
                         ELSE IF nds[i - 1].hash > 1 THEN Place(new, g[i - 1], nds[i - 1])
                         ELSE g[i - 1]
           Upto(n) == \E g : g = [i \in 0 .. n |-> Step(g, i)]
           Wrong == {n \in Nat : ~ Upto(n)}
<1>1. PICK N \in Nat : N = 2 ^ sh
  BY SizeFacts, Zenon
<1>2. Upto(0)
  <2> DEFINE g == [i \in 0 .. 0 |-> [b \in Buckets(new) |-> EmptyNode]]
  <2>1. \A i \in 0 .. 0 : Step(g, i) = [b \in Buckets(new) |-> EmptyNode]
    OBVIOUS
  <2> HIDE DEF Step
  <2>2. g = [i \in 0 .. 0 |-> Step(g, i)]
    BY <2>1
  <2> QED
    BY <2>2, Zenon
<1>3. ASSUME NEW n \in Nat, Upto(n)
      PROVE  Upto(n + 1)
  <2>1. PICK g : g = [i \in 0 .. n |-> Step(g, i)]
    BY <1>3, Zenon
  <2> DEFINE f == [i \in 0 .. n + 1 |-> IF i <= n THEN g[i] ELSE Step(g, i)]
  <2>2. ASSUME NEW i \in 0 .. n + 1
        PROVE  f[i] = Step(g, i)
    <3> HIDE DEF Step
    <3>1. CASE i <= n
      <4>1. i \in 0 .. n
        BY <3>1
      <4>2. g[i] = Step(g, i)
        BY <2>1, <4>1
      <4> QED
        BY <3>1, <4>2
    <3>2. CASE ~ (i <= n)
      BY <3>2
    <3> QED
      BY <3>1, <3>2
  <2>3. ASSUME NEW i \in 0 .. n + 1
        PROVE  Step(f, i) = Step(g, i)
    <3>1. CASE i = 0
      BY <3>1
    <3>2. CASE i # 0
      <4>1. i - 1 \in 0 .. n + 1 /\ i - 1 <= n
        BY <3>2
      <4>2. f[i - 1] = g[i - 1]
        BY <4>1
      <4> HIDE DEF f
      <4> QED
        BY <3>2, <4>2
    <3> QED
      BY <3>1, <3>2
  <2> HIDE DEF Step
  <2>4. f = [i \in 0 .. n + 1 |-> Step(f, i)]
    <3>1. DOMAIN f = 0 .. n + 1 /\ f = [i \in 0 .. n + 1 |-> f[i]]
      OBVIOUS
    <3> HIDE DEF f
    <3>2. \A i \in 0 .. n + 1 : f[i] = Step(f, i)
      BY <2>2, <2>3
    <3> QED
      BY <3>1, <3>2
  <2> QED
    BY <2>4, Zenon
<1> HIDE DEF Step, Upto
<1>4. Wrong = {}
  <2> SUFFICES ASSUME Wrong # {}
               PROVE  FALSE
    OBVIOUS
  <2>1. PICK n \in Wrong : \A m \in Wrong : n <= m
    BY LeastNat
  <2>2. n \in Nat /\ ~ Upto(n)
    BY <2>1
  <2>3. n # 0
    BY <1>2, <2>2
  <2>4. PICK m \in Nat : n = m + 1
    BY <2>2, <2>3
  <2>5. m \notin Wrong
    BY <2>1, <2>4
  <2> QED
    BY <1>3, <2>2, <2>4, <2>5
<1>5. PICK P : P = Placed(sh, nds, new)
  OBVIOUS
<1>6. Placed(sh, nds, new) = CHOOSE p : p = [i \in 0 .. N |-> Step(p, i)]
  BY <1>1 DEF Placed, Step
<1>7. P = [i \in 0 .. N |-> Step(P, i)]
  <2>1. Upto(N)
    BY <1>1, <1>4
  <2>2. \E p : p = [i \in 0 .. N |-> Step(p, i)]
    BY <2>1 DEF Upto
  <2> QED
    BY <1>5, <1>6, <2>2, Zenon
<1>8. P[0] = [b \in Buckets(new) |-> EmptyNode]
  BY <1>1, <1>7 DEF Step
<1>9. ASSUME NEW i \in 0 .. N - 1
      PROVE  P[i + 1] = IF nds[i].hash > 1 THEN Place(new, P[i], nds[i]) ELSE P[i]
  <2>1. i + 1 \in 0 .. N /\ i + 1 # 0 /\ (i + 1) - 1 = i
    BY <1>1
  <2>2. P[i + 1] = Step(P, i + 1)
    BY <1>7, <2>1
  <2> QED
    BY <2>1, <2>2 DEF Step
<1> QED
  BY <1>1, <1>5, <1>8, <1>9

\* The entries of the new buckets are those of the old ones before bucket n,
\* each once, and there are no tombstones.
Moved(sh, nds, new, acc, n) ==
  LET done == {j \in Entries(nds) : j < n}
  IN  /\ TableOK(new, acc)
      /\ \A b \in Buckets(new) : acc[b].hash # 1
      /\ \A b \in Entries(acc) : \E j \in done : acc[b] = nds[j]
      /\ \A j \in done : \E b \in Entries(acc) : acc[b] = nds[j]
      /\ Cardinality(Entries(acc)) = Cardinality(done)

LEMMA BucketsFinite ==
  ASSUME NEW sh \in Shifts
  PROVE  IsFiniteSet(Buckets(sh)) /\ Cardinality(Buckets(sh)) = 2 ^ sh /\ Buckets(sh) \subseteq Nat
<1>1. PICK N \in Nat : N = 2 ^ sh /\ N > 0
  BY SizeFacts, Zenon
<1>2. Buckets(sh) = 0 .. N - 1 /\ 0 \in Int /\ N - 1 \in Int
  BY <1>1 DEF Buckets
<1>3. IsFiniteSet(0 .. N - 1) /\ Cardinality(0 .. N - 1) = N
  <2>1. N > 0
    BY <1>1
  <2>2. /\ IsFiniteSet(0 .. N - 1)
        /\ Cardinality(0 .. N - 1) = IF 0 > N - 1 THEN 0 ELSE (N - 1) - 0 + 1
    BY <1>2, FS_Interval
  <2> QED
    BY <2>1, <2>2
<1> QED
  BY <1>1, <1>2, <1>3

LEMMA EntriesFinite ==
  ASSUME NEW sh, NEW nds, TableOK(sh, nds)
  PROVE  /\ IsFiniteSet(Entries(nds)) /\ Cardinality(Entries(nds)) \in Nat
         /\ Entries(nds) \subseteq Nat
<1>1. sh \in Shifts /\ Entries(nds) \subseteq Buckets(sh)
  BY NodeFacts DEF TableOK
<1>2. IsFiniteSet(Buckets(sh)) /\ Buckets(sh) \subseteq Nat
  BY <1>1, BucketsFinite
<1>3. IsFiniteSet(Entries(nds))
  BY <1>1, <1>2, FS_Subset
<1> QED
  BY <1>1, <1>2, <1>3, FS_CardinalityType

\* Fewer entries than buckets and no tombstone: a bucket is free.
LEMMA FreeBucket ==
  ASSUME NEW sh, NEW nds, TableOK(sh, nds), NEW S \in SUBSET Buckets(sh),
         \A b \in Buckets(sh) : nds[b].hash # 0 => b \in S,
         Cardinality(S) < 2 ^ sh
  PROVE  HasRoom(sh, nds)
<1>1. sh \in Shifts
  BY DEF TableOK
<1>2. Cardinality(Buckets(sh)) = 2 ^ sh
  BY <1>1, BucketsFinite
<1>3. PICK N \in Nat : N = 2 ^ sh
  BY <1>1, SizeFacts, Zenon
<1>4. S # Buckets(sh)
  <2> SUFFICES ASSUME S = Buckets(sh)
               PROVE  FALSE
    OBVIOUS
  <2>1. Cardinality(S) = N
    BY <1>2, <1>3
  <2>2. Cardinality(S) < N
    BY <1>3, Zenon
  <2> QED
    BY <1>3, <2>1, <2>2
<1> QED
  BY <1>4 DEF HasRoom

\* The search of kr_hashtable_resize for one entry.
LEMMA PlaceMoves ==
  ASSUME NEW new, NEW acc, TableOK(new, acc), HasRoom(new, acc),
         \A b \in Buckets(new) : acc[b].hash # 1,
         NEW n, IsEntry(n), Lacks(acc, n.key)
  PROVE  LET next == Place(new, acc, n)
         IN  \E i \in Buckets(new) :
               /\ TableOK(new, next)
               /\ Entries(next) = Entries(acc) \cup {i} /\ i \notin Entries(acc)
               /\ \A j \in Buckets(new) : next[j] = IF j = i THEN n ELSE acc[j]
<1> DEFINE T == {t \in Buckets(new) : acc[Probe(new, n.hash, t)].hash = 0}
           s == Min(T)
           i == Probe(new, n.hash, s)
<1>1. new \in Shifts /\ n.hash \in Nat
  BY EntryFields DEF TableOK
<1>2. Buckets(new) \subseteq Nat
  BY <1>1, BucketsFinite
<1>3. T \subseteq Buckets(new) /\ T # {}
  <2>1. PICK b \in Buckets(new) : acc[b].hash = 0
    BY DEF HasRoom
  <2>2. PICK t \in Buckets(new) : Probe(new, n.hash, t) = b
    BY <1>1, <2>1, ProbesAll
  <2> QED
    BY <2>1, <2>2
<1>4. s \in T /\ \A m \in T : s <= m
  BY <1>2, <1>3, FirstStep
<1>5. s \in Buckets(new) /\ s \in Nat /\ acc[i].hash = 0 /\ i \in Buckets(new)
  <2>1. s \in Buckets(new) /\ s \in Nat /\ acc[i].hash = 0
    BY <1>2, <1>4
  <2> HIDE DEF s
  <2> QED
    BY <1>1, <2>1, ProbeIsBucket
<1>6. \A t \in 0 .. s - 1 : acc[Probe(new, n.hash, t)].hash # 0
  <2> HIDE DEF s
  <2> TAKE t \in 0 .. s - 1
  <2>1. t \in Buckets(new)
    BY <1>1, <1>5, SizeFacts
  <2>2. t \notin T
    BY <1>4, <1>5
  <2> QED
    BY <2>1, <2>2
<1>7. Reached(new, acc, n.hash, i)
  BY <1>5, <1>6 DEF Reached
<1>8. Place(new, acc, n) = [acc EXCEPT ![i] = n]
  BY DEF Place
<1> HIDE DEF i
<1>9. acc[i].hash \in {0, 1}
  BY <1>5
<1>10. PICK p \in Buckets(new) : /\ acc[p].hash \in {0, 1} /\ Reached(new, acc, n.hash, p)
                                /\ Place(new, acc, n) = [acc EXCEPT ![p] = n]
  BY <1>5, <1>7, <1>8, <1>9
<1>11. PICK next : next = Place(new, acc, n)
  OBVIOUS
<1>12. IsTable(new, next) /\ \A j \in Buckets(new) : next[j] = IF j = p THEN n ELSE acc[j]
  <2>1. DOMAIN acc = Buckets(new)
    BY NodeFacts
  <2> QED
    BY <1>10, <1>11, <2>1 DEF IsTable
<1>13. TableOK(new, next) /\ Entries(next) = Entries(acc) \cup {p} /\ p \notin Entries(acc)
  BY <1>10, <1>12, PutEntry
<1> QED
  BY <1>11, <1>12, <1>13

LEMMA MoveOne ==
  ASSUME NEW sh, NEW nds, TableOK(sh, nds), NEW new, NEW acc, NEW n \in Buckets(sh),
         Moved(sh, nds, new, acc, n), IsEntry(nds[n]),
         Cardinality(Entries(nds)) < 2 ^ new
  PROVE  Moved(sh, nds, new, Place(new, acc, nds[n]), n + 1)
<1> DEFINE done == {j \in Entries(nds) : j < n}
           done2 == {j \in Entries(nds) : j < n + 1}
           next == Place(new, acc, nds[n])
<1>1. Entries(nds) \subseteq Nat /\ IsFiniteSet(Entries(nds)) /\ Cardinality(Entries(nds)) \in Nat
  BY EntriesFinite
<1>2. n \in Nat /\ n \in Entries(nds)
  <2>1. nds[n].hash > 1 /\ DOMAIN nds = Buckets(sh)
    BY NodeFacts
  <2>2. n \in Entries(nds)
    BY <2>1 DEF Entries
  <2> QED
    BY <1>1, <2>2
<1>3. done2 = done \cup {n} /\ n \notin done
  BY <1>1, <1>2
<1>4. IsFiniteSet(done) /\ Cardinality(done) \in Nat /\ Cardinality(done) <= Cardinality(Entries(nds))
  BY <1>1, FS_Subset, FS_CardinalityType
<1>5. Cardinality(done2) = Cardinality(done) + 1
  BY <1>3, <1>4, FS_AddElement
<1> HIDE DEF done, done2
<1>6. /\ TableOK(new, acc)
      /\ \A b \in Buckets(new) : acc[b].hash # 1
      /\ \A b \in Entries(acc) : \E j \in done : acc[b] = nds[j]
      /\ \A j \in done : \E b \in Entries(acc) : acc[b] = nds[j]
      /\ Cardinality(Entries(acc)) = Cardinality(done)
  BY DEF Moved, done
<1>7. DOMAIN acc = Buckets(new) /\ Entries(acc) \subseteq Buckets(new) /\ IsFiniteSet(Entries(acc))
  BY <1>6, NodeFacts, EntriesFinite
<1>8. HasRoom(new, acc)
  <2>1. \A b \in Buckets(new) : acc[b].hash # 0 => b \in Entries(acc)
    <3>1. \A b \in Buckets(new) : acc[b].hash \in Nat
      BY <1>6, NodeFacts
    <3> QED
      BY <1>6, <1>7, <3>1 DEF Entries
  <2>2. Cardinality(Entries(acc)) < 2 ^ new
    <3>1. PICK N \in Nat : N = 2 ^ new
      <4>1. new \in Shifts
        BY <1>6 DEF TableOK
      <4> QED
        BY <4>1, SizeFacts, Zenon
    <3>2. Cardinality(Entries(nds)) < N
      BY <3>1, Zenon
    <3>3. Cardinality(Entries(acc)) < N
      BY <1>1, <1>4, <1>6, <3>1, <3>2
    <3> QED
      BY <3>1, <3>3, Zenon
  <2> QED
    BY <1>6, <1>7, <2>1, <2>2, FreeBucket
<1>9. Lacks(acc, nds[n].key)
  <2> SUFFICES ASSUME NEW b \in Entries(acc), acc[b].key = nds[n].key
               PROVE  FALSE
    BY DEF Lacks
  <2>1. PICK j \in done : acc[b] = nds[j]
    BY <1>6
  <2>2. j \in Entries(nds) /\ j # n
    BY <1>3, <2>1 DEF done
  <2> QED
    BY <1>2, <2>1, <2>2 DEF TableOK
<1>10. PICK i \in Buckets(new) :
         /\ TableOK(new, next)
         /\ Entries(next) = Entries(acc) \cup {i} /\ i \notin Entries(acc)
         /\ \A j \in Buckets(new) : next[j] = IF j = i THEN nds[n] ELSE acc[j]
  BY <1>6, <1>8, <1>9, PlaceMoves
<1> HIDE DEF next
<1>11. \A b \in Buckets(new) : next[b].hash # 1
  <2>1. nds[n].hash > 1
    BY EntryFields
  <2> QED
    BY <1>6, <1>10, <2>1
<1>12. \A b \in Entries(next) : \E j \in done2 : next[b] = nds[j]
  BY <1>3, <1>6, <1>7, <1>10
<1>13. \A j \in done2 : \E b \in Entries(next) : next[b] = nds[j]
  BY <1>3, <1>6, <1>7, <1>10
<1>14. Cardinality(Entries(next)) = Cardinality(done2)
  <2>1. Cardinality(Entries(acc) \cup {i}) = Cardinality(Entries(acc)) + 1
    BY <1>7, <1>10, FS_AddElement
  <2> QED
    BY <1>5, <1>6, <1>10, <2>1
<1> QED
  BY <1>10, <1>11, <1>12, <1>13, <1>14 DEF Moved, next, done2

\* kr_hashtable_resize keeps every entry and drops the tombstones.
LEMMA ResizeKeeps ==
  ASSUME NEW sh, NEW nds, TableOK(sh, nds), NEW cnt, cnt = Cardinality(Entries(nds)), cnt < 2 ^ 29
  PROVE  LET R == Resize(sh, nds, cnt)
         IN  /\ R.shift \in 3 .. 30 /\ R.noccupied = cnt
             /\ TableOK(R.shift, R.nodes)
             /\ \A b \in Buckets(R.shift) : R.nodes[b].hash # 1
             /\ \A b \in Entries(R.nodes) : \E j \in Entries(nds) : R.nodes[b] = nds[j]
             /\ \A j \in Entries(nds) : \E b \in Entries(R.nodes) : R.nodes[b] = nds[j]
             /\ Cardinality(Entries(R.nodes)) = cnt
             /\ cnt < 2 ^ R.shift
<1> DEFINE new == ShiftFromSize(cnt * 2)
           P == Placed(sh, nds, new)
           Wrong == {n \in 0 .. 2 ^ sh : ~ Moved(sh, nds, new, P[n], n)}
<1>1. sh \in Shifts /\ Entries(nds) \subseteq Buckets(sh) /\ Entries(nds) \subseteq Nat /\ cnt \in Nat
  BY NodeFacts, EntriesFinite DEF TableOK
<1>2. PICK N \in Nat : N = 2 ^ sh /\ Buckets(sh) = 0 .. N - 1
  <2>1. PICK N \in Nat : N = 2 ^ sh
    BY <1>1, SizeFacts, Zenon
  <2> QED
    BY <2>1 DEF Buckets
<1>3. new \in 3 .. 30 /\ cnt * 2 < 2 ^ new
  <2>1. cnt * 2 \in Nat /\ cnt * 2 < 2 ^ 30
    BY <1>1, PowersOfTwo DEF Shifts
  <2> QED
    BY <2>1, NewShift
<1> HIDE DEF new
<1>4. new \in Shifts
  BY <1>3 DEF Shifts
<1>5. cnt < 2 ^ new
  <2>1. PICK M \in Nat : M = 2 ^ new
    BY <1>4, SizeFacts, Zenon
  <2>2. cnt * 2 < M
    BY <1>3, <2>1, Zenon
  <2>3. cnt < M
    BY <1>1, <2>1, <2>2
  <2> QED
    BY <2>1, <2>3, Zenon
<1>6. /\ P[0] = [b \in Buckets(new) |-> EmptyNode]
      /\ \A i \in 0 .. N - 1 : P[i + 1] = IF nds[i].hash > 1 THEN Place(new, P[i], nds[i]) ELSE P[i]
  BY <1>1, <1>2, PlacedIs
<1> HIDE DEF P
<1>7. Moved(sh, nds, new, P[0], 0)
  <2> DEFINE E == [b \in Buckets(new) |-> EmptyNode]
  <2>1. EmptyNode.hash = 0
    BY DEF EmptyNode
  <2>2. \A b \in Buckets(new) : E[b] = EmptyNode
    OBVIOUS
  <2>3. DOMAIN E = Buckets(new) /\ E = [b \in Buckets(new) |-> E[b]]
    OBVIOUS
  <2> HIDE DEF E
  <2>4. Entries(E) = {}
    BY <2>1, <2>2, <2>3 DEF Entries
  <2>5. TableOK(new, E)
    BY <1>4, <2>2, <2>3, <2>4 DEF TableOK, IsTable
  <2>6. {j \in Entries(nds) : j < 0} = {}
    BY <1>1
  <2>7. \A b \in Buckets(new) : E[b].hash # 1
    BY <2>1, <2>2
  <2> QED
    BY <1>6, <2>4, <2>5, <2>6, <2>7 DEF Moved, E
<1>8. ASSUME NEW n \in 0 .. N - 1, Moved(sh, nds, new, P[n], n)
      PROVE  Moved(sh, nds, new, P[n + 1], n + 1)
  <2>1. CASE nds[n].hash > 1
    <3>1. n \in Buckets(sh) /\ IsEntry(nds[n])
      BY <1>2, <2>1, NodeFacts
    <3>2. P[n + 1] = Place(new, P[n], nds[n])
      BY <1>6, <2>1
    <3> QED
      BY <1>5, <1>8, <3>1, <3>2, MoveOne
  <2>2. CASE ~ (nds[n].hash > 1)
    <3>1. P[n + 1] = P[n]
      BY <1>6, <2>2
    <3>2. {j \in Entries(nds) : j < n + 1} = {j \in Entries(nds) : j < n}
      <4>1. n \notin Entries(nds)
        BY <2>2 DEF Entries
      <4> QED
        BY <1>1, <4>1
    <3> QED
      BY <1>8, <3>1, <3>2 DEF Moved
  <2> QED
    BY <2>1, <2>2
<1>9. Wrong = {}
  <2> SUFFICES ASSUME Wrong # {}
               PROVE  FALSE
    OBVIOUS
  <2>1. Wrong \subseteq Nat
    BY <1>2
  <2>2. PICK n \in Wrong : \A m \in Wrong : n <= m
    BY <2>1, LeastNat
  <2>3. n \in 0 .. N /\ ~ Moved(sh, nds, new, P[n], n)
    BY <1>2, <2>2
  <2>4. n # 0
    BY <1>7, <2>3
  <2>5. PICK m \in 0 .. N - 1 : n = m + 1
    BY <1>2, <2>3, <2>4
  <2>6. m \notin Wrong
    BY <1>2, <2>2, <2>5
  <2>7. m \in 0 .. 2 ^ sh
    BY <1>2, <2>5
  <2> QED
    BY <1>8, <2>3, <2>5, <2>6, <2>7
<1>10. Moved(sh, nds, new, P[N], N)
  BY <1>2, <1>9
<1>11. {j \in Entries(nds) : j < N} = Entries(nds)
  BY <1>1, <1>2
<1>12. Resize(sh, nds, cnt) = [shift |-> new, nodes |-> P[N], noccupied |-> cnt]
  BY <1>2 DEF Resize, new, P
<1> QED
  BY <1>3, <1>5, <1>10, <1>11, <1>12 DEF Moved

-----------------------------------------------------------------------------
(***************************************************************************)
(* The invariant of the hash table, and its properties.                    *)
(***************************************************************************)

Occupied(sh, nds) == {i \in Buckets(sh) : nds[i].hash > 0}

\* The entries are what the callers put in.
Stored(nds, c) ==
  /\ DOMAIN c = Key
  /\ \A i \in Entries(nds) : c[nds[i].key] = nds[i].value
  /\ \A k \in Key : c[k] # NULL => \E i \in Entries(nds) : nds[i].key = k

HashInv ==
  /\ shift \in 3 .. 30 /\ TableOK(shift, nodes)
  /\ nnodes = Cardinality(Entries(nodes))
  /\ noccupied = Cardinality(Occupied(shift, nodes))
  /\ noccupied < 2 ^ shift
  /\ owned = [key |-> nnodes, value |-> nnodes]
  /\ Stored(nodes, contents)

LEMMA OccupiedFinite ==
  ASSUME NEW sh, NEW nds, TableOK(sh, nds)
  PROVE  /\ IsFiniteSet(Occupied(sh, nds)) /\ Cardinality(Occupied(sh, nds)) \in Nat
         /\ Entries(nds) \subseteq Occupied(sh, nds)
<1>1. sh \in Shifts /\ DOMAIN nds = Buckets(sh)
  BY NodeFacts DEF TableOK
<1>2. Occupied(sh, nds) \subseteq Buckets(sh)
  BY DEF Occupied
<1>3. IsFiniteSet(Occupied(sh, nds))
  BY <1>1, <1>2, BucketsFinite, FS_Subset
<1>4. \A i \in Buckets(sh) : nds[i].hash \in Nat
  BY NodeFacts
<1> QED
  BY <1>1, <1>3, <1>4, FS_CardinalityType DEF Occupied, Entries

LEMMA RoomLeft ==
  ASSUME NEW sh, NEW nds, TableOK(sh, nds), Cardinality(Occupied(sh, nds)) < 2 ^ sh
  PROVE  HasRoom(sh, nds)
<1>1. \A b \in Buckets(sh) : nds[b].hash # 0 => b \in Occupied(sh, nds)
  <2> TAKE b \in Buckets(sh)
  <2>1. nds[b].hash \in Nat
    BY NodeFacts
  <2> QED
    BY <2>1 DEF Occupied
<1>2. Occupied(sh, nds) \in SUBSET Buckets(sh)
  BY DEF Occupied
<1> QED
  BY <1>1, <1>2, FreeBucket

\* There is one entry per key, so their number is bounded.
LEMMA EntriesAreKeys ==
  ASSUME NEW sh, NEW nds, TableOK(sh, nds)
  PROVE  LET K == {nds[i].key : i \in Entries(nds)}
         IN  K \subseteq Key /\ Cardinality(K) = Cardinality(Entries(nds))
             /\ Cardinality(Entries(nds)) < 2 ^ 29
<1> DEFINE E == Entries(nds)
           K == {nds[i].key : i \in E}
           f == [i \in E |-> nds[i].key]
<1>1. IsFiniteSet(E) /\ Cardinality(E) \in Nat
  BY EntriesFinite
<1>2. \A i \in E : IsEntry(nds[i])
  BY NodeFacts
<1>3. K \subseteq Key
  BY <1>2, EntryFields
<1>4. \A i, j \in E : nds[i].key = nds[j].key => i = j
  BY DEF TableOK
<1>5. f \in [E -> K] /\ \A i \in E : f[i] = nds[i].key
  OBVIOUS
<1>6. f \in Injection(E, K) /\ f \in Surjection(E, K)
  <2>1. \A i, j \in E : f[i] = f[j] => i = j
    BY <1>4
  <2>2. \A k \in K : \E i \in E : f[i] = k
    OBVIOUS
  <2> HIDE DEF f, K, E
  <2>3. IsInjective(f)
    BY <1>5, <2>1 DEF IsInjective
  <2> QED
    BY <1>5, <2>2, <2>3 DEF Injection, Surjection
<1>7. ExistsBijection(E, K)
  BY <1>6 DEF ExistsBijection, Bijection
<1> HIDE DEF E, K, f
<1>8. IsFiniteSet(K) /\ Cardinality(K) = Cardinality(E)
  BY <1>1, <1>7, FS_Bijection
<1>9. /\ IsFiniteSet(Key) /\ Cardinality(Key) \in Nat /\ Cardinality(Key) < 2 ^ 29
      /\ Cardinality(K) <= Cardinality(Key)
  BY <1>3, HashAssumption, FS_Subset, FS_CardinalityType
<1>10. Cardinality(E) < 2 ^ 29
  <2>1. 2 ^ 29 = 536870912
    OBVIOUS
  <2> QED
    BY <1>1, <1>8, <1>9, <2>1
<1> QED
  BY <1>3, <1>8, <1>10 DEF E, K

\* Every operation ends with the table in order again
\* (kr_hashtable_maybe_resize).
LEMMA MaybeResizeKeeps ==
  ASSUME shift \in 3 .. 30, NEW nds, TableOK(shift, nds), NEW cnt, cnt = Cardinality(Entries(nds)),
         NEW occ, occ = Cardinality(Occupied(shift, nds)), MaybeResize(nds, cnt, occ)
  PROVE  /\ shift' \in 3 .. 30 /\ TableOK(shift', nodes')
         /\ nnodes' = cnt /\ Cardinality(Entries(nodes')) = cnt
         /\ noccupied' = Cardinality(Occupied(shift', nodes')) /\ noccupied' < 2 ^ shift'
         /\ \A b \in Entries(nodes') : \E j \in Entries(nds) : nodes'[b] = nds[j]
         /\ \A j \in Entries(nds) : \E b \in Entries(nodes') : nodes'[b] = nds[j]
<1>1. cnt \in Nat /\ cnt < 2 ^ 29 /\ occ \in Nat
  BY EntriesAreKeys, EntriesFinite, OccupiedFinite
<1>2. CASE MustResize(shift, cnt, occ)
  <2> DEFINE R == Resize(shift, nds, cnt)
  <2>1. shift' = R.shift /\ nodes' = R.nodes /\ noccupied' = R.noccupied /\ nnodes' = cnt
    BY <1>2 DEF MaybeResize
  <2>2. /\ R.shift \in 3 .. 30 /\ R.noccupied = cnt
        /\ TableOK(R.shift, R.nodes)
        /\ \A b \in Buckets(R.shift) : R.nodes[b].hash # 1
        /\ \A b \in Entries(R.nodes) : \E j \in Entries(nds) : R.nodes[b] = nds[j]
        /\ \A j \in Entries(nds) : \E b \in Entries(R.nodes) : R.nodes[b] = nds[j]
        /\ Cardinality(Entries(R.nodes)) = cnt
        /\ cnt < 2 ^ R.shift
    BY <1>1, ResizeKeeps, SMTT(40)
  <2> HIDE DEF R
  <2>3. Occupied(R.shift, R.nodes) = Entries(R.nodes)
    <3>1. DOMAIN R.nodes = Buckets(R.shift) /\ \A b \in Buckets(R.shift) : R.nodes[b].hash \in Nat
      BY <2>2, NodeFacts
    <3>2. \A b \in Buckets(R.shift) : R.nodes[b].hash > 0 <=> R.nodes[b].hash > 1
      BY <2>2, <3>1
    <3> QED
      BY <3>1, <3>2 DEF Occupied, Entries
  <2> QED
    BY <2>1, <2>2, <2>3
<1>3. CASE ~ MustResize(shift, cnt, occ)
  <2>1. shift' = shift /\ nodes' = nds /\ noccupied' = occ /\ nnodes' = cnt
    BY <1>3 DEF MaybeResize
  <2>2. occ < 2 ^ shift
    <3>1. shift \in Shifts
      BY DEF Shifts
    <3>2. PICK N \in Nat : N = 2 ^ shift
      BY <3>1, SizeFacts, Zenon
    <3>3. ~ (N <= occ + occ \div 16)
      BY <1>3, <3>2 DEF MustResize
    <3>4. occ \div 16 \in Nat
      BY <1>1
    <3>5. occ < N
      BY <1>1, <3>2, <3>3, <3>4
    <3> QED
      BY <3>2, <3>5, Zenon
  <2> QED
    BY <2>1, <2>2
<1> QED
  BY <1>2, <1>3

\* Moving the entries does not change what is stored.
LEMMA StoredMoves ==
  ASSUME NEW nds, NEW new, NEW c, Stored(nds, c),
         \A b \in Entries(new) : \E j \in Entries(nds) : new[b] = nds[j],
         \A j \in Entries(nds) : \E b \in Entries(new) : new[b] = nds[j]
  PROVE  Stored(new, c)
<1>1. ASSUME NEW b \in Entries(new)
      PROVE  c[new[b].key] = new[b].value
  BY DEF Stored
<1>2. ASSUME NEW k \in Key, c[k] # NULL
      PROVE  \E b \in Entries(new) : new[b].key = k
  <2>1. PICK j \in Entries(nds) : nds[j].key = k
    BY <1>2 DEF Stored
  <2> QED
    BY <2>1
<1> QED
  BY <1>1, <1>2 DEF Stored

LEMMA HashInit_Inv == HashInit => HashInv
<1> SUFFICES ASSUME HashInit
             PROVE  HashInv
  OBVIOUS
<1>1. shift = 3 /\ nodes = [i \in Buckets(3) |-> EmptyNode] /\ shift \in Shifts /\ shift \in 3 .. 30
  BY DEF HashInit, HASH_TABLE_MIN_SHIFT, Shifts
<1>2. /\ DOMAIN nodes = Buckets(shift) /\ IsTable(shift, nodes)
      /\ \A i \in Buckets(shift) : nodes[i] = EmptyNode /\ nodes[i].hash = 0
  BY <1>1 DEF IsTable, EmptyNode
<1>3. Entries(nodes) = {} /\ Occupied(shift, nodes) = {}
  BY <1>2 DEF Entries, Occupied
<1>4. TableOK(shift, nodes)
  BY <1>1, <1>2, <1>3 DEF TableOK
<1>5. Stored(nodes, contents)
  BY <1>3 DEF HashInit, Stored
<1>6. 0 < 2 ^ shift
  BY <1>1, SizeFacts, Zenon
<1> QED
  BY <1>1, <1>3, <1>4, <1>5, <1>6, FS_EmptySet DEF HashInit, HashInv

\* A new value under a key the table has.
LEMMA PutValue ==
  ASSUME NEW sh, NEW nds, TableOK(sh, nds), NEW i \in Entries(nds), NEW v \in Value[nds[i].key],
         NEW new, IsTable(sh, new),
         \A j \in Buckets(sh) : new[j] = IF j = i THEN [nds[i] EXCEPT !.value = v] ELSE nds[j]
  PROVE  /\ TableOK(sh, new) /\ Entries(new) = Entries(nds)
         /\ Occupied(sh, new) = Occupied(sh, nds)
         /\ new[i].key = nds[i].key /\ new[i].value = v
<1>1. /\ DOMAIN nds = Buckets(sh) /\ DOMAIN new = Buckets(sh) /\ i \in Buckets(sh)
      /\ sh \in Shifts
  BY NodeFacts DEF TableOK, IsTable
<1>2. PICK k \in Key : \E u \in Value[k] : nds[i] = Entry(k, u)
  BY NodeFacts DEF IsEntry
<1>3. new[i] = Entry(k, v) /\ nds[i].key = k /\ nds[i].hash = KeyHash(k)
  BY <1>1, <1>2 DEF Entry
<1>4. new[i].key = k /\ new[i].hash = KeyHash(k) /\ new[i].value = v /\ IsEntry(new[i])
  BY <1>3 DEF Entry, IsEntry
<1>5. \A j \in Buckets(sh) : new[j].hash = nds[j].hash /\ new[j].key = nds[j].key
  BY <1>3, <1>4
<1>6. Entries(new) = Entries(nds) /\ Occupied(sh, new) = Occupied(sh, nds)
  BY <1>1, <1>5 DEF Entries, Occupied
<1>7. \A j \in Buckets(sh) : new[j] = EmptyNode \/ new[j] = Tombstone \/ IsEntry(new[j])
  BY <1>4 DEF TableOK
<1>8. \A p, q \in Entries(new) : new[p].key = new[q].key => p = q
  BY <1>1, <1>5, <1>6, NodeFacts DEF TableOK
<1>9. ASSUME NEW j \in Entries(new)
      PROVE  Reached(sh, new, new[j].hash, j)
  <2>1. j \in Buckets(sh) /\ j \in Entries(nds) /\ new[j].hash = nds[j].hash /\ nds[j].hash \in Nat
    BY <1>1, <1>5, <1>6, NodeFacts
  <2>2. PICK s \in Buckets(sh) : /\ Probe(sh, nds[j].hash, s) = j
                                /\ \A t \in 0 .. s - 1 : nds[Probe(sh, nds[j].hash, t)].hash # 0
    BY <2>1 DEF TableOK, Reached
  <2>3. \A t \in 0 .. s - 1 : new[Probe(sh, nds[j].hash, t)].hash # 0
    <3> TAKE t \in 0 .. s - 1
    <3>1. Probe(sh, nds[j].hash, t) \in Buckets(sh)
      BY <1>1, <2>1, ProbeIsBucket
    <3> QED
      BY <1>5, <2>2, <3>1
  <2> QED
    BY <2>1, <2>2, <2>3 DEF Reached
<1>10. TableOK(sh, new)
  BY <1>1, <1>7, <1>8, <1>9 DEF TableOK
<1> QED
  BY <1>3, <1>4, <1>6, <1>10

\* kr_hashtable_insert and kr_hashtable_replace.
LEMMA InsertStep ==
  ASSUME HashInv, NEW k \in Key, NEW v \in Value[k], InsertKey(k, v)
  PROVE  HashInv'
<1> DEFINE i == LookupNodeForInsertion(k)
           node == Entry(k, v)
<1>1. /\ shift \in 3 .. 30 /\ TableOK(shift, nodes)
      /\ nnodes = Cardinality(Entries(nodes)) /\ nnodes \in Nat
      /\ noccupied = Cardinality(Occupied(shift, nodes)) /\ noccupied \in Nat
      /\ noccupied < 2 ^ shift
      /\ owned = [key |-> nnodes, value |-> nnodes]
      /\ Stored(nodes, contents)
  BY EntriesFinite, OccupiedFinite DEF HashInv
<1>2. HasRoom(shift, nodes)
  BY <1>1, RoomLeft
<1>3. /\ i \in Buckets(shift)
      /\ Reached(shift, nodes, KeyHash(k), i)
      /\ \/ nodes[i].hash > 1 /\ nodes[i].key = k
         \/ nodes[i].hash \in {0, 1} /\ Lacks(nodes, k)
  BY <1>1, <1>2, InsertionPoint
<1>4. /\ contents' = [contents EXCEPT ![k] = v]
      /\ \/ /\ nodes[i].hash > 1
            /\ nodes' = [nodes EXCEPT ![i].value = v]
            /\ UNCHANGED <<shift, nnodes, noccupied, owned>>
         \/ /\ nodes[i].hash = 1
            /\ nodes' = [nodes EXCEPT ![i] = node]
            /\ nnodes' = nnodes + 1
            /\ owned' = [key |-> owned.key + 1, value |-> owned.value + 1]
            /\ UNCHANGED <<shift, noccupied>>
         \/ /\ nodes[i].hash = 0
            /\ MaybeResize([nodes EXCEPT ![i] = node], nnodes + 1, noccupied + 1)
            /\ owned' = [key |-> owned.key + 1, value |-> owned.value + 1]
  BY DEF InsertKey, Entry
<1> HIDE DEF i
<1>5. /\ DOMAIN nodes = Buckets(shift) /\ Entries(nodes) \subseteq Buckets(shift)
      /\ \A b \in Buckets(shift) : nodes[b].hash \in Nat
  BY <1>1, NodeFacts
<1>6. /\ DOMAIN contents' = Key /\ contents'[k] = v /\ v # NULL
      /\ \A j \in Key : j # k => contents'[j] = contents[j]
  BY <1>1, <1>4, HashAssumption DEF Stored
<1>7. CASE nodes[i].hash > 1
  <2>1. i \in Entries(nodes) /\ nodes[i].key = k
    BY <1>3, <1>5, <1>7 DEF Entries
  <2>2. nodes' = [nodes EXCEPT ![i].value = v] /\ UNCHANGED <<shift, nnodes, noccupied, owned>>
    BY <1>4, <1>7
  <2>3. /\ IsTable(shift, nodes')
        /\ \A j \in Buckets(shift) : nodes'[j] = IF j = i THEN [nodes[i] EXCEPT !.value = v] ELSE nodes[j]
    BY <1>5, <2>2 DEF IsTable
  <2>4. /\ TableOK(shift, nodes') /\ Entries(nodes') = Entries(nodes)
        /\ Occupied(shift, nodes') = Occupied(shift, nodes)
        /\ nodes'[i].key = k /\ nodes'[i].value = v
    BY <1>1, <2>1, <2>3, PutValue
  <2>5. \A j \in Entries(nodes) : j # i => nodes'[j] = nodes[j]
    BY <1>5, <2>3
  <2>6. \A j \in Entries(nodes) : nodes[j].key = k => j = i
    BY <1>1, <2>1 DEF TableOK
  <2>7. \A j \in Entries(nodes) : nodes[j].key \in Key
    BY <1>1, NodeFacts, EntryFields
  <2>8. ASSUME NEW j \in Entries(nodes')
        PROVE  contents'[nodes'[j].key] = nodes'[j].value
    <3>1. CASE j = i
      BY <1>6, <2>4, <3>1
    <3>2. CASE j # i
      BY <1>1, <1>6, <2>4, <2>5, <2>6, <2>7, <3>2 DEF Stored
    <3> QED
      BY <3>1, <3>2
  <2>9. ASSUME NEW l \in Key, contents'[l] # NULL
        PROVE  \E j \in Entries(nodes') : nodes'[j].key = l
    <3>1. CASE l = k
      BY <2>1, <2>4, <3>1
    <3>2. CASE l # k
      <4>1. PICK j \in Entries(nodes) : nodes[j].key = l
        BY <1>1, <1>6, <2>9, <3>2 DEF Stored
      <4> QED
        BY <2>1, <2>4, <2>5, <3>2, <4>1
    <3> QED
      BY <3>1, <3>2
  <2>10. Stored(nodes', contents')
    BY <1>6, <2>8, <2>9 DEF Stored
  <2> QED
    BY <1>1, <2>2, <2>4, <2>10 DEF HashInv
<1>8. CASE nodes[i].hash \in {0, 1} /\ Lacks(nodes, k)
  <2>1. PICK new : new = [nodes EXCEPT ![i] = node]
    OBVIOUS
  <2>2. node.key = k /\ node.hash = KeyHash(k) /\ node.value = v /\ IsEntry(node) /\ node.hash > 0
    BY KeyHashes DEF Entry, IsEntry
  <2> HIDE DEF node
  <2>3. /\ IsTable(shift, new)
        /\ \A j \in Buckets(shift) : new[j] = IF j = i THEN node ELSE nodes[j]
    BY <1>5, <2>1 DEF IsTable
  <2>4. TableOK(shift, new) /\ Entries(new) = Entries(nodes) \cup {i} /\ i \notin Entries(nodes)
    BY <1>1, <1>3, <1>8, <2>2, <2>3, PutEntry
  <2>5. Cardinality(Entries(new)) = nnodes + 1
    BY <1>1, <2>4, EntriesFinite, FS_AddElement
  <2>6. Occupied(shift, new) = Occupied(shift, nodes) \cup {i}
    BY <1>3, <2>2, <2>3 DEF Occupied
  <2>7. Cardinality(Occupied(shift, new)) = IF nodes[i].hash = 0 THEN noccupied + 1 ELSE noccupied
    <3>1. i \in Occupied(shift, nodes) <=> nodes[i].hash # 0
      BY <1>3, <1>8 DEF Occupied
    <3>2. Cardinality(Occupied(shift, nodes) \cup {i}) =
            IF i \in Occupied(shift, nodes) THEN noccupied ELSE noccupied + 1
      BY <1>1, OccupiedFinite, FS_AddElement
    <3> QED
      BY <2>6, <3>1, <3>2
  <2>8. Stored(new, contents')
    <3>1. \A j \in Entries(nodes) : new[j] = nodes[j] /\ nodes[j].key # k /\ nodes[j].key \in Key
      BY <1>1, <1>5, <1>8, <2>3, <2>4, NodeFacts, EntryFields DEF Lacks
    <3>2. new[i] = node
      BY <1>3, <2>3
    <3>3. \A j \in Entries(new) : contents'[new[j].key] = new[j].value
      BY <1>1, <1>6, <2>2, <2>4, <3>1, <3>2 DEF Stored
    <3>4. ASSUME NEW l \in Key, contents'[l] # NULL
          PROVE  \E j \in Entries(new) : new[j].key = l
      <4>1. CASE l = k
        BY <2>2, <2>4, <3>2, <4>1
      <4>2. CASE l # k
        <5>1. PICK j \in Entries(nodes) : nodes[j].key = l
          BY <1>1, <1>6, <3>4, <4>2 DEF Stored
        <5> QED
          BY <2>4, <3>1, <5>1
      <4> QED
        BY <4>1, <4>2
    <3> QED
      BY <1>6, <3>3, <3>4 DEF Stored
  <2>9. CASE nodes[i].hash = 1
    <3>1. /\ nodes' = new /\ nnodes' = nnodes + 1 /\ UNCHANGED <<shift, noccupied>>
          /\ owned' = [key |-> owned.key + 1, value |-> owned.value + 1]
      BY <1>4, <2>1, <2>9
    <3>2. owned' = [key |-> nnodes', value |-> nnodes']
      BY <1>1, <3>1
    <3> QED
      BY <1>1, <2>4, <2>5, <2>7, <2>8, <2>9, <3>1, <3>2 DEF HashInv
  <2>10. CASE nodes[i].hash = 0
    <3>1. /\ MaybeResize(new, nnodes + 1, noccupied + 1)
          /\ owned' = [key |-> owned.key + 1, value |-> owned.value + 1]
      BY <1>4, <2>1, <2>10
    <3>2. Cardinality(Occupied(shift, new)) = noccupied + 1
      BY <2>7, <2>10
    <3>3. /\ shift' \in 3 .. 30 /\ TableOK(shift', nodes')
          /\ nnodes' = nnodes + 1 /\ Cardinality(Entries(nodes')) = nnodes + 1
          /\ noccupied' = Cardinality(Occupied(shift', nodes')) /\ noccupied' < 2 ^ shift'
          /\ \A b \in Entries(nodes') : \E j \in Entries(new) : nodes'[b] = new[j]
          /\ \A j \in Entries(new) : \E b \in Entries(nodes') : nodes'[b] = new[j]
      BY <1>1, <2>4, <2>5, <3>1, <3>2, MaybeResizeKeeps
    <3>4. Stored(nodes', contents')
      BY <2>8, <3>3, StoredMoves
    <3>5. owned' = [key |-> nnodes', value |-> nnodes']
      BY <1>1, <3>1, <3>3
    <3> QED
      BY <3>3, <3>4, <3>5 DEF HashInv
  <2> QED
    BY <1>8, <2>9, <2>10
<1> QED
  BY <1>3, <1>7, <1>8

\* What kr_hashtable_remove and kr_hashtable_foreach_remove have in common:
\* the entries R become tombstones, and the table is resized if need be.
LEMMA RemovalStep ==
  ASSUME HashInv, NEW R \in SUBSET Entries(nodes), NEW new, IsTable(shift, new),
         \A i \in Buckets(shift) : new[i] = IF i \in R THEN Tombstone ELSE nodes[i],
         MaybeResize(new, nnodes - Cardinality(R), noccupied),
         owned' = [key |-> owned.key - Cardinality(R), value |-> owned.value - Cardinality(R)],
         DOMAIN contents' = Key,
         \A k \in Key : contents'[k] = IF \E i \in R : nodes[i].key = k THEN NULL ELSE contents[k]
  PROVE  HashInv'
<1>1. /\ shift \in 3 .. 30 /\ TableOK(shift, nodes)
      /\ nnodes = Cardinality(Entries(nodes)) /\ nnodes \in Nat /\ IsFiniteSet(Entries(nodes))
      /\ noccupied = Cardinality(Occupied(shift, nodes))
      /\ owned = [key |-> nnodes, value |-> nnodes]
      /\ Stored(nodes, contents)
  BY EntriesFinite DEF HashInv
<1>2. /\ DOMAIN nodes = Buckets(shift) /\ Entries(nodes) \subseteq Buckets(shift)
      /\ \A b \in Buckets(shift) : nodes[b].hash \in Nat
  BY <1>1, NodeFacts
<1>3. /\ TableOK(shift, new) /\ Entries(new) = Entries(nodes) \ R
      /\ \A i \in Buckets(shift) : new[i].hash = 0 <=> nodes[i].hash = 0
  BY <1>1, Erase
<1>4. Cardinality(Entries(new)) = nnodes - Cardinality(R)
  <2>1. Entries(nodes) \cap R = R
    OBVIOUS
  <2>2. Cardinality(Entries(nodes) \ R)
          = Cardinality(Entries(nodes)) - Cardinality(Entries(nodes) \cap R)
    BY <1>1, FS_Difference
  <2> QED
    BY <1>1, <1>3, <2>1, <2>2
<1>5. Occupied(shift, new) = Occupied(shift, nodes)
  <2>1. \A i \in Buckets(shift) : new[i].hash \in Nat
    BY <1>3, NodeFacts
  <2> QED
    BY <1>2, <1>3, <2>1 DEF Occupied
<1>6. \A j \in Entries(nodes) : nodes[j].key \in Key /\ nodes[j].value # NULL
  BY <1>1, NodeFacts, EntryFields
<1>7. \A j \in Entries(new) : new[j] = nodes[j] /\ j \in Entries(nodes) /\ j \notin R
  BY <1>2, <1>3
<1>8. \A i, j \in Entries(nodes) : nodes[i].key = nodes[j].key => i = j
  BY <1>1 DEF TableOK
<1>9. Stored(new, contents')
  <2>1. ASSUME NEW j \in Entries(new)
        PROVE  contents'[new[j].key] = new[j].value
    <3>1. ~ \E i \in R : nodes[i].key = nodes[j].key
      BY <1>7, <1>8
    <3> QED
      BY <1>1, <1>6, <1>7, <3>1 DEF Stored
  <2>2. ASSUME NEW k \in Key, contents'[k] # NULL
        PROVE  \E j \in Entries(new) : new[j].key = k
    <3>1. ~ (\E i \in R : nodes[i].key = k) /\ contents[k] # NULL
      BY <2>2
    <3>2. PICK j \in Entries(nodes) : nodes[j].key = k
      BY <1>1, <3>1 DEF Stored
    <3> QED
      BY <1>3, <1>7, <3>1, <3>2
  <2> QED
    BY <2>1, <2>2 DEF Stored
<1>10. PICK cnt : cnt = nnodes - Cardinality(R)
  OBVIOUS
<1>11. /\ shift' \in 3 .. 30 /\ TableOK(shift', nodes')
       /\ nnodes' = cnt /\ Cardinality(Entries(nodes')) = cnt
       /\ noccupied' = Cardinality(Occupied(shift', nodes')) /\ noccupied' < 2 ^ shift'
       /\ \A b \in Entries(nodes') : \E j \in Entries(new) : nodes'[b] = new[j]
       /\ \A j \in Entries(new) : \E b \in Entries(nodes') : nodes'[b] = new[j]
  <2>1. cnt = Cardinality(Entries(new)) /\ noccupied = Cardinality(Occupied(shift, new))
    BY <1>1, <1>4, <1>5, <1>10
  <2>2. MaybeResize(new, cnt, noccupied)
    BY <1>10
  <2> QED
    BY <1>1, <1>3, <2>1, <2>2, MaybeResizeKeeps
<1>12. Stored(nodes', contents')
  BY <1>9, <1>11, StoredMoves
<1>13. owned' = [key |-> nnodes', value |-> nnodes']
  BY <1>1, <1>10, <1>11
<1> QED
  BY <1>11, <1>12, <1>13 DEF HashInv

\* kr_hashtable_remove.
LEMMA RemoveStep ==
  ASSUME HashInv, NEW k \in Key, RemoveKey(k)
  PROVE  HashInv'
<1> DEFINE i == LookupNode(k)
           new == [nodes EXCEPT ![i] = Tombstone]
<1>1. TableOK(shift, nodes) /\ HasRoom(shift, nodes) /\ Stored(nodes, contents)
  BY RoomLeft DEF HashInv
<1>2. /\ i \in Buckets(shift)
      /\ \/ nodes[i].hash > 1 /\ nodes[i].key = k
         \/ nodes[i].hash = 0 /\ Lacks(nodes, k)
  BY <1>1, SearchStops DEF LookupNode
<1>3. /\ nodes[i].hash # 0
      /\ MaybeResize(new, nnodes - 1, noccupied)
      /\ owned' = [key |-> owned.key - 1, value |-> owned.value - 1]
      /\ contents' = [contents EXCEPT ![k] = NULL]
  BY DEF RemoveKey
<1> HIDE DEF i
<1>4. i \in Entries(nodes) /\ nodes[i].key = k /\ DOMAIN nodes = Buckets(shift)
  BY <1>1, <1>2, <1>3, NodeFacts DEF Entries
<1>5. {i} \in SUBSET Entries(nodes) /\ Cardinality({i}) = 1
  BY <1>4, FS_Singleton
<1>6. IsTable(shift, new) /\ \A j \in Buckets(shift) : new[j] = IF j \in {i} THEN Tombstone ELSE nodes[j]
  BY <1>4 DEF IsTable
<1>7. DOMAIN contents' = Key
  BY <1>1, <1>3 DEF Stored
<1>8. \A l \in Key : contents'[l] = IF \E j \in {i} : nodes[j].key = l THEN NULL ELSE contents[l]
  BY <1>1, <1>3, <1>4 DEF Stored
<1>9. /\ MaybeResize(new, nnodes - Cardinality({i}), noccupied)
      /\ owned' = [key |-> owned.key - Cardinality({i}), value |-> owned.value - Cardinality({i})]
  BY <1>3, <1>5
<1> HIDE DEF new
<1> QED
  BY <1>5, <1>6, <1>7, <1>8, <1>9, RemovalStep

\* kr_hashtable_foreach_remove.
LEMMA ForeachRemoveStep ==
  ASSUME HashInv, NEW pred, ForeachRemove(pred)
  PROVE  HashInv'
<1> DEFINE R == {i \in Entries(nodes) : nodes[i].key \in pred}
           new == [i \in Buckets(shift) |-> IF i \in R THEN Tombstone ELSE nodes[i]]
<1>1. TableOK(shift, nodes) /\ Stored(nodes, contents)
  BY DEF HashInv
<1>2. /\ MaybeResize(new, nnodes - Cardinality(R), noccupied)
      /\ owned' = [key |-> owned.key - Cardinality(R), value |-> owned.value - Cardinality(R)]
      /\ contents' = [k \in Key |-> IF k \in pred THEN NULL ELSE contents[k]]
  BY DEF ForeachRemove
<1>3. R \in SUBSET Entries(nodes)
  OBVIOUS
<1>4. IsTable(shift, new) /\ \A i \in Buckets(shift) : new[i] = IF i \in R THEN Tombstone ELSE nodes[i]
  BY DEF IsTable
<1>5. ASSUME NEW k \in Key
      PROVE  contents'[k] = IF \E i \in R : nodes[i].key = k THEN NULL ELSE contents[k]
  <2>1. CASE \E i \in R : nodes[i].key = k
    BY <1>2, <2>1
  <2>2. CASE ~ \E i \in R : nodes[i].key = k
    <3>1. k \in pred => contents[k] = NULL
      BY <1>1, <2>2 DEF Stored
    <3> QED
      BY <1>2, <2>2, <3>1
  <2> QED
    BY <2>1, <2>2
<1>6. DOMAIN contents' = Key
  BY <1>2
<1> HIDE DEF R, new
<1> QED
  BY <1>2, <1>3, <1>4, <1>5, <1>6, RemovalStep

\* kr_hashtable_remove_all.
LEMMA RemoveAllStep ==
  ASSUME HashInv, RemoveAll
  PROVE  HashInv'
<1> DEFINE new == [i \in Buckets(shift) |-> EmptyNode]
<1>1. /\ shift \in 3 .. 30 /\ TableOK(shift, nodes)
      /\ nnodes = Cardinality(Entries(nodes)) /\ nnodes \in Nat
      /\ owned = [key |-> nnodes, value |-> nnodes]
  BY EntriesFinite DEF HashInv
<1>2. /\ MaybeResize(new, 0, 0)
      /\ owned' = [key |-> owned.key - nnodes, value |-> owned.value - nnodes]
      /\ contents' = [k \in Key |-> NULL]
  BY <1>1 DEF RemoveAll
<1>3. /\ DOMAIN new = Buckets(shift) /\ IsTable(shift, new)
      /\ \A i \in Buckets(shift) : new[i] = EmptyNode /\ new[i].hash = 0
  BY DEF IsTable, EmptyNode
<1> HIDE DEF new
<1>4. Entries(new) = {} /\ Occupied(shift, new) = {}
  BY <1>3 DEF Entries, Occupied
<1>5. TableOK(shift, new)
  BY <1>1, <1>3, <1>4 DEF TableOK
<1>6. 0 = Cardinality(Entries(new)) /\ 0 = Cardinality(Occupied(shift, new))
  BY <1>4, FS_EmptySet
<1>7. /\ shift' \in 3 .. 30 /\ TableOK(shift', nodes')
      /\ nnodes' = 0 /\ Cardinality(Entries(nodes')) = 0
      /\ noccupied' = Cardinality(Occupied(shift', nodes')) /\ noccupied' < 2 ^ shift'
      /\ \A b \in Entries(nodes') : \E j \in Entries(new) : nodes'[b] = new[j]
      /\ \A j \in Entries(new) : \E b \in Entries(nodes') : nodes'[b] = new[j]
  BY <1>1, <1>2, <1>5, <1>6, MaybeResizeKeeps
<1>8. Stored(new, contents')
  BY <1>2, <1>4 DEF Stored
<1>9. Stored(nodes', contents')
  BY <1>7, <1>8, StoredMoves
<1>10. owned' = [key |-> nnodes', value |-> nnodes']
  BY <1>1, <1>2, <1>7
<1> QED
  BY <1>7, <1>9, <1>10 DEF HashInv

LEMMA HashInvariant == HashSpec => []HashInv
<1>1. HashInv /\ [HashNext]_hashVars => HashInv'
  <2> SUFFICES ASSUME HashInv, [HashNext]_hashVars
               PROVE  HashInv'
    OBVIOUS
  <2>1. CASE UNCHANGED hashVars
    BY <2>1 DEF hashVars, HashInv
  <2>2. CASE HashNext
    BY <2>2, InsertStep, RemoveStep, RemoveAllStep, ForeachRemoveStep DEF HashNext
  <2> QED
    BY <2>1, <2>2
<1> QED
  BY <1>1, HashInit_Inv, PTL DEF HashSpec

\* Every search for a key ends, whatever was inserted and removed before and
\* however often the table was resized (kr_hashtable_lookup_node).
THEOREM LookupsEnd == HashSpec => []LookupEnds
<1>1. HashInv => LookupEnds
  <2> SUFFICES ASSUME HashInv
               PROVE  LookupEnds
    OBVIOUS
  <2>1. TableOK(shift, nodes) /\ HasRoom(shift, nodes)
    BY RoomLeft DEF HashInv
  <2>2. \A k \in Key : StopSteps(shift, nodes, k) # {}
    BY <2>1, SearchStops
  <2> QED
    BY <2>2 DEF HashInv, LookupEnds, Occupied
<1> QED
  BY <1>1, HashInvariant, PTL

\* The table is the map that the callers made (kr_hashtable_insert,
\* kr_hashtable_lookup, kr_hashtable_remove and the others).
THEOREM LookupsAreExact == HashSpec => []LookupExact
<1>1. HashInv => LookupExact
  <2> SUFFICES ASSUME HashInv
               PROVE  LookupExact
    OBVIOUS
  <2>1. TableOK(shift, nodes) /\ HasRoom(shift, nodes) /\ Stored(nodes, contents)
    BY RoomLeft DEF HashInv
  <2>2. DOMAIN nodes = Buckets(shift) /\ Entries(nodes) \subseteq Nat
    BY <2>1, NodeFacts, EntriesFinite
  <2>3. \A i \in Entries(nodes) : nodes[i].key \in Key /\ nodes[i].value # NULL
    BY <2>1, NodeFacts, EntryFields
  <2>4. ASSUME NEW k \in Key
        PROVE  LookupValue(k) = contents[k]
    <3> DEFINE i == LookupNode(k)
    <3>1. /\ i \in Buckets(shift)
          /\ \/ nodes[i].hash > 1 /\ nodes[i].key = k
             \/ nodes[i].hash = 0 /\ Lacks(nodes, k)
      BY <2>1, SearchStops DEF LookupNode
    <3>2. LookupValue(k) = IF nodes[i].hash # 0 THEN nodes[i].value ELSE NULL
      BY DEF LookupValue
    <3> HIDE DEF i
    <3>3. CASE nodes[i].hash > 1 /\ nodes[i].key = k
      <4>1. i \in Entries(nodes) /\ nodes[i].hash # 0
        BY <2>1, <2>2, <3>1, <3>3, NodeFacts DEF Entries
      <4> QED
        BY <2>1, <3>2, <3>3, <4>1 DEF Stored
    <3>4. CASE nodes[i].hash = 0 /\ Lacks(nodes, k)
      BY <2>1, <3>2, <3>4 DEF Stored, Lacks
    <3> QED
      BY <3>1, <3>3, <3>4
  <2>5. ASSUME NEW k \in Key
        PROVE  Find({k}) = contents[k]
    <3> DEFINE hits == {i \in Entries(nodes) : nodes[i].key \in {k}}
    <3>1. Find({k}) = IF hits = {} THEN NULL ELSE nodes[Min(hits)].value
      BY DEF Find
    <3>2. CASE hits = {}
      BY <2>1, <3>1, <3>2 DEF Stored
    <3>3. CASE hits # {}
      <4>1. Min(hits) \in hits
        BY <2>2, <3>3, FirstStep
      <4>2. PICK m : m = Min(hits)
        OBVIOUS
      <4>3. m \in Entries(nodes) /\ nodes[m].key = k
        BY <4>1, <4>2
      <4> QED
        BY <2>1, <3>1, <3>3, <4>2, <4>3 DEF Stored
    <3> QED
      BY <3>2, <3>3
  <2>6. {nodes[i].key : i \in Entries(nodes)} = {k \in Key : contents[k] # NULL}
    BY <2>1, <2>3 DEF Stored
  <2>7. Cardinality({nodes[i].key : i \in Entries(nodes)}) = Cardinality(Entries(nodes))
    BY <2>1, EntriesAreKeys
  <2>8. nnodes = Cardinality(Entries(nodes)) /\ owned = [key |-> nnodes, value |-> nnodes]
    BY DEF HashInv
  <2> QED
    BY <2>4, <2>5, <2>6, <2>7, <2>8 DEF LookupExact
<1> QED
  BY <1>1, HashInvariant, PTL
=============================================================================
