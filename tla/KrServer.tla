------------------------------ MODULE KrServer ------------------------------
(***************************************************************************)
(* The server (krserver/kr_server_network.c, kr_server_protocol.c) on the  *)
(* event loop of krutils/kr_event.c: connections, the framing of requests, *)
(* and the replies that the engine's workers write.                        *)
(*                                                                         *)
(* The event loop runs in one thread.  It hands a request to the engine    *)
(* together with a POINTER to the client, and a worker writes the reply    *)
(* to the descriptor it finds there, whatever has become of the client.    *)
(* The engine is the pool of KrTaskPool, which KrThreadPool implements;    *)
(* with a single caller no task is refused (SoleCallerNeverRefused).       *)
(*                                                                         *)
(* Lengths are counted in headers: the header of a request is its first    *)
(* byte here, and tells the length of the whole.                           *)
(***************************************************************************)
EXTENDS Integers, FiniteSets, SequencesExt

CONSTANTS
  Workers,       \* the threads of the engine
  MaxConns,      \* bound on the connections
  SetSize,       \* the descriptors the event loop has room for are 1 .. SetSize
  MaxRequests,   \* bound on the requests of a connection
  MaxLen,        \* bound on the length of a request, its header included
  BufferMaxLen,  \* KR_BUFFER_MAX_LEN
  ReplyLen,      \* the length of a reply
  None           \* NULL

ASSUME ServerAssumption ==
  /\ MaxConns \in Nat
  /\ SetSize \in Nat \ {0}
  /\ MaxRequests \in Nat
  /\ MaxLen \in Nat \ {0}
  /\ BufferMaxLen \in Nat \ {0}
  /\ ReplyLen \in Nat \ {0}
  /\ None \notin Nat
  /\ None \notin Workers

Conns == 1 .. MaxConns   \* in the order they are made
Fds == 1 .. SetSize
Cells == 1 .. SetSize    \* heap cells for clients: one for each descriptor

\* A byte of a connection's input: the number of the request it belongs to,
\* its place in the request, and the length of that request.
Byte == [num : 1 .. MaxRequests, at : 1 .. MaxLen, len : 1 .. MaxLen]

\* A byte of a reply: whose request, its number, the place in the reply.
ReplyByte == [conn : Conns, num : 1 .. MaxRequests, at : 1 .. ReplyLen]

\* T_KREngineArg: the client, and, for the properties, the request.
Task == [client : Cells, conn : Conns, num : 1 .. MaxRequests]
NoTask == [client |-> 0, conn |-> 0, num |-> 0]

\* T_KRClient.
Client == [fd : Fds, inbuf : Seq(Byte)]

\* NULL is not a client.
ASSUME NullAssumption == None \notin Client

VARIABLES
  fds,         \* the connection behind each descriptor
  link,        \* each connection: new, up, down (the peer hung up), gone
  unread,      \* bytes sent by the peer and not yet read
  events,      \* eventLoop->events: the clientData of each descriptor
  clients,     \* krserver->clients
  krclient,    \* the client in each heap cell
  parsing,     \* the client whose input buffer the loop is working on
  pending, running, done,  \* the engine
  writing,     \* the descriptor each worker writes its reply to
  left,        \* the bytes of the reply it has still to write
  received,    \* what the peer of each connection gets
  sent,        \* history: requests sent on each connection
  handed,      \* history: requests handed to the engine
  orphan,      \* history: a client was freed with requests outstanding
  pipelined    \* history: a client had two requests outstanding

net == <<fds, link, unread>>
registry == <<events, clients, krclient>>
engine == <<pending, running, done>>
output == <<writing, left, received>>
vars == <<net, registry, parsing, engine, output, sent, handed, orphan, pipelined>>

Engine == INSTANCE KrTaskPool

-----------------------------------------------------------------------------
\* kr_server_startup.
Init ==
  /\ fds = [f \in Fds |-> None]
  /\ link = [k \in Conns |-> "new"]
  /\ unread = [k \in Conns |-> <<>>]
  /\ events = [f \in Fds |-> None]
  /\ clients = <<>>
  /\ krclient = [c \in Cells |-> None]
  /\ parsing = None
  /\ Engine!Init
  /\ writing = [w \in Workers |-> None]
  /\ left = [w \in Workers |-> ReplyLen]
  /\ received = [k \in Conns |-> <<>>]
  /\ sent = [k \in Conns |-> 0]
  /\ handed = [k \in Conns |-> 0]
  /\ orphan = FALSE
  /\ pipelined = FALSE

-----------------------------------------------------------------------------
(***************************************************************************)
(* The peers.                                                              *)
(***************************************************************************)

\* A peer sends a request of some length.
Send(k, len) ==
  /\ link[k] = "up"
  /\ sent[k] < MaxRequests
  /\ sent' = [sent EXCEPT ![k] = @ + 1]
  /\ unread' = [unread EXCEPT ![k] =
       @ \o [i \in 1 .. len |-> [num |-> sent[k] + 1, at |-> i, len |-> len]]]
  /\ UNCHANGED <<fds, link, registry, parsing, engine, output, handed, orphan, pipelined>>

\* A peer closes its end, or is gone.
HangUp(k) ==
  /\ link[k] = "up"
  /\ link' = [link EXCEPT ![k] = "down"]
  /\ UNCHANGED <<fds, unread, registry, parsing, engine, output, sent, handed, orphan, pipelined>>

-----------------------------------------------------------------------------
(***************************************************************************)
(* The event loop.  It is free for the next event when it is not working   *)
(* on an input buffer.                                                     *)
(***************************************************************************)

\* The connection that is made next.
Arriving(k) == link[k] = "new" /\ \A j \in Conns : j < k => link[j] # "new"

\* kr_server_on_connect: the kernel gives the lowest descriptor, kr_calloc
\* some cell that is free.
OnConnect(k, f, c) ==
  /\ parsing = None
  /\ Arriving(k)
  /\ fds[f] = None /\ \A g \in Fds : g < f => fds[g] # None
  /\ krclient[c] = None
  /\ fds' = [fds EXCEPT ![f] = k]
  /\ link' = [link EXCEPT ![k] = "up"]
  /\ krclient' = [krclient EXCEPT ![c] = [fd |-> f, inbuf |-> <<>>]]
  /\ events' = [events EXCEPT ![f] = c]
  /\ clients' = Append(clients, c)
  /\ UNCHANGED <<unread, parsing, engine, output, sent, handed, orphan, pipelined>>

\* kr_event_file_create fails: the descriptor is beyond setsize.  The client
\* is freed again before it is in the list.
OnConnectFails(k) ==
  /\ parsing = None
  /\ Arriving(k)
  /\ \A f \in Fds : fds[f] # None
  /\ link' = [link EXCEPT ![k] = "gone"]
  /\ UNCHANGED <<fds, unread, registry, parsing, engine, output, sent, handed, orphan, pipelined>>

\* The tasks of a client that the engine has not finished.
Outstanding(c) ==
  {t \in ToSet(pending) \cup {running[w] : w \in Workers} : t.client = c}

\* Mutant of Unlist: the client stays in the list.
UnlistNot(c) == clients

\* kr_list_remove with kr_client_match: the first client with the same
\* descriptor.
Unlist(c) == RemoveFirstMatch(clients, LAMBDA d : krclient[d].fd = krclient[c].fd)

\* kr_client_free.
ClientFree(c) ==
  LET f == krclient[c].fd
  IN  /\ clients' = Unlist(c)
      /\ events' = [events EXCEPT ![f] = None]
      /\ fds' = [fds EXCEPT ![f] = None]
      /\ link' = [link EXCEPT ![fds[f]] = "gone"]
      /\ krclient' = [krclient EXCEPT ![c] = None]
      /\ orphan' = (orphan \/ Outstanding(c) # {})

\* readlen of kr_server_on_read.
Room(c) == BufferMaxLen - Len(krclient[c].inbuf)

\* kr_server_on_read: n bytes go to the input buffer.
OnRead(f, n) ==
  LET c == events[f]
      k == fds[f]
  IN  /\ parsing = None
      /\ c # None
      /\ n <= Room(c) /\ n <= Len(unread[k])
      /\ krclient' = [krclient EXCEPT ![c].inbuf = @ \o SubSeq(unread[k], 1, n)]
      /\ unread' = [unread EXCEPT ![k] = SubSeq(@, n + 1, Len(@))]
      /\ parsing' = c
      /\ UNCHANGED <<fds, link, events, clients, engine, output, sent, handed, orphan, pipelined>>

\* Mutant of Ends: a full buffer is not taken for the end.
EndsDownOnly(k, c) == link[k] = "down"

\* read returns 0 or an error: the peer hung up (a reset may come before all
\* is read), or there is no room and it is asked for 0 bytes.
Ends(k, c) ==
  \/ link[k] = "down"
  \/ Room(c) = 0 /\ unread[k] # <<>>

OnReadEnds(f) ==
  /\ parsing = None
  /\ events[f] # None
  /\ Ends(fds[f], events[f])
  /\ ClientFree(events[f])
  /\ UNCHANGED <<unread, parsing, engine, output, sent, handed, pipelined>>

\* Mutant of NeedData: the header is not counted.
NeedDataNoHeader(buf) == buf # <<>> => Len(buf) < buf[1].len - 1

\* kr_message_parse finds less than a header, or less than header and body.
NeedData(buf) == buf # <<>> => Len(buf) < buf[1].len

\* The loop of kr_server_process_input_buffer ends: nothing is left, or not a
\* whole request.
ParseEnds ==
  /\ parsing # None
  /\ NeedData(krclient[parsing].inbuf)
  /\ parsing' = None
  /\ UNCHANGED <<net, registry, engine, output, sent, handed, orphan, pipelined>>

\* What kr_message_parse leaves in the buffer.
Rest(buf) == SubSeq(buf, buf[1].len + 1, Len(buf))

\* kr_message_parse takes a request out of the buffer and kr_engine_run hands
\* it to the pool.
ParseMessage ==
  LET buf == krclient[parsing].inbuf
      k   == fds[krclient[parsing].fd]
  IN  /\ parsing # None
      /\ ~ NeedData(buf)
      /\ krclient' = [krclient EXCEPT ![parsing].inbuf = Rest(buf)]
      /\ Engine!Accept(<<[client |-> parsing, conn |-> k, num |-> buf[1].num]>>)
      /\ handed' = [handed EXCEPT ![k] = @ + 1]
      /\ pipelined' = (pipelined \/ Outstanding(parsing) # {})
      /\ UNCHANGED <<net, events, clients, parsing, output, sent, orphan>>

-----------------------------------------------------------------------------
(***************************************************************************)
(* The workers.                                                            *)
(***************************************************************************)

Start(w) ==
  /\ Engine!Start(w)
  /\ UNCHANGED <<net, registry, parsing, output, sent, handed, orphan, pipelined>>

\* Mutant of Descriptor: the latest client of the list.
DescriptorLast(c) == IF clients = <<>> THEN Fds ELSE {krclient[Last(clients)].fd}

\* krclient->fd: if the client has been freed it may be anything, 0 here for
\* what is no descriptor of a connection.
Descriptor(c) == IF krclient[c] = None THEN Fds \cup {0} ELSE {krclient[c].fd}

\* kr_engine_handle is through with the request, and its callback
\* kr_server_write_resp calls kr_net_write.
WriteResp(w) ==
  /\ running[w] # NoTask
  /\ writing[w] = None
  /\ \E f \in Descriptor(running[w].client) : writing' = [writing EXCEPT ![w] = f]
  /\ UNCHANGED <<net, registry, parsing, engine, left, received, sent, handed, orphan, pipelined>>

\* What is written to descriptor f reaches a peer.
Connected(f) == f \in Fds /\ fds[f] # None /\ link[fds[f]] = "up"

\* Mutant of Part: the buffer is not advanced.
PartFromStart(w, n) ==
  [i \in 1 .. n |-> [conn |-> running[w].conn, num |-> running[w].num, at |-> i]]

\* The next n bytes of a worker's reply.
Part(w, n) ==
  [i \in 1 .. n |-> [conn |-> running[w].conn, num |-> running[w].num,
                     at |-> ReplyLen - left[w] + i]]

\* The worker's callback returns.
Returns(w) ==
  /\ Engine!Finish(w)
  /\ writing' = [writing EXCEPT ![w] = None]
  /\ left' = [left EXCEPT ![w] = ReplyLen]

\* write takes n bytes of what is left; the loop of kr_net_write goes on until
\* all are written.
Write(w, n) ==
  /\ writing[w] # None
  /\ Connected(writing[w])
  /\ n <= left[w]
  /\ received' = [received EXCEPT ![fds[writing[w]]] = @ \o Part(w, n)]
  /\ IF n = left[w]
     THEN Returns(w)
     ELSE left' = [left EXCEPT ![w] = @ - n] /\ UNCHANGED <<engine, writing>>
  /\ UNCHANGED <<net, registry, parsing, sent, handed, orphan, pipelined>>

\* write fails: the descriptor is closed, or the peer is gone.
WriteFails(w) ==
  /\ writing[w] # None
  /\ ~ Connected(writing[w])
  /\ Returns(w)
  /\ UNCHANGED <<net, registry, parsing, received, sent, handed, orphan, pipelined>>

-----------------------------------------------------------------------------
PeerStep(k) == (\E len \in 1 .. MaxLen : Send(k, len)) \/ HangUp(k)
Connect(k) == (\E f \in Fds, c \in Cells : OnConnect(k, f, c)) \/ OnConnectFails(k)
ReadStep(f) == (\E n \in 1 .. BufferMaxLen : OnRead(f, n)) \/ OnReadEnds(f)
ParseStep == ParseMessage \/ ParseEnds
WorkerStep(w) == WriteResp(w) \/ (\E n \in 1 .. ReplyLen : Write(w, n)) \/ WriteFails(w)

Next ==
  \/ \E k \in Conns : PeerStep(k) \/ Connect(k)
  \/ \E f \in Fds : ReadStep(f)
  \/ ParseStep
  \/ \E w \in Workers : Start(w) \/ WorkerStep(w)

\* The loop handles every descriptor that poll reports before it polls again;
\* threads that can run do run, and peers read what is written to them.
Fairness ==
  /\ \A f \in Fds : SF_vars(ReadStep(f))
  /\ WF_vars(ParseStep)
  /\ WF_vars(\E w \in Workers : Start(w))
  /\ \A w \in Workers : WF_vars(WorkerStep(w))

Spec == Init /\ [][Next]_vars /\ Fairness

-----------------------------------------------------------------------------
\* Everything is in its range; the input buffer is never overrun.
TypeOK ==
  /\ fds \in [Fds -> Conns \cup {None}]
  /\ link \in [Conns -> {"new", "up", "down", "gone"}]
  /\ unread \in [Conns -> Seq(Byte)]
  /\ events \in [Fds -> Cells \cup {None}]
  /\ clients \in Seq(Cells)
  /\ krclient \in [Cells -> Client \cup {None}]
  /\ \A c \in Cells : krclient[c] # None => Len(krclient[c].inbuf) <= BufferMaxLen
  /\ parsing \in Cells \cup {None}
  /\ pending \in Seq(Task)
  /\ running \in [Workers -> Task \cup {NoTask}]
  /\ done \subseteq Task
  /\ writing \in [Workers -> Fds \cup {0, None}]
  /\ left \in [Workers -> 1 .. ReplyLen]
  /\ received \in [Conns -> Seq(ReplyByte)]
  /\ sent \in [Conns -> 0 .. MaxRequests]
  /\ handed \in [Conns -> 0 .. MaxRequests]

\* The descriptors that are open, the clientData of the event loop and the
\* list of clients agree, so that an event is never delivered to a client that
\* has been freed, and kr_list_remove by descriptor takes the right one.
RegistryExact ==
  /\ \A f \in Fds : events[f] # None <=> fds[f] # None
  /\ \A f \in Fds : events[f] # None => krclient[events[f]] # None /\ krclient[events[f]].fd = f
  /\ \A c \in Cells : krclient[c] # None <=> c \in ToSet(clients)
  /\ \A c \in ToSet(clients) : events[krclient[c].fd] = c
  /\ IsInjective(clients)

\* b comes right after a in the input of a connection.
Follows(a, b) ==
  IF a.at < a.len
  THEN b.num = a.num /\ b.at = a.at + 1 /\ b.len = a.len
  ELSE b.num = a.num + 1 /\ b.at = 1

\* However the input is cut into reads: what has not been handed to the engine
\* begins with the header of the next request and is complete, so requests
\* are handed on whole, in order and once (kr_message_parse,
\* kr_server_process_input_buffer).
FramesExact ==
  \A f \in Fds : events[f] # None =>
    LET k    == fds[f]
        rest == krclient[events[f]].inbuf \o unread[k]
    IN  IF rest = <<>>
        THEN handed[k] = sent[k]
        ELSE /\ rest[1].num = handed[k] + 1 /\ rest[1].at = 1
             /\ \A i \in 1 .. Len(rest) - 1 : Follows(rest[i], rest[i + 1])
             /\ Last(rest).num = sent[k] /\ Last(rest).at = Last(rest).len

\* As long as no client leaves with requests outstanding, a reply goes to the
\* connection its request came on, each byte once, whatever order the workers
\* finish in (the pointer to the client in T_KREngineArg).
RepliesToAsker ==
  ~ orphan =>
    \A k \in Conns :
      /\ IsInjective(received[k])
      /\ \A i \in DOMAIN received[k] : received[k][i].conn = k /\ received[k][i].num <= handed[k]

\* b comes right after a in the output of a connection: replies are whole.
ReplyFollows(a, b) ==
  IF a.at < ReplyLen THEN b.num = a.num /\ b.at = a.at + 1 ELSE b.at = 1

\* What a connection gets is whole replies one after the other, in the "message
\* format for krproject communication" (kr_server_protocol.h).
MessageFormat ==
  ~ orphan =>
    \A k \in Conns : \A i \in 1 .. Len(received[k]) - 1 :
      ReplyFollows(received[k][i], received[k][i + 1])

\* If besides each client waits for a reply before its next request, replies
\* come whole and in the order of the requests, although the workers write to
\* the connection without a lock.
RepliesInOrder ==
  ~ orphan /\ ~ pipelined =>
    \A k \in Conns : received[k] # <<>> =>
      /\ received[k][1].num = 1 /\ received[k][1].at = 1
      /\ \A i \in 1 .. Len(received[k]) - 1 :
           LET a == received[k][i]
               b == received[k][i + 1]
           IN  ReplyFollows(a, b) /\ (b.at = 1 => b.num = a.num + 1)

\* The whole reply to request n of connection k has arrived.
Answered(k, n) ==
  \E i \in DOMAIN received[k] : received[k][i] = [conn |-> k, num |-> n, at |-> ReplyLen]

\* Every request is answered, unless the connection ends: a request that does
\* not fit into the buffer ends it rather than blocking it.
AnsweredOrClosed ==
  \A k \in Conns : \A n \in 1 .. MaxRequests :
    sent[k] >= n ~> Answered(k, n) \/ link[k] # "up"

=============================================================================
