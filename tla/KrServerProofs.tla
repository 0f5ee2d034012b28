--------------------------- MODULE KrServerProofs ---------------------------
(***************************************************************************)
(* Proofs about KrServer, for any number of connections, descriptors,      *)
(* workers and requests, and any lengths of buffer, request and reply; and *)
(* about KrEngine, which computes the replies, for any tables, events,     *)
(* items, groups and rules.                                                *)
(***************************************************************************)
EXTENDS KrServer, KrEngine, KrListProofs, FiniteSetTheorems

-----------------------------------------------------------------------------
(***************************************************************************)
(* The inductive invariant.                                                *)
(***************************************************************************)

\* Connections and clients.  A connection has one descriptor, and only an open
\* one has any; the loop works on a client that is there; nothing has happened
\* on a connection that is still to come.
ConnInv ==
  /\ \A f, g \in Fds : fds[f] # None /\ fds[f] = fds[g] => f = g
  /\ \A f \in Fds : fds[f] # None => link[fds[f]] \in {"up", "down"}
  /\ parsing # None => krclient[parsing] # None
  /\ \A k \in Conns : link[k] = "new" =>
       unread[k] = <<>> /\ sent[k] = 0 /\ handed[k] = 0 /\ received[k] = <<>>

\* Every byte of the input s stands in a whole request.
WholeRequests(s) ==
  \A i \in 1 .. Len(s) :
    /\ s[i].at <= s[i].len
    /\ \A j \in 1 .. s[i].len :
         /\ i - s[i].at + j \in 1 .. Len(s)
         /\ s[i - s[i].at + j] = [num |-> s[i].num, at |-> j, len |-> s[i].len]

\* The input s holds the requests n + 1 .. m.
Framed(s, n, m) ==
  /\ IF s = <<>>
     THEN n = m
     ELSE /\ s[1].num = n + 1 /\ s[1].at = 1
          /\ \A i \in 1 .. Len(s) - 1 : Follows(s[i], s[i + 1])
          /\ Last(s).num = m /\ Last(s).at = Last(s).len
  /\ WholeRequests(s)

\* What has been read and what has not, of the connection behind descriptor f.
Input(f) == krclient[events[f]].inbuf \o unread[fds[f]]

FrameInv ==
  \A f \in Fds : events[f] # None => Framed(Input(f), handed[fds[f]], sent[fds[f]])

\* A worker writes the reply to the task it runs, and begins at its start.
WorkerInv ==
  \A w \in Workers :
    /\ writing[w] # None => running[w] # NoTask
    /\ writing[w] = None => left[w] = ReplyLen

\* Two tasks for different requests.
Apart(a, b) == a.conn # b.conn \/ a.num # b.num

\* No request is with the engine twice, and none that was not handed over.
TaskInv ==
  /\ \A i \in 1 .. Len(pending) : pending[i].num <= handed[pending[i].conn]
  /\ \A w \in Workers : running[w] # NoTask => running[w].num <= handed[running[w].conn]
  /\ \A i, j \in 1 .. Len(pending) : i # j => Apart(pending[i], pending[j])
  /\ \A i \in 1 .. Len(pending), w \in Workers :
       running[w] # NoTask => Apart(pending[i], running[w])
  /\ \A v, w \in Workers :
       v # w /\ running[v] # NoTask /\ running[w] # NoTask => Apart(running[v], running[w])

\* The client of a task is there, with the connection the request came on.
ClientHeld(t) == krclient[t.client] # None /\ fds[krclient[t.client].fd] = t.conn

\* As long as no client left with requests outstanding: the clients of all
\* tasks are there, and workers write to their descriptors.
HeldInv ==
  ~ orphan =>
    /\ \A i \in 1 .. Len(pending) : ClientHeld(pending[i])
    /\ \A w \in Workers : running[w] # NoTask => ClientHeld(running[w])
    /\ \A w \in Workers : writing[w] # None => writing[w] = krclient[running[w].client].fd

\* What the peers have got of the replies: nothing of a task that waits, and
\* of one that runs no more than was written.
ReplyInv ==
  ~ orphan =>
    /\ \A k \in Conns : \A a \in 1 .. Len(received[k]) :
         received[k][a].conn = k /\ received[k][a].num <= handed[k]
    /\ \A k \in Conns : IsInjective(received[k])
    /\ \A i \in 1 .. Len(pending) : \A a \in 1 .. Len(received[pending[i].conn]) :
         received[pending[i].conn][a].num # pending[i].num
    /\ \A w \in Workers : running[w] # NoTask =>
         \A a \in 1 .. Len(received[running[w].conn]) :
           received[running[w].conn][a].num = running[w].num =>
             received[running[w].conn][a].at <= ReplyLen - left[w]

\* Each client has one request outstanding at most, its last.
AloneInv ==
  ~ orphan /\ ~ pipelined =>
    /\ \A i \in 1 .. Len(pending) : pending[i].num = handed[pending[i].conn]
    /\ \A w \in Workers : running[w] # NoTask => running[w].num = handed[running[w].conn]

\* The last the peer of connection k has got is the end of reply n.
Settled(k, n) ==
  IF n = 0
  THEN received[k] = <<>>
  ELSE received[k] # <<>> /\ Last(received[k]) = [conn |-> k, num |-> n, at |-> ReplyLen]

\* Where the output of each connection that is up stands, for one request
\* outstanding at most.
OrderInv ==
  ~ orphan /\ ~ pipelined =>
    /\ \A i \in 1 .. Len(pending) :
         link[pending[i].conn] = "up" => Settled(pending[i].conn, pending[i].num - 1)
    /\ \A w \in Workers : running[w] # NoTask /\ link[running[w].conn] = "up" =>
         IF left[w] = ReplyLen
         THEN Settled(running[w].conn, running[w].num - 1)
         ELSE /\ received[running[w].conn] # <<>>
              /\ Last(received[running[w].conn]) =
                   [conn |-> running[w].conn, num |-> running[w].num, at |-> ReplyLen - left[w]]
    /\ \A k \in Conns :
         /\ link[k] = "up"
         /\ \A i \in 1 .. Len(pending) : pending[i].conn # k
         /\ \A w \in Workers : running[w].conn # k
         => Settled(k, handed[k])

IInv ==
  /\ TypeOK
  /\ RegistryExact
  /\ ConnInv
  /\ FrameInv
  /\ WorkerInv
  /\ TaskInv
  /\ HeldInv
  /\ ReplyInv
  /\ AloneInv
  /\ OrderInv
  /\ RepliesInOrder

-----------------------------------------------------------------------------
(***************************************************************************)
(* The input of a connection.                                              *)
(***************************************************************************)

\* The bytes of a request, position by position.
LEMMA RequestBytes ==
  ASSUME NEW num \in 1 .. MaxRequests, NEW len \in 1 .. MaxLen,
         NEW b, b = [i \in 1 .. len |-> [num |-> num, at |-> i, len |-> len]]
  PROVE  /\ b \in Seq(Byte)
         /\ Len(b) = len
         /\ \A i \in 1 .. len : b[i] = [num |-> num, at |-> i, len |-> len]
<1>1. len \in Nat /\ \A i \in 1 .. len : i \in 1 .. MaxLen
  BY ServerAssumption
<1>2. \A i \in 1 .. len : [num |-> num, at |-> i, len |-> len] \in Byte
  BY <1>1 DEF Byte
<1>3. b \in Seq(Byte)
  BY <1>1, <1>2, IsASeq
<1>4. DOMAIN b = 1 .. len /\ DOMAIN b = 1 .. Len(b) /\ Len(b) \in Nat
  BY <1>3, LenProperties
<1>5. Len(b) = len
  BY <1>1, <1>4
<1> QED
  BY <1>3, <1>5

\* A peer sends one more request (Send).
LEMMA FramedSend ==
  ASSUME NEW s \in Seq(Byte), NEW n \in Nat, NEW m \in Nat, m < MaxRequests,
         NEW len \in 1 .. MaxLen, Framed(s, n, m)
  PROVE  LET r == s \o [i \in 1 .. len |-> [num |-> m + 1, at |-> i, len |-> len]]
         IN  r \in Seq(Byte) /\ Framed(r, n, m + 1)
<1>1. PICK b : b = [i \in 1 .. len |-> [num |-> m + 1, at |-> i, len |-> len]]
  OBVIOUS
<1>2. /\ b \in Seq(Byte)
      /\ Len(b) = len
      /\ \A i \in 1 .. len : b[i] = [num |-> m + 1, at |-> i, len |-> len]
  <2>1. m + 1 \in 1 .. MaxRequests
    BY ServerAssumption
  <2> QED
    BY <1>1, <2>1, RequestBytes
<1>0. PICK r : r = s \o b
  OBVIOUS
<1>3. /\ r \in Seq(Byte)
      /\ Len(r) = Len(s) + len
      /\ \A i \in 1 .. Len(s) : r[i] = s[i]
      /\ \A i \in 1 .. len : r[Len(s) + i] = [num |-> m + 1, at |-> i, len |-> len]
  <2>0. b \in Seq(Byte)
    BY <1>2
  <2>1. /\ r \in Seq(Byte)
        /\ Len(r) = Len(s) + Len(b)
        /\ \A i \in 1 .. Len(s) : r[i] = s[i]
        /\ \A i \in 1 .. Len(b) : r[Len(s) + i] = b[i]
    BY <1>0, <2>0, JoinPositions
  <2> QED
    BY <1>2, <2>1
<1>4. /\ Len(s) \in Nat /\ len \in Nat /\ len >= 1
      /\ s = <<>> <=> Len(s) = 0
      /\ \A i \in 1 .. Len(s) : s[i] \in Byte
  BY EmptySeq, ServerAssumption
<1>5. \A i \in 1 .. Len(r) : i \in 1 .. Len(s) \/ (i - Len(s) \in 1 .. len /\ i = Len(s) + (i - Len(s)))
  BY <1>3, <1>4
<1>6. \A i \in 1 .. Len(r) : i > Len(s) => r[i] = [num |-> m + 1, at |-> i - Len(s), len |-> len]
  <2> SUFFICES ASSUME NEW i \in 1 .. Len(r), i > Len(s)
               PROVE  r[i] = [num |-> m + 1, at |-> i - Len(s), len |-> len]
    OBVIOUS
  <2>1. PICK d : d = i - Len(s)
    OBVIOUS
  <2>2. d \in 1 .. len /\ i = Len(s) + d
    BY <1>3, <1>4, <2>1
  <2> QED
    BY <1>3, <2>1, <2>2
<1>7. WholeRequests(r)
  <2> SUFFICES ASSUME NEW i \in 1 .. Len(r)
               PROVE  /\ r[i].at <= r[i].len
                      /\ \A j \in 1 .. r[i].len :
                           /\ i - r[i].at + j \in 1 .. Len(r)
                           /\ r[i - r[i].at + j] = [num |-> r[i].num, at |-> j, len |-> r[i].len]
    BY DEF WholeRequests
  <2>1. CASE i \in 1 .. Len(s)
    <3>1. /\ s[i].at <= s[i].len
          /\ \A j \in 1 .. s[i].len :
               /\ i - s[i].at + j \in 1 .. Len(s)
               /\ s[i - s[i].at + j] = [num |-> s[i].num, at |-> j, len |-> s[i].len]
      BY <2>1 DEF Framed, WholeRequests
    <3>2. r[i] = s[i] /\ \A p \in 1 .. Len(s) : r[p] = s[p] /\ p \in 1 .. Len(r)
      BY <1>3, <1>4, <2>1
    <3> QED
      BY <3>1, <3>2
  <2>2. CASE i > Len(s)
    <3>0. r[i] = [num |-> m + 1, at |-> i - Len(s), len |-> len]
      BY <1>6, <2>2
    <3>1. r[i].num = m + 1 /\ r[i].at = i - Len(s) /\ r[i].len = len
      BY <3>0
    <3>2. i - Len(s) <= len
      BY <1>3, <1>4
    <3>3. \A j \in 1 .. len : i - (i - Len(s)) + j = Len(s) + j /\ Len(s) + j \in 1 .. Len(r)
      BY <1>3, <1>4
    <3> QED
      BY <1>3, <3>1, <3>2, <3>3
  <2> QED
    BY <1>4, <2>1, <2>2
<1>8. ASSUME NEW i \in 1 .. Len(r) - 1
      PROVE  Follows(r[i], r[i + 1])
  <2>1. CASE i < Len(s)
    <3>1. i \in 1 .. Len(s) - 1 /\ i \in 1 .. Len(s) /\ i + 1 \in 1 .. Len(s) /\ s # <<>>
      BY <1>4, <2>1
    <3>2. Follows(s[i], s[i + 1])
      BY <3>1 DEF Framed
    <3> QED
      BY <1>3, <3>1, <3>2
  <2>2. CASE i = Len(s)
    <3>1. i \in 1 .. Len(s) /\ s # <<>> /\ 1 \in 1 .. len
      BY <1>4, <2>2
    <3>2. r[i] = s[i] /\ s[i].num = m /\ s[i].at = s[i].len
      BY <1>3, <2>2, <3>1 DEF Framed, Last
    <3>3. r[i + 1] = [num |-> m + 1, at |-> 1, len |-> len]
      BY <1>3, <2>2, <3>1
    <3>4. s[i].at \in Int
      BY <1>4, <3>1, SMTT(40) DEF Byte
    <3> QED
      BY <3>2, <3>3, <3>4 DEF Follows
  <2>3. CASE i > Len(s)
    <3>1. i \in 1 .. Len(r) /\ i + 1 \in 1 .. Len(r) /\ i + 1 > Len(s)
          /\ i - Len(s) < len /\ (i + 1) - Len(s) = (i - Len(s)) + 1
      BY <1>3, <1>4, <2>3
    <3>2. /\ r[i] = [num |-> m + 1, at |-> i - Len(s), len |-> len]
          /\ r[i + 1] = [num |-> m + 1, at |-> (i + 1) - Len(s), len |-> len]
      BY <1>6, <2>3, <3>1
    <3> QED
      BY <3>1, <3>2 DEF Follows
  <2> QED
    BY <1>4, <2>1, <2>2, <2>3
<1>9. r # <<>> /\ r[1].num = n + 1 /\ r[1].at = 1
  <2>1. Len(r) >= 1
    BY <1>3, <1>4
  <2>2. CASE s = <<>>
    <3>1. r[Len(s) + 1] = [num |-> m + 1, at |-> 1, len |-> len] /\ Len(s) + 1 = 1 /\ n = m
      BY <1>3, <1>4, <2>2 DEF Framed
    <3> QED
      BY <2>1, <3>1
  <2>3. CASE s # <<>>
    <3>1. r[1] = s[1] /\ s[1].num = n + 1 /\ s[1].at = 1
      BY <1>3, <1>4, <2>3 DEF Framed
    <3> QED
      BY <2>1, <3>1
  <2> QED
    BY <2>2, <2>3
<1>10. Last(r).num = m + 1 /\ Last(r).at = Last(r).len
  <2>1. r[Len(r)] = [num |-> m + 1, at |-> len, len |-> len]
    BY <1>3, <1>4
  <2> QED
    BY <2>1 DEF Last
<1>11. Framed(r, n, m + 1)
  BY <1>7, <1>8, <1>9, <1>10 DEF Framed
<1> QED
  BY <1>0, <1>1, <1>3, <1>11

\* The server takes the first request (ParseMessage).
LEMMA FramedParse ==
  ASSUME NEW s \in Seq(Byte), NEW n \in Nat, NEW m \in Nat, Framed(s, n, m), s # <<>>
  PROVE  s[1].len \in 1 .. Len(s) /\ Framed(Rest(s), n + 1, m)
<1>p. PICK l : l = s[1].len
  OBVIOUS
<1>q. PICK r : r = SubSeq(s, l + 1, Len(s))
  OBVIOUS
<1>1. /\ Len(s) \in Nat /\ Len(s) >= 1
      /\ \A i \in 1 .. Len(s) : s[i] \in Byte
      /\ \A i \in 1 .. Len(s) : s[i].num \in Nat /\ s[i].at \in 1 .. MaxLen /\ s[i].len \in 1 .. MaxLen
  <2>1. \A i \in 1 .. Len(s) : s[i] \in Byte
    OBVIOUS
  <2> QED
    BY <2>1, EmptySeq DEF Byte
<1>2. /\ s[1].num = n + 1 /\ s[1].at = 1
      /\ \A i \in 1 .. Len(s) - 1 : Follows(s[i], s[i + 1])
      /\ s[Len(s)].num = m /\ s[Len(s)].at = s[Len(s)].len
  BY DEF Framed, Last
<1>3. /\ \A i \in 1 .. Len(s) : s[i].at <= s[i].len
      /\ \A i \in 1 .. Len(s) : \A j \in 1 .. s[i].len :
           /\ i - s[i].at + j \in 1 .. Len(s)
           /\ s[i - s[i].at + j] = [num |-> s[i].num, at |-> j, len |-> s[i].len]
  BY DEF Framed, WholeRequests
<1>4. 1 \in 1 .. Len(s) /\ l \in Nat /\ l >= 1
  BY <1>1, <1>p, ServerAssumption
<1>5. \A j \in 1 .. l : j \in 1 .. Len(s) /\ s[j] = [num |-> n + 1, at |-> j, len |-> l]
  <2> SUFFICES ASSUME NEW j \in 1 .. l
               PROVE  j \in 1 .. Len(s) /\ s[j] = [num |-> n + 1, at |-> j, len |-> l]
    OBVIOUS
  <2>1. 1 - s[1].at + j = j
    BY <1>2, <1>4
  <2> QED
    BY <1>2, <1>3, <1>4, <1>p, <2>1
<1>6. l \in 1 .. Len(s)
  <2>1. l \in 1 .. l
    BY <1>4
  <2> QED
    BY <1>5, <2>1
<1>7. /\ r \in Seq(Byte)
      /\ Len(r) = Len(s) - l
      /\ \A i \in 1 .. Len(s) - l : r[i] = s[l + i]
  <2>1. \A i \in l + 1 .. Len(s) : s[i] \in Byte
    BY <1>1, <1>4
  <2>2. /\ r \in Seq(Byte)
        /\ Len(r) = IF l + 1 <= Len(s) THEN Len(s) - (l + 1) + 1 ELSE 0
        /\ \A i \in 1 .. Len(s) - (l + 1) + 1 : r[i] = s[l + 1 + i - 1]
    BY <1>1, <1>4, <1>q, <2>1, SubSeqProperties
  <2>3. Len(r) = Len(s) - l /\ Len(s) - (l + 1) + 1 = Len(s) - l
    BY <1>1, <1>4, <1>6, <2>2
  <2>4. \A i \in 1 .. Len(s) - l : l + 1 + i - 1 = l + i
    BY <1>4
  <2> QED
    BY <2>2, <2>3, <2>4
<1>8. ASSUME NEW i \in l + 1 .. Len(s), NEW j \in 1 .. s[i].len
      PROVE  i - s[i].at + j > l
  <2>1. i \in 1 .. Len(s) /\ i \in Int /\ s[i].at \in Int /\ s[i].at >= 1 /\ j \in Int /\ j >= 1 /\ i > l
    BY <1>1, <1>4
  <2>2. PICK p : p = i - s[i].at + j
    OBVIOUS
  <2>3. p \in 1 .. Len(s) /\ s[p] = [num |-> s[i].num, at |-> j, len |-> s[i].len]
    BY <1>3, <2>1, <2>2
  <2> SUFFICES ASSUME p <= l
               PROVE  FALSE
    BY <1>4, <2>1, <2>2, <2>3
  <2>4. s[p] = [num |-> n + 1, at |-> p, len |-> l]
    BY <1>4, <1>5, <2>3
  <2>5. j = p /\ s[i].len = l
    BY <2>3, <2>4
  <2>6. s[i].at <= l
    BY <1>3, <2>1, <2>5
  <2> QED
    BY <1>4, <2>1, <2>2, <2>5, <2>6, SMTT(40)
<1>9. WholeRequests(r)
  <2> SUFFICES ASSUME NEW i \in 1 .. Len(r)
               PROVE  /\ r[i].at <= r[i].len
                      /\ \A j \in 1 .. r[i].len :
                           /\ i - r[i].at + j \in 1 .. Len(r)
                           /\ r[i - r[i].at + j] = [num |-> r[i].num, at |-> j, len |-> r[i].len]
    BY DEF WholeRequests
  <2>1. /\ r[i] = s[l + i] /\ l + i \in l + 1 .. Len(s) /\ l + i \in 1 .. Len(s) /\ i \in Int
        /\ s[l + i].at \in Int /\ s[l + i].len \in Int
    BY <1>1, <1>4, <1>7, SMTT(40)
  <2>2. r[i].at <= r[i].len
    BY <1>3, <2>1
  <2>3. ASSUME NEW j \in 1 .. r[i].len
        PROVE  /\ i - r[i].at + j \in 1 .. Len(r)
               /\ r[i - r[i].at + j] = [num |-> r[i].num, at |-> j, len |-> r[i].len]
    <3>1. PICK p : p = (l + i) - s[l + i].at + j
      OBVIOUS
    <3>2. /\ p \in 1 .. Len(s)
          /\ s[p] = [num |-> s[l + i].num, at |-> j, len |-> s[l + i].len]
      BY <1>3, <2>1, <3>1
    <3>3. p > l
      BY <1>8, <2>1, <3>1
    <3>a. PICK a : a = s[l + i].at
      OBVIOUS
    <3>b. a \in Int /\ r[i].at = a /\ p = (l + i) - a + j /\ j \in Int
      BY <2>1, <3>1, <3>a
    <3>c. i - a + j = p - l
      BY <1>4, <2>1, <3>b, SMTT(40)
    <3>d. p - l \in 1 .. Len(r) /\ l + (p - l) = p
      BY <1>1, <1>4, <1>7, <3>2, <3>3
    <3>4. i - r[i].at + j = p - l /\ p - l \in 1 .. Len(r) /\ l + (p - l) = p
      BY <3>b, <3>c, <3>d
    <3>5. r[p - l] = s[p]
      BY <1>7, <3>4
    <3> QED
      BY <2>1, <3>2, <3>4, <3>5
  <2> QED
    BY <2>2, <2>3
<1>10. ASSUME r = <<>> PROVE Framed(r, n + 1, m)
  <2>1. Len(s) = l
    BY <1>1, <1>4, <1>7, <1>10, EmptySeq
  <2>2. m = n + 1
    BY <1>2, <1>4, <1>5, <2>1
  <2> QED
    BY <1>9, <1>10, <2>2 DEF Framed
<1>11. ASSUME r # <<>> PROVE Framed(r, n + 1, m)
  <2>1. Len(r) >= 1 /\ Len(s) > l
    BY <1>1, <1>4, <1>7, <1>11, EmptySeq
  <2>2. r[1].num = n + 2 /\ r[1].at = 1
    <3>1. l \in 1 .. Len(s) - 1 /\ l \in 1 .. l /\ 1 \in 1 .. Len(s) - l
      BY <1>1, <1>4, <2>1
    <3>2. Follows(s[l], s[l + 1]) /\ s[l] = [num |-> n + 1, at |-> l, len |-> l] /\ r[1] = s[l + 1]
      BY <1>2, <1>5, <1>7, <3>1
    <3> QED
      BY <1>4, <3>2 DEF Follows
  <2>3. ASSUME NEW i \in 1 .. Len(r) - 1
        PROVE  Follows(r[i], r[i + 1])
    <3>1. /\ i \in 1 .. Len(s) - l /\ i + 1 \in 1 .. Len(s) - l
          /\ l + i \in 1 .. Len(s) - 1 /\ l + (i + 1) = (l + i) + 1
      BY <1>1, <1>4, <1>7
    <3> QED
      BY <1>2, <1>7, <3>1
  <2>4. r[Len(r)].num = m /\ r[Len(r)].at = r[Len(r)].len
    <3>1. Len(r) \in 1 .. Len(s) - l /\ l + Len(r) = Len(s)
      BY <1>1, <1>4, <1>7, <2>1
    <3> QED
      BY <1>2, <1>7, <3>1
  <2> QED
    BY <1>4, <1>9, <1>11, <2>2, <2>3, <2>4 DEF Framed, Last
<1>12. l \in 1 .. Len(s) /\ Framed(r, n + 1, m)
  BY <1>6, <1>10, <1>11
<1> QED
  BY <1>12, <1>p, <1>q DEF Rest

-----------------------------------------------------------------------------
(***************************************************************************)
(* Connections and clients.                                                *)
(***************************************************************************)

\* None is none of the things it stands for the absence of.
LEMMA NoneApart ==
  /\ None \notin Conns /\ None \notin Fds /\ None \notin Cells /\ None # 0
  /\ NoTask \notin Task
BY ServerAssumption DEF Conns, Fds, Cells, NoTask, Task

\* A client that is there, and a descriptor that is open.
LEMMA RegistryFacts ==
  ASSUME TypeOK, RegistryExact
  PROVE  /\ \A c \in Cells : krclient[c] # None =>
              /\ krclient[c] \in Client
              /\ krclient[c].fd \in Fds
              /\ krclient[c].inbuf \in Seq(Byte)
              /\ events[krclient[c].fd] = c
              /\ fds[krclient[c].fd] \in Conns
         /\ \A f \in Fds : events[f] # None =>
              /\ events[f] \in Cells
              /\ krclient[events[f]] # None
              /\ krclient[events[f]].fd = f
              /\ fds[f] \in Conns
<1>1. \A f \in Fds : events[f] # None =>
        /\ events[f] \in Cells
        /\ krclient[events[f]] # None
        /\ krclient[events[f]].fd = f
        /\ fds[f] \in Conns
  BY DEF TypeOK, RegistryExact
<1>2. ASSUME NEW c \in Cells, krclient[c] # None
      PROVE  /\ krclient[c] \in Client
             /\ krclient[c].fd \in Fds
             /\ krclient[c].inbuf \in Seq(Byte)
             /\ events[krclient[c].fd] = c
  <2>1. krclient[c] \in Client
    BY <1>2 DEF TypeOK
  <2>2. krclient[c].fd \in Fds /\ krclient[c].inbuf \in Seq(Byte)
    BY <2>1 DEF Client
  <2> QED
    BY <1>2, <2>1, <2>2 DEF RegistryExact
<1> QED
  BY <1>1, <1>2, NoneApart

\* kr_list_remove takes the client itself, although it compares descriptors.
LEMMA UnlistExact ==
  ASSUME TypeOK, RegistryExact, NEW c \in Cells, krclient[c] # None
  PROVE  /\ Unlist(c) \in Seq(Cells)
         /\ ToSet(Unlist(c)) = ToSet(clients) \ {c}
         /\ IsInjective(Unlist(c))
<1>0. clients \in Seq(Cells) /\ IsInjective(clients) /\ c \in ToSet(clients)
  BY DEF TypeOK, RegistryExact
<1>1. /\ Len(clients) \in Nat
      /\ ToSet(clients) = {clients[j] : j \in 1 .. Len(clients)}
      /\ \A j, k \in 1 .. Len(clients) : clients[j] = clients[k] => j = k
  BY <1>0, SetOfList
<1>2. PICK i \in 1 .. Len(clients) : clients[i] = c
  BY <1>0, <1>1
<1>3. ASSUME NEW j \in 1 .. Len(clients), krclient[clients[j]].fd = krclient[c].fd
      PROVE  j = i
  <2>1. clients[j] \in ToSet(clients)
    BY <1>1
  <2>2. events[krclient[clients[j]].fd] = clients[j] /\ events[krclient[c].fd] = c
    BY <1>0, <2>1 DEF RegistryExact
  <2> QED
    BY <1>1, <1>2, <1>3, <2>2
<1>4. SelectInSeq(clients, LAMBDA d : krclient[d].fd = krclient[c].fd) = i
  <2>1. {j \in 1 .. Len(clients) : krclient[clients[j]].fd = krclient[c].fd} = {i}
    BY <1>2, <1>3
  <2>2. Min({i}) = i
    BY DEF Min
  <2> QED
    BY <2>1, <2>2 DEF SelectInSeq
<1>5. Unlist(c) = RemoveAt(clients, i)
  BY <1>2, <1>4 DEF Unlist, RemoveFirstMatch
<1> QED
  BY <1>0, <1>2, <1>5, RemoveAtSet

\* A step that leaves the registry alone.
LEMMA RegistryFrame ==
  ASSUME RegistryExact, UNCHANGED <<fds, events, clients, krclient>>
  PROVE  RegistryExact'
BY DEF RegistryExact

\* A step that changes the input buffer of a client.
LEMMA RegistryBuffer ==
  ASSUME TypeOK, RegistryExact, NEW c \in Cells, krclient[c] # None, NEW x \in Seq(Byte),
         krclient' = [krclient EXCEPT ![c].inbuf = x], UNCHANGED <<fds, events, clients>>
  PROVE  /\ RegistryExact'
         /\ krclient'[c] = [fd |-> krclient[c].fd, inbuf |-> x]
         /\ \A d \in Cells : d # c => krclient'[d] = krclient[d]
         /\ \A d \in Cells : krclient'[d] = None <=> krclient[d] = None
         /\ \A d \in Cells : krclient[d] # None => krclient'[d].fd = krclient[d].fd
<1>1. krclient[c] \in Client /\ krclient[c].fd \in Fds
  BY RegistryFacts
<1>2. krclient \in [Cells -> Client \cup {None}]
  BY DEF TypeOK
<1>3. krclient'[c] = [krclient[c] EXCEPT !.inbuf = x] /\ \A d \in Cells : d # c => krclient'[d] = krclient[d]
  BY <1>2
<1>4. krclient'[c] = [fd |-> krclient[c].fd, inbuf |-> x]
  BY <1>1, <1>3 DEF Client
<1>5. krclient'[c] \in Client
  BY <1>1, <1>4 DEF Client
<1>6. \A d \in Cells : krclient'[d] = None <=> krclient[d] = None
  BY <1>3, <1>5, NullAssumption
<1>7. \A d \in Cells : krclient[d] # None => krclient'[d].fd = krclient[d].fd
  BY <1>3, <1>4
<1>8. clients \in Seq(Cells) /\ ToSet(clients) \subseteq Cells
  BY SetOfList DEF TypeOK
<1>9. RegistryExact'
  <2>1. \A f \in Fds : events[f] # None => krclient'[events[f]] # None /\ krclient'[events[f]].fd = f
    BY <1>6, <1>7, RegistryFacts
  <2>2. \A d \in Cells : krclient'[d] # None <=> d \in ToSet(clients)
    BY <1>6 DEF RegistryExact
  <2>3. \A d \in ToSet(clients) : events[krclient'[d].fd] = d
    BY <1>7, <1>8 DEF RegistryExact
  <2> QED
    BY <2>1, <2>2, <2>3 DEF RegistryExact
<1> QED
  BY <1>3, <1>4, <1>6, <1>7, <1>9

\* kr_server_on_connect.
LEMMA RegistryConnect ==
  ASSUME TypeOK, RegistryExact, NEW k \in Conns, NEW f \in Fds, NEW c \in Cells, OnConnect(k, f, c)
  PROVE  RegistryExact'
<1>1. /\ fds[f] = None /\ krclient[c] = None /\ events[f] = None
      /\ fds' = [fds EXCEPT ![f] = k]
      /\ events' = [events EXCEPT ![f] = c]
      /\ krclient' = [krclient EXCEPT ![c] = [fd |-> f, inbuf |-> <<>>]]
      /\ clients' = Append(clients, c)
  BY DEF OnConnect, RegistryExact
<1>2. /\ fds'[f] = k /\ \A g \in Fds : g # f => fds'[g] = fds[g]
      /\ events'[f] = c /\ \A g \in Fds : g # f => events'[g] = events[g]
      /\ krclient'[c] = [fd |-> f, inbuf |-> <<>>]
      /\ \A d \in Cells : d # c => krclient'[d] = krclient[d]
  BY <1>1 DEF TypeOK
<1>3. krclient'[c] # None /\ krclient'[c].fd = f
  <2>1. <<>> \in Seq(Byte)
    BY EmptySeq
  <2>2. [fd |-> f, inbuf |-> <<>>] \in Client
    BY <2>1 DEF Client
  <2> QED
    BY <1>2, <2>2, NullAssumption
<1>4. clients \in Seq(Cells) /\ ToSet(clients) \subseteq Cells /\ c \notin ToSet(clients)
  BY <1>1, SetOfList DEF TypeOK, RegistryExact
<1>5. ToSet(clients') = ToSet(clients) \cup {c} /\ IsInjective(clients')
  BY <1>1, <1>4, AppendSet DEF RegistryExact
<1>6. \A d \in ToSet(clients) : krclient[d] # None /\ krclient[d].fd # f /\ krclient[d].fd \in Fds
  BY <1>1, <1>4, NoneApart, RegistryFacts DEF RegistryExact
<1>7. \A g \in Fds : events'[g] # None <=> fds'[g] # None
  BY <1>2, NoneApart DEF RegistryExact
<1>8. \A g \in Fds : events'[g] # None => krclient'[events'[g]] # None /\ krclient'[events'[g]].fd = g
  BY <1>1, <1>2, <1>3, RegistryFacts
<1>9. \A d \in Cells : krclient'[d] # None <=> d \in ToSet(clients')
  BY <1>2, <1>3, <1>5 DEF RegistryExact
<1>10. \A d \in ToSet(clients') : events'[krclient'[d].fd] = d
  <2>1. \A d \in ToSet(clients) : d # c /\ krclient'[d] = krclient[d]
    BY <1>2, <1>4
  <2>2. \A d \in ToSet(clients) : events'[krclient'[d].fd] = d
    BY <1>2, <1>6, <2>1 DEF RegistryExact
  <2> QED
    BY <1>2, <1>3, <1>5, <2>2
<1> QED
  BY <1>5, <1>7, <1>8, <1>9, <1>10 DEF RegistryExact

\* kr_client_free.
LEMMA RegistryFree ==
  ASSUME TypeOK, RegistryExact, NEW c \in Cells, krclient[c] # None, ClientFree(c)
  PROVE  /\ RegistryExact'
         /\ clients' \in Seq(Cells)
         /\ krclient'[c] = None /\ \A d \in Cells : d # c => krclient'[d] = krclient[d]
         /\ fds'[krclient[c].fd] = None /\ events'[krclient[c].fd] = None
         /\ \A g \in Fds : g # krclient[c].fd => fds'[g] = fds[g] /\ events'[g] = events[g]
         /\ link' = [link EXCEPT ![fds[krclient[c].fd]] = "gone"]
<1>0. PICK f : f = krclient[c].fd
  OBVIOUS
<1>1. /\ f \in Fds /\ events[f] = c /\ fds[f] \in Conns
      /\ clients' = Unlist(c)
      /\ events' = [events EXCEPT ![f] = None]
      /\ fds' = [fds EXCEPT ![f] = None]
      /\ link' = [link EXCEPT ![fds[f]] = "gone"]
      /\ krclient' = [krclient EXCEPT ![c] = None]
  BY <1>0, RegistryFacts DEF ClientFree
<1>2. /\ fds'[f] = None /\ \A g \in Fds : g # f => fds'[g] = fds[g]
      /\ events'[f] = None /\ \A g \in Fds : g # f => events'[g] = events[g]
      /\ krclient'[c] = None
      /\ \A d \in Cells : d # c => krclient'[d] = krclient[d]
  BY <1>1 DEF TypeOK
<1>3. /\ clients' \in Seq(Cells)
      /\ ToSet(clients') = ToSet(clients) \ {c}
      /\ IsInjective(clients')
  BY <1>1, UnlistExact
<1>4. clients \in Seq(Cells) /\ ToSet(clients) \subseteq Cells
  BY SetOfList DEF TypeOK
<1>5. \A g \in Fds : events'[g] # None <=> fds'[g] # None
  BY <1>2 DEF RegistryExact
<1>6. \A g \in Fds : events'[g] # None => krclient'[events'[g]] # None /\ krclient'[events'[g]].fd = g
  <2> SUFFICES ASSUME NEW g \in Fds, events'[g] # None
               PROVE  krclient'[events'[g]] # None /\ krclient'[events'[g]].fd = g
    OBVIOUS
  <2>1. g # f /\ events'[g] = events[g]
    BY <1>2
  <2>2. events[g] \in Cells /\ krclient[events[g]] # None /\ krclient[events[g]].fd = g
    BY <2>1, RegistryFacts
  <2>3. events[g] # c
    BY <1>0, <2>1, <2>2
  <2> QED
    BY <1>2, <2>1, <2>2, <2>3
<1>7. \A d \in Cells : krclient'[d] # None <=> d \in ToSet(clients')
  BY <1>2, <1>3 DEF RegistryExact
<1>8. \A d \in ToSet(clients') : events'[krclient'[d].fd] = d
  <2> SUFFICES ASSUME NEW d \in ToSet(clients')
               PROVE  events'[krclient'[d].fd] = d
    OBVIOUS
  <2>1. d \in Cells /\ d # c /\ d \in ToSet(clients) /\ krclient'[d] = krclient[d]
    BY <1>2, <1>3, <1>4
  <2>2. krclient[d] # None /\ krclient[d].fd \in Fds /\ events[krclient[d].fd] = d
    BY <2>1, RegistryFacts DEF RegistryExact
  <2>3. krclient[d].fd # f
    BY <1>1, <2>1, <2>2
  <2> QED
    BY <1>2, <2>1, <2>2, <2>3
<1>9. RegistryExact'
  BY <1>3, <1>5, <1>6, <1>7, <1>8 DEF RegistryExact
<1> QED
  BY <1>0, <1>1, <1>2, <1>3, <1>9

-----------------------------------------------------------------------------
(***************************************************************************)
(* Reading, parsing and writing.                                           *)
(***************************************************************************)

\* What is read goes from the one end of the input to the other.
LEMMA ReadSplit ==
  ASSUME NEW b \in Seq(Byte), NEW u \in Seq(Byte), NEW n \in 1 .. Len(u)
  PROVE  /\ b \o SubSeq(u, 1, n) \in Seq(Byte)
         /\ Len(b \o SubSeq(u, 1, n)) = Len(b) + n
         /\ SubSeq(u, n + 1, Len(u)) \in Seq(Byte)
         /\ (b \o SubSeq(u, 1, n)) \o SubSeq(u, n + 1, Len(u)) = b \o u
<1>1. Len(u) \in Nat /\ n \in Nat /\ n >= 1 /\ n <= Len(u) /\ \A i \in 1 .. Len(u) : u[i] \in Byte
  OBVIOUS
<1>2. PICK x : x = SubSeq(u, 1, n)
  OBVIOUS
<1>3. PICK y : y = SubSeq(u, n + 1, Len(u))
  OBVIOUS
<1>4. x \in Seq(Byte) /\ Len(x) = n
  <2>1. \A i \in 1 .. n : u[i] \in Byte
    BY <1>1
  <2> QED
    BY <1>1, <1>2, <2>1, SubSeqProperties
<1>5. y \in Seq(Byte)
  <2>1. \A i \in n + 1 .. Len(u) : u[i] \in Byte
    BY <1>1
  <2> QED
    BY <1>1, <1>3, <2>1, SubSeqProperties
<1>6. x \o y = u
  <2>1. 1 \in 1 .. Len(u) + 1 /\ n \in 1 - 1 .. Len(u) /\ Len(u) \in n .. Len(u)
    BY <1>1
  <2>2. x \o y = SubSeq(u, 1, Len(u))
    BY <1>2, <1>3, <2>1, ConcatAdjacentSubSeq
  <2> QED
    BY <2>2, SubSeqFull
<1>7. b \o x \in Seq(Byte) /\ Len(b \o x) = Len(b) + Len(x)
  BY <1>4, ConcatProperties
<1>8. (b \o x) \o y = b \o (x \o y)
  BY <1>4, <1>5, ConcatAssociative, SMTT(40)
<1> QED
  BY <1>2, <1>3, <1>4, <1>5, <1>6, <1>7, <1>8

\* Taking the first request out of the buffer takes it out of the input.
LEMMA RestOfInput ==
  ASSUME NEW b \in Seq(Byte), NEW u \in Seq(Byte), b # <<>>, b[1].len \in 1 .. Len(b)
  PROVE  /\ Rest(b) \in Seq(Byte)
         /\ Len(Rest(b)) <= Len(b)
         /\ (b \o u)[1] = b[1] /\ b \o u \in Seq(Byte) /\ b \o u # <<>>
         /\ Rest(b) \o u = Rest(b \o u)
<1>0. PICK l : l = b[1].len
  OBVIOUS
<1>1. /\ Len(b) \in Nat /\ Len(u) \in Nat /\ l \in Nat /\ 1 <= l /\ l <= Len(b)
      /\ \A i \in 1 .. Len(b) : b[i] \in Byte
  BY <1>0
<1>2. PICK x : x = SubSeq(b, l + 1, Len(b))
  OBVIOUS
<1>3. /\ x \in Seq(Byte) /\ Len(x) = Len(b) - l
      /\ \A i \in 1 .. Len(b) - l : x[i] = b[l + i]
  <2>1. \A i \in l + 1 .. Len(b) : b[i] \in Byte
    BY <1>1
  <2>2. /\ x \in Seq(Byte)
        /\ Len(x) = IF l + 1 <= Len(b) THEN Len(b) - (l + 1) + 1 ELSE 0
        /\ \A i \in 1 .. Len(b) - (l + 1) + 1 : x[i] = b[l + 1 + i - 1]
    BY <1>1, <1>2, <2>1, SubSeqProperties
  <2>3. Len(x) = Len(b) - l /\ Len(b) - (l + 1) + 1 = Len(b) - l
    BY <1>1, <2>2
  <2>4. \A i \in 1 .. Len(b) - l : l + 1 + i - 1 = l + i
    BY <1>1
  <2> QED
    BY <2>2, <2>3, <2>4
<1>4. PICK z : z = b \o u
  OBVIOUS
<1>5. /\ z \in Seq(Byte) /\ Len(z) = Len(b) + Len(u)
      /\ \A i \in 1 .. Len(b) : z[i] = b[i]
      /\ \A i \in 1 .. Len(u) : z[Len(b) + i] = u[i]
  BY <1>4, JoinPositions
<1>6. z[1] = b[1] /\ z # <<>>
  BY <1>1, <1>5
<1>7. PICK y : y = SubSeq(z, l + 1, Len(z))
  OBVIOUS
<1>8. /\ y \in Seq(Byte) /\ Len(y) = Len(z) - l
      /\ \A i \in 1 .. Len(z) - l : y[i] = z[l + i]
  <2>0. Len(z) \in Nat /\ l <= Len(z)
    BY <1>1, <1>5
  <2>1. \A i \in l + 1 .. Len(z) : z[i] \in Byte
    BY <1>1, <1>5
  <2>2. /\ y \in Seq(Byte)
        /\ Len(y) = IF l + 1 <= Len(z) THEN Len(z) - (l + 1) + 1 ELSE 0
        /\ \A i \in 1 .. Len(z) - (l + 1) + 1 : y[i] = z[l + 1 + i - 1]
    BY <1>1, <1>7, <2>0, <2>1, SubSeqProperties
  <2>3. Len(y) = Len(z) - l /\ Len(z) - (l + 1) + 1 = Len(z) - l
    BY <1>1, <2>0, <2>2
  <2>4. \A i \in 1 .. Len(z) - l : l + 1 + i - 1 = l + i
    BY <1>1
  <2> QED
    BY <2>2, <2>3, <2>4
<1>9. PICK v : v = x \o u
  OBVIOUS
<1>10. /\ v \in Seq(Byte) /\ Len(v) = Len(x) + Len(u)
       /\ \A i \in 1 .. Len(x) : v[i] = x[i]
       /\ \A i \in 1 .. Len(u) : v[Len(x) + i] = u[i]
  <2>1. x \in Seq(Byte)
    BY <1>3
  <2> QED
    BY <1>9, <2>1, JoinPositions
<1>11. v = y
  <2>1. Len(v) = Len(y)
    BY <1>1, <1>3, <1>5, <1>8, <1>10
  <2>2. ASSUME NEW i \in 1 .. Len(v)
        PROVE  v[i] = y[i]
    <3>1. CASE i <= Len(b) - l
      <4>1. i \in 1 .. Len(x) /\ i \in 1 .. Len(b) - l /\ i \in 1 .. Len(z) - l /\ l + i \in 1 .. Len(b)
        BY <1>1, <1>3, <1>5, <3>1
      <4> QED
        BY <1>3, <1>5, <1>8, <1>10, <4>1
    <3>2. CASE i > Len(b) - l
      <4>1. PICK d : d = i - (Len(b) - l)
        OBVIOUS
      <4>2. d \in 1 .. Len(u) /\ Len(x) + d = i /\ Len(b) + d = l + i /\ i \in 1 .. Len(z) - l
        BY <1>1, <1>3, <1>5, <1>10, <3>2, <4>1
      <4>3. v[Len(x) + d] = u[d] /\ z[Len(b) + d] = u[d] /\ y[i] = z[l + i]
        BY <1>5, <1>8, <1>10, <4>2
      <4> QED
        BY <4>2, <4>3
    <3> QED
      BY <1>1, <3>1, <3>2
  <2> QED
    BY <1>8, <1>10, <2>1, <2>2, SeqEqual
<1>12. Rest(b) = x /\ Rest(z) = y
  BY <1>0, <1>2, <1>6, <1>7 DEF Rest
<1>13. Len(x) <= Len(b)
  BY <1>1, <1>3
<1> QED
  BY <1>3, <1>4, <1>5, <1>6, <1>9, <1>11, <1>12, <1>13

\* kr_server_on_read: bytes go from what is unread to the input buffer.
LEMMA ReadFacts ==
  ASSUME TypeOK, RegistryExact, NEW f \in Fds, NEW n \in 1 .. BufferMaxLen, OnRead(f, n)
  PROVE  /\ fds[f] \in Conns /\ events[f] \in Cells /\ krclient[events[f]] # None
         /\ krclient[events[f]].fd = f
         /\ RegistryExact'
         /\ krclient' \in [Cells -> Client \cup {None}]
         /\ \A d \in Cells : krclient'[d] # None => Len(krclient'[d].inbuf) <= BufferMaxLen
         /\ unread' \in [Conns -> Seq(Byte)]
         /\ krclient'[events[f]].inbuf \o unread'[fds[f]] = krclient[events[f]].inbuf \o unread[fds[f]]
         /\ \A d \in Cells : d # events[f] => krclient'[d] = krclient[d]
         /\ \A d \in Cells : krclient'[d] = None <=> krclient[d] = None
         /\ \A d \in Cells : krclient[d] # None => krclient'[d].fd = krclient[d].fd
         /\ \A j \in Conns : j # fds[f] => unread'[j] = unread[j]
         /\ parsing = None /\ parsing' = events[f]
         /\ UNCHANGED <<fds, link, events, clients, pending, running, done, writing, left, received,
                        sent, handed, orphan, pipelined>>
<1>1. PICK c : c = events[f]
  OBVIOUS
<1>2. PICK k : k = fds[f]
  OBVIOUS
<1>3. /\ parsing = None /\ c # None /\ n <= Room(c) /\ n <= Len(unread[k])
      /\ krclient' = [krclient EXCEPT ![c].inbuf = @ \o SubSeq(unread[k], 1, n)]
      /\ unread' = [unread EXCEPT ![k] = SubSeq(@, n + 1, Len(@))]
      /\ parsing' = c
      /\ UNCHANGED <<fds, link, events, clients, pending, running, done, writing, left, received,
                     sent, handed, orphan, pipelined>>
  BY <1>1, <1>2 DEF OnRead, engine, output
<1>4. c \in Cells /\ krclient[c] # None /\ krclient[c].fd = f /\ k \in Conns
  BY <1>1, <1>2, <1>3, RegistryFacts
<1>5. /\ krclient[c] \in Client /\ krclient[c].inbuf \in Seq(Byte) /\ unread[k] \in Seq(Byte)
      /\ krclient[c].fd \in Fds
  BY <1>4, RegistryFacts DEF TypeOK
<1>6. PICK x : x = krclient[c].inbuf \o SubSeq(unread[k], 1, n)
  OBVIOUS
<1>7. PICK y : y = SubSeq(unread[k], n + 1, Len(unread[k]))
  OBVIOUS
<1>8. n \in 1 .. Len(unread[k]) /\ n \in Nat
  BY <1>3, <1>5, ServerAssumption
<1>9. /\ x \in Seq(Byte) /\ Len(x) = Len(krclient[c].inbuf) + n /\ y \in Seq(Byte)
      /\ x \o y = krclient[c].inbuf \o unread[k]
  BY <1>5, <1>6, <1>7, <1>8, ReadSplit
<1>10. Len(x) <= BufferMaxLen
  <2>1. PICK m : m = Len(krclient[c].inbuf)
    OBVIOUS
  <2>2. m \in Nat /\ n <= BufferMaxLen - m /\ Len(x) = m + n
    BY <1>3, <1>5, <1>9, <2>1 DEF Room
  <2> QED
    BY <1>8, <2>2, ServerAssumption
<1>11. krclient' = [krclient EXCEPT ![c].inbuf = x] /\ unread' = [unread EXCEPT ![k] = y]
  BY <1>3, <1>4, <1>6, <1>7 DEF TypeOK
<1>12. /\ unread' \in [Conns -> Seq(Byte)]
       /\ unread'[k] = y /\ \A j \in Conns : j # k => unread'[j] = unread[j]
  BY <1>4, <1>9, <1>11 DEF TypeOK
<1>13. /\ RegistryExact'
       /\ krclient'[c] = [fd |-> krclient[c].fd, inbuf |-> x]
       /\ \A d \in Cells : d # c => krclient'[d] = krclient[d]
       /\ \A d \in Cells : krclient'[d] = None <=> krclient[d] = None
       /\ \A d \in Cells : krclient[d] # None => krclient'[d].fd = krclient[d].fd
  BY <1>3, <1>4, <1>9, <1>11, RegistryBuffer
<1>14. krclient'[c] \in Client /\ krclient'[c].inbuf = x
  BY <1>5, <1>9, <1>13 DEF Client
<1>15. krclient' \in [Cells -> Client \cup {None}]
  BY <1>4, <1>11, <1>13, <1>14 DEF TypeOK
<1>16. \A d \in Cells : krclient'[d] # None => Len(krclient'[d].inbuf) <= BufferMaxLen
  BY <1>10, <1>13, <1>14 DEF TypeOK
<1> QED
  BY <1>1, <1>2, <1>3, <1>4, <1>9, <1>12, <1>13, <1>14, <1>15, <1>16

\* The loop takes request t of connection k from the buffer of its client.
Taken(f, k, buf, t) ==
  /\ parsing \in Cells /\ krclient[parsing] # None
  /\ f = krclient[parsing].fd /\ k = fds[f] /\ buf = krclient[parsing].inbuf
  /\ t.client = parsing /\ t.conn = k
  /\ events[f] = parsing
  /\ Rest(buf) \in Seq(Byte) /\ Len(Rest(buf)) <= Len(buf)
  /\ t.num = handed[k] + 1 /\ t.num \in 1 .. MaxRequests
  /\ Framed(Rest(buf) \o unread[k], handed[k] + 1, sent[k])
  /\ krclient' = [krclient EXCEPT ![parsing].inbuf = Rest(buf)]
  /\ pending' = pending \o <<t>>
  /\ handed' = [handed EXCEPT ![k] = @ + 1]
  /\ pipelined' = (pipelined \/ Outstanding(parsing) # {})
  /\ UNCHANGED <<fds, link, unread, events, clients, parsing, running, done,
                 writing, left, received, sent, orphan>>

\* What the loop finds when it takes a request: the next one of the connection.
LEMMA ParseFacts ==
  ASSUME TypeOK, RegistryExact, ConnInv, FrameInv, ParseMessage
  PROVE  \E f \in Fds, k \in Conns, buf \in Seq(Byte), t \in Task : Taken(f, k, buf, t)
<1>f. PICK f : f = krclient[parsing].fd
  OBVIOUS
<1>k. PICK k : k = fds[f]
  OBVIOUS
<1>b. PICK buf : buf = krclient[parsing].inbuf
  OBVIOUS
<1>t. PICK t : t = [client |-> parsing, conn |-> k, num |-> buf[1].num]
  OBVIOUS
<1>1. parsing \in Cells /\ krclient[parsing] # None
  BY DEF ParseMessage, TypeOK, ConnInv
<1>2. f \in Fds /\ k \in Conns /\ events[f] = parsing /\ buf \in Seq(Byte)
  BY <1>1, <1>f, <1>k, <1>b, RegistryFacts
<1>3. ~ NeedData(buf)
  BY <1>b DEF ParseMessage
<1>4. buf # <<>> /\ ~ (Len(buf) < buf[1].len)
  BY <1>3 DEF NeedData
<1>5. buf[1] \in Byte /\ Len(buf) \in Nat
  BY <1>2, <1>4, EmptySeq
<1>6. buf[1].len \in 1 .. Len(buf) /\ buf[1].num \in 1 .. MaxRequests
  BY <1>4, <1>5 DEF Byte
<1>7. unread[k] \in Seq(Byte) /\ handed[k] \in Nat /\ sent[k] \in Nat
  BY <1>2 DEF TypeOK
<1>8. PICK z : z = buf \o unread[k]
  OBVIOUS
<1>9. /\ Rest(buf) \in Seq(Byte) /\ Len(Rest(buf)) <= Len(buf)
      /\ z[1] = buf[1] /\ z \in Seq(Byte) /\ z # <<>>
      /\ Rest(buf) \o unread[k] = Rest(z)
  BY <1>2, <1>4, <1>6, <1>7, <1>8, RestOfInput
<1>10. Framed(z, handed[k], sent[k])
  <2>1. events[f] # None
    BY <1>1, <1>2, NoneApart
  <2>2. Framed(Input(f), handed[k], sent[k])
    BY <1>2, <1>k, <2>1 DEF FrameInv
  <2> QED
    BY <1>2, <1>8, <1>k, <1>b, <2>2 DEF Input
<1>11. z[1].num = handed[k] + 1 /\ Framed(Rest(z), handed[k] + 1, sent[k])
  <2>1. Framed(Rest(z), handed[k] + 1, sent[k])
    BY <1>7, <1>9, <1>10, FramedParse
  <2> QED
    BY <1>9, <1>10, <2>1 DEF Framed
<1>12. t \in Task /\ t.client = parsing /\ t.conn = k /\ t.num = handed[k] + 1 /\ t.num \in 1 .. MaxRequests
  BY <1>1, <1>2, <1>6, <1>9, <1>11, <1>t DEF Task
<1>13. /\ krclient' = [krclient EXCEPT ![parsing].inbuf = Rest(buf)]
       /\ pending' = pending \o <<t>>
       /\ handed' = [handed EXCEPT ![k] = @ + 1]
       /\ pipelined' = (pipelined \/ Outstanding(parsing) # {})
       /\ UNCHANGED <<fds, link, unread, events, clients, parsing, running, done,
                      writing, left, received, sent, orphan>>
  BY <1>f, <1>k, <1>b, <1>t DEF ParseMessage, Engine!Accept, net, output
<1>14. Taken(f, k, buf, t)
  BY <1>1, <1>2, <1>9, <1>11, <1>12, <1>13, <1>f, <1>k, <1>b DEF Taken
<1> QED
  BY <1>2, <1>12, <1>14

\* The bytes a worker writes: the next of its reply.
LEMMA PartBytes ==
  ASSUME TypeOK, NEW w \in Workers, running[w] # NoTask, NEW n \in 1 .. ReplyLen, n <= left[w]
  PROVE  /\ Part(w, n) \in Seq(ReplyByte)
         /\ Len(Part(w, n)) = n
         /\ \A i \in 1 .. n : Part(w, n)[i] = [conn |-> running[w].conn, num |-> running[w].num,
                                               at |-> ReplyLen - left[w] + i]
<1>1. /\ running[w].conn \in Conns /\ running[w].num \in 1 .. MaxRequests
      /\ left[w] \in 1 .. ReplyLen
  <2>1. running[w] \in Task
    BY DEF TypeOK
  <2> QED
    BY <2>1 DEF TypeOK, Task
<1>2. ReplyLen \in Nat /\ n \in Nat
  BY ServerAssumption
<1>3. \A i \in 1 .. n : ReplyLen - left[w] + i \in 1 .. ReplyLen
  BY <1>1, <1>2
<1>4. \A i \in 1 .. n : [conn |-> running[w].conn, num |-> running[w].num,
                         at |-> ReplyLen - left[w] + i] \in ReplyByte
  BY <1>1, <1>3 DEF ReplyByte
<1>5. Part(w, n) \in Seq(ReplyByte)
  BY <1>2, <1>4, IsASeq DEF Part
<1>6. DOMAIN Part(w, n) = 1 .. n
  BY DEF Part
<1>7. DOMAIN Part(w, n) = 1 .. Len(Part(w, n)) /\ Len(Part(w, n)) \in Nat
  BY <1>5, LenProperties
<1>8. Len(Part(w, n)) = n
  BY <1>2, <1>6, <1>7
<1>9. \A i \in 1 .. n : Part(w, n)[i] = [conn |-> running[w].conn, num |-> running[w].num,
                                         at |-> ReplyLen - left[w] + i]
  BY DEF Part
<1> QED
  BY <1>5, <1>8, <1>9

\* Worker w writes n bytes of its reply to the peer of connection k, and is
\* through or has less left.
Written(w, n, k) ==
  /\ k \in Conns /\ link[k] = "up" /\ running[w] # NoTask /\ running[w] \in Task
  /\ left[w] \in 1 .. ReplyLen /\ n <= left[w] /\ writing[w] \in Fds
  /\ received'[k] \in Seq(ReplyByte)
  /\ Len(received'[k]) = Len(received[k]) + n
  /\ \A i \in 1 .. Len(received[k]) : received'[k][i] = received[k][i]
  /\ \A i \in 1 .. n : received'[k][Len(received[k]) + i] =
       [conn |-> running[w].conn, num |-> running[w].num, at |-> ReplyLen - left[w] + i]
  /\ \A j \in Conns : j # k => received'[j] = received[j]
  /\ received' \in [Conns -> Seq(ReplyByte)]
  /\ n = left[w] => Returns(w)
  /\ n # left[w] => left' = [left EXCEPT ![w] = @ - n] /\ UNCHANGED <<engine, writing>>
  /\ UNCHANGED <<net, registry, parsing, sent, handed, orphan, pipelined>>

\* The bytes of a write go to the connection behind the descriptor.
LEMMA WriteFacts ==
  ASSUME TypeOK, WorkerInv, NEW w \in Workers, NEW n \in 1 .. ReplyLen, Write(w, n)
  PROVE  Written(w, n, fds[writing[w]])
<1>k. PICK k : k = fds[writing[w]]
  OBVIOUS
<1>1. /\ writing[w] # None /\ writing[w] \in Fds /\ fds[writing[w]] # None
      /\ fds[writing[w]] = k /\ link[k] = "up" /\ n <= left[w]
      /\ received' = [received EXCEPT ![k] = @ \o Part(w, n)]
      /\ n = left[w] => Returns(w)
      /\ n # left[w] => left' = [left EXCEPT ![w] = @ - n] /\ UNCHANGED <<engine, writing>>
      /\ UNCHANGED <<net, registry, parsing, sent, handed, orphan, pipelined>>
  BY <1>k DEF Write, Connected
<1>2. running[w] # NoTask /\ running[w] \in Task
  BY <1>1 DEF WorkerInv, TypeOK
<1>3. k \in Conns /\ left[w] \in 1 .. ReplyLen /\ received[k] \in Seq(ReplyByte)
  BY <1>1 DEF TypeOK
<1>4. PICK x : x = Part(w, n)
  OBVIOUS
<1>5. /\ x \in Seq(ReplyByte) /\ Len(x) = n
      /\ \A i \in 1 .. n : x[i] = [conn |-> running[w].conn, num |-> running[w].num,
                                   at |-> ReplyLen - left[w] + i]
  BY <1>1, <1>2, <1>4, PartBytes
<1>6. received'[k] = received[k] \o x /\ \A j \in Conns : j # k => received'[j] = received[j]
  BY <1>1, <1>3, <1>4 DEF TypeOK
<1>7. PICK r : r = received[k] \o x
  OBVIOUS
<1>8. /\ r \in Seq(ReplyByte)
      /\ Len(r) = Len(received[k]) + Len(x)
      /\ \A i \in 1 .. Len(received[k]) : r[i] = received[k][i]
      /\ \A i \in 1 .. Len(x) : r[Len(received[k]) + i] = x[i]
  <2>1. x \in Seq(ReplyByte)
    BY <1>5
  <2>2. received[k] \in Seq(ReplyByte)
    BY <1>3
  <2> QED
    BY <1>7, <2>1, <2>2, JoinPositions
<1>9. /\ \A i \in 1 .. n : r[Len(received[k]) + i] =
           [conn |-> running[w].conn, num |-> running[w].num, at |-> ReplyLen - left[w] + i]
      /\ Len(r) = Len(received[k]) + n
  BY <1>5, <1>8
<1>10. received' \in [Conns -> Seq(ReplyByte)]
  BY <1>1, <1>3, <1>4, <1>7, <1>8 DEF TypeOK
<1> QED
  BY <1>1, <1>2, <1>3, <1>6, <1>7, <1>8, <1>9, <1>10 DEF Written

-----------------------------------------------------------------------------
(***************************************************************************)
(* Each part of the invariant is kept by every step.                       *)
(***************************************************************************)

\* The descriptor a worker finds is one, or 0.
LEMMA DescriptorRange ==
  ASSUME TypeOK, NEW c \in Cells
  PROVE  Descriptor(c) \subseteq Fds \cup {0}
<1>1. krclient[c] # None => krclient[c].fd \in Fds
  BY DEF TypeOK, Client
<1> QED
  BY <1>1 DEF Descriptor

LEMMA TypeStep ==
  ASSUME TypeOK, RegistryExact, ConnInv, FrameInv, WorkerInv, Next
  PROVE  TypeOK'
<1>1. ASSUME NEW k \in Conns, NEW len \in 1 .. MaxLen, Send(k, len)
      PROVE  TypeOK'
  <2>1. PICK b : b = [i \in 1 .. len |-> [num |-> sent[k] + 1, at |-> i, len |-> len]]
    OBVIOUS
  <2>2. sent[k] + 1 \in 1 .. MaxRequests
    BY <1>1, ServerAssumption DEF Send, TypeOK
  <2>3. b \in Seq(Byte)
    BY <2>1, <2>2, RequestBytes
  <2>4. unread[k] \o b \in Seq(Byte)
    BY <2>3, ConcatProperties DEF TypeOK
  <2>5. unread' = [unread EXCEPT ![k] = @ \o b] /\ sent' = [sent EXCEPT ![k] = @ + 1]
    BY <1>1, <2>1 DEF Send
  <2>6. unread' \in [Conns -> Seq(Byte)] /\ sent' \in [Conns -> 0 .. MaxRequests]
    BY <2>2, <2>4, <2>5 DEF TypeOK
  <2>7. UNCHANGED <<fds, link, events, clients, krclient, parsing, pending, running, done,
                    writing, left, received, handed>>
    BY <1>1 DEF Send, registry, engine, output
  <2> QED
    BY <2>6, <2>7 DEF TypeOK
<1>2. ASSUME NEW k \in Conns, HangUp(k) \/ OnConnectFails(k)
      PROVE  TypeOK'
  <2>1. link' \in [Conns -> {"new", "up", "down", "gone"}]
    BY <1>2 DEF HangUp, OnConnectFails, TypeOK
  <2>2. UNCHANGED <<fds, unread, events, clients, krclient, parsing, pending, running, done,
                    writing, left, received, sent, handed>>
    BY <1>2 DEF HangUp, OnConnectFails, registry, engine, output
  <2> QED
    BY <2>1, <2>2 DEF TypeOK
<1>3. ASSUME NEW k \in Conns, NEW f \in Fds, NEW c \in Cells, OnConnect(k, f, c)
      PROVE  TypeOK'
  <2>1. /\ fds' = [fds EXCEPT ![f] = k]
        /\ link' = [link EXCEPT ![k] = "up"]
        /\ krclient' = [krclient EXCEPT ![c] = [fd |-> f, inbuf |-> <<>>]]
        /\ events' = [events EXCEPT ![f] = c]
        /\ clients' = Append(clients, c)
        /\ UNCHANGED <<unread, parsing, pending, running, done, writing, left, received, sent, handed>>
    BY <1>3 DEF OnConnect, engine, output
  <2>2. <<>> \in Seq(Byte) /\ Len(<<>>) = 0
    BY EmptySeq
  <2>3. [fd |-> f, inbuf |-> <<>>] \in Client
    BY <2>2 DEF Client
  <2>4. krclient' \in [Cells -> Client \cup {None}]
    BY <2>1, <2>3 DEF TypeOK
  <2>5. clients' \in Seq(Cells)
    BY <2>1, AppendSet DEF TypeOK
  <2>6. \A d \in Cells : krclient'[d] # None => Len(krclient'[d].inbuf) <= BufferMaxLen
    <3>1. krclient'[c].inbuf = <<>> /\ \A d \in Cells : d # c => krclient'[d] = krclient[d]
      BY <2>1 DEF TypeOK
    <3>2. 0 <= BufferMaxLen
      BY ServerAssumption
    <3>3. Len(krclient'[c].inbuf) <= BufferMaxLen
      BY <2>2, <3>1, <3>2
    <3> QED
      BY <3>1, <3>3 DEF TypeOK
  <2>7. /\ fds' \in [Fds -> Conns \cup {None}]
        /\ link' \in [Conns -> {"new", "up", "down", "gone"}]
        /\ events' \in [Fds -> Cells \cup {None}]
    BY <2>1 DEF TypeOK
  <2> QED
    BY <2>1, <2>4, <2>5, <2>6, <2>7 DEF TypeOK
<1>4. ASSUME NEW f \in Fds, NEW n \in 1 .. BufferMaxLen, OnRead(f, n)
      PROVE  TypeOK'
  <2>1. /\ krclient' \in [Cells -> Client \cup {None}]
        /\ \A d \in Cells : krclient'[d] # None => Len(krclient'[d].inbuf) <= BufferMaxLen
        /\ unread' \in [Conns -> Seq(Byte)]
        /\ parsing' \in Cells
        /\ UNCHANGED <<fds, link, events, clients, pending, running, done, writing, left, received,
                       sent, handed>>
    BY <1>4, ReadFacts
  <2> QED
    BY <2>1 DEF TypeOK
<1>5. ASSUME NEW f \in Fds, OnReadEnds(f)
      PROVE  TypeOK'
  <2>1. PICK c : c = events[f]
    OBVIOUS
  <2>2. /\ c # None /\ ClientFree(c)
        /\ UNCHANGED <<unread, parsing, pending, running, done, writing, left, received, sent, handed>>
    BY <1>5, <2>1 DEF OnReadEnds, engine, output
  <2>3. c \in Cells /\ krclient[c] # None
    BY <2>1, <2>2, RegistryFacts
  <2>4. clients' \in Seq(Cells)
    BY <2>2, <2>3, RegistryFree
  <2>5. /\ fds' \in [Fds -> Conns \cup {None}]
        /\ link' \in [Conns -> {"new", "up", "down", "gone"}]
        /\ events' \in [Fds -> Cells \cup {None}]
    BY <2>2 DEF ClientFree, TypeOK
  <2>6. krclient' \in [Cells -> Client \cup {None}]
    BY <2>2 DEF ClientFree, TypeOK
  <2>7. \A d \in Cells : krclient'[d] # None => Len(krclient'[d].inbuf) <= BufferMaxLen
    BY <2>2, <2>3, RegistryFree DEF TypeOK
  <2> QED
    BY <2>2, <2>4, <2>5, <2>6, <2>7 DEF TypeOK
<1>6. ASSUME ParseMessage
      PROVE  TypeOK'
  <2>p. PICK f \in Fds, k \in Conns, buf \in Seq(Byte), t \in Task : Taken(f, k, buf, t)
    BY <1>6, ParseFacts
  <2>5. /\ f = krclient[parsing].fd /\ k = fds[f] /\ buf = krclient[parsing].inbuf
        /\ parsing \in Cells /\ krclient[parsing] # None
        /\ Rest(buf) \in Seq(Byte) /\ Len(Rest(buf)) <= Len(buf)
        /\ t.num = handed[k] + 1 /\ t.num \in 1 .. MaxRequests
        /\ krclient' = [krclient EXCEPT ![parsing].inbuf = Rest(buf)]
        /\ pending' = pending \o <<t>>
        /\ handed' = [handed EXCEPT ![k] = @ + 1]
        /\ UNCHANGED <<fds, link, unread, events, clients, parsing, running, done,
                       writing, left, received, sent>>
    BY <2>p DEF Taken
  <2>6. handed' \in [Conns -> 0 .. MaxRequests]
    BY <2>5 DEF TypeOK
  <2>7. pending' \in Seq(Task)
    <3>1. <<t>> \in Seq(Task)
      BY <2>5
    <3> QED
      BY <2>5, <3>1, ConcatProperties DEF TypeOK
  <2>8. /\ krclient'[parsing] = [fd |-> krclient[parsing].fd, inbuf |-> Rest(buf)]
        /\ \A d \in Cells : d # parsing => krclient'[d] = krclient[d]
    BY <2>5, RegistryBuffer
  <2>9. krclient'[parsing] \in Client /\ krclient'[parsing].inbuf = Rest(buf)
    <3>1. krclient[parsing].fd \in Fds
      BY <2>5, RegistryFacts
    <3> QED
      BY <2>5, <2>8, <3>1 DEF Client
  <2>10. krclient' \in [Cells -> Client \cup {None}]
    BY <2>5, <2>8, <2>9 DEF TypeOK
  <2>11. Len(Rest(buf)) <= BufferMaxLen
    <3>1. Len(buf) <= BufferMaxLen
      BY <2>5 DEF TypeOK
    <3> QED
      BY <2>5, <3>1, ServerAssumption
  <2>12. \A d \in Cells : krclient'[d] # None => Len(krclient'[d].inbuf) <= BufferMaxLen
    BY <2>8, <2>9, <2>11 DEF TypeOK
  <2> QED
    BY <2>5, <2>6, <2>7, <2>10, <2>12 DEF TypeOK
<1>7. ASSUME ParseEnds
      PROVE  TypeOK'
  BY <1>7 DEF ParseEnds, TypeOK, net, registry, engine, output
<1>8. ASSUME NEW w \in Workers, Start(w)
      PROVE  TypeOK'
  <2>1. /\ pending # <<>>
        /\ running' = [running EXCEPT ![w] = Head(pending)]
        /\ pending' = Tail(pending)
        /\ UNCHANGED <<fds, link, unread, events, clients, krclient, parsing, done,
                       writing, left, received, sent, handed>>
    BY <1>8 DEF Start, Engine!Start, net, registry, output
  <2>2. Head(pending) \in Task /\ Tail(pending) \in Seq(Task)
    BY <2>1, HeadTailProperties DEF TypeOK
  <2> QED
    BY <2>1, <2>2 DEF TypeOK
<1>9. ASSUME NEW w \in Workers, WriteResp(w)
      PROVE  TypeOK'
  <2>1. /\ running[w] # NoTask
        /\ UNCHANGED <<fds, link, unread, events, clients, krclient, parsing, pending, running,
                       done, left, received, sent, handed>>
    BY <1>9 DEF WriteResp, net, registry, engine
  <2>2. PICK f \in Descriptor(running[w].client) : writing' = [writing EXCEPT ![w] = f]
    BY <1>9 DEF WriteResp
  <2>3. running[w].client \in Cells
    BY <2>1 DEF TypeOK, Task
  <2>4. f \in Fds \cup {0}
    BY <2>2, <2>3, DescriptorRange
  <2> QED
    BY <2>1, <2>2, <2>4 DEF TypeOK
<1>10. ASSUME NEW w \in Workers, Returns(w)
       PROVE  /\ running' \in [Workers -> Task \cup {NoTask}]
              /\ done' \subseteq Task
              /\ pending' \in Seq(Task)
              /\ writing' \in [Workers -> Fds \cup {0, None}]
              /\ left' \in [Workers -> 1 .. ReplyLen]
  <2>1. ReplyLen \in 1 .. ReplyLen
    BY ServerAssumption
  <2> QED
    BY <1>10, <2>1 DEF Returns, Engine!Finish, TypeOK
<1>11. ASSUME NEW w \in Workers, NEW n \in 1 .. ReplyLen, Write(w, n)
       PROVE  TypeOK'
  <2>1. /\ left[w] \in 1 .. ReplyLen /\ n <= left[w]
        /\ received' \in [Conns -> Seq(ReplyByte)]
        /\ n = left[w] => Returns(w)
        /\ n # left[w] => left' = [left EXCEPT ![w] = @ - n] /\ UNCHANGED <<engine, writing>>
        /\ UNCHANGED <<net, registry, parsing, sent, handed, orphan, pipelined>>
    BY <1>11, WriteFacts DEF Written
  <2>2. /\ running' \in [Workers -> Task \cup {NoTask}]
        /\ done' \subseteq Task
        /\ pending' \in Seq(Task)
        /\ writing' \in [Workers -> Fds \cup {0, None}]
        /\ left' \in [Workers -> 1 .. ReplyLen]
    <3>1. CASE n = left[w]
      BY <1>10, <2>1, <3>1
    <3>2. CASE n # left[w]
      <4>1. left[w] - n \in 1 .. ReplyLen
        BY <2>1, <3>2, ServerAssumption
      <4> QED
        BY <2>1, <3>2, <4>1 DEF TypeOK, engine
    <3> QED
      BY <3>1, <3>2
  <2> QED
    BY <2>1, <2>2 DEF TypeOK, net, registry
<1>12. ASSUME NEW w \in Workers, WriteFails(w)
       PROVE  TypeOK'
  <2>1. Returns(w) /\ UNCHANGED <<net, registry, parsing, received, sent, handed>>
    BY <1>12 DEF WriteFails
  <2> QED
    BY <1>10, <2>1 DEF TypeOK, net, registry
<1> QED
  BY <1>1, <1>2, <1>3, <1>4, <1>5, <1>6, <1>7, <1>8, <1>9, <1>11, <1>12
  DEF Next, PeerStep, Connect, ReadStep, ParseStep, WorkerStep

\* The registry stays exact (kr_server_on_connect, kr_client_free).
LEMMA RegistryStep ==
  ASSUME TypeOK, RegistryExact, ConnInv, FrameInv, Next
  PROVE  RegistryExact'
<1>1. ASSUME NEW k \in Conns, PeerStep(k) \/ OnConnectFails(k)
      PROVE  RegistryExact'
  BY <1>1, RegistryFrame DEF PeerStep, Send, HangUp, OnConnectFails, registry
<1>2. ASSUME NEW k \in Conns, NEW f \in Fds, NEW c \in Cells, OnConnect(k, f, c)
      PROVE  RegistryExact'
  BY <1>2, RegistryConnect
<1>3. ASSUME NEW f \in Fds, NEW n \in 1 .. BufferMaxLen, OnRead(f, n)
      PROVE  RegistryExact'
  BY <1>3, ReadFacts
<1>4. ASSUME NEW f \in Fds, OnReadEnds(f)
      PROVE  RegistryExact'
  <2>1. events[f] \in Cells /\ krclient[events[f]] # None /\ ClientFree(events[f])
    BY <1>4, RegistryFacts DEF OnReadEnds
  <2> QED
    BY <2>1, RegistryFree
<1>5. ASSUME ParseMessage
      PROVE  RegistryExact'
  <2>p. PICK f \in Fds, k \in Conns, buf \in Seq(Byte), t \in Task : Taken(f, k, buf, t)
    BY <1>5, ParseFacts
  <2>2. /\ f = krclient[parsing].fd /\ k = fds[f] /\ buf = krclient[parsing].inbuf
        /\ parsing \in Cells /\ krclient[parsing] # None /\ Rest(buf) \in Seq(Byte)
        /\ krclient' = [krclient EXCEPT ![parsing].inbuf = Rest(buf)]
        /\ UNCHANGED <<fds, events, clients>>
    BY <2>p DEF Taken
  <2> QED
    BY <2>2, RegistryBuffer
<1>6. ASSUME ParseEnds
      PROVE  RegistryExact'
  BY <1>6, RegistryFrame DEF ParseEnds, net, registry
<1>7. ASSUME NEW w \in Workers, Start(w) \/ WorkerStep(w)
      PROVE  RegistryExact'
  BY <1>7, RegistryFrame DEF Start, WorkerStep, WriteResp, Write, WriteFails, net, registry
<1> QED
  BY <1>1, <1>2, <1>3, <1>4, <1>5, <1>6, <1>7
  DEF Next, PeerStep, Connect, ReadStep, ParseStep

\* A connection has one descriptor, an open one.
LEMMA ConnStep ==
  ASSUME TypeOK, RegistryExact, ConnInv, FrameInv, WorkerInv, Next
  PROVE  ConnInv'
<1>1. ASSUME NEW k \in Conns, PeerStep(k)
      PROVE  ConnInv'
  <2>1. /\ link[k] = "up"
        /\ link' = link \/ link' = [link EXCEPT ![k] = "down"]
        /\ \A j \in Conns : j # k => unread'[j] = unread[j] /\ sent'[j] = sent[j]
        /\ UNCHANGED <<fds, krclient, parsing, handed, received>>
    BY <1>1 DEF PeerStep, Send, HangUp, registry, output, TypeOK
  <2>2. \A j \in Conns : link'[j] = link[j] \/ (j = k /\ link'[j] = "down")
    BY <2>1 DEF TypeOK
  <2>3. \A f \in Fds : fds[f] # None => fds[f] \in Conns
    BY DEF TypeOK
  <2> QED
    BY <2>1, <2>2, <2>3 DEF ConnInv
<1>2. ASSUME NEW k \in Conns, OnConnectFails(k)
      PROVE  ConnInv'
  <2>1. /\ link[k] = "new" /\ link' = [link EXCEPT ![k] = "gone"]
        /\ UNCHANGED <<fds, krclient, parsing, unread, sent, handed, received>>
    BY <1>2 DEF OnConnectFails, Arriving, registry, output
  <2>2. \A j \in Conns : (j # k /\ link'[j] = link[j]) \/ (j = k /\ link'[j] = "gone")
    BY <2>1 DEF TypeOK
  <2>3. \A f \in Fds : fds[f] # None => fds[f] \in Conns
    BY DEF TypeOK
  <2> QED
    BY <2>1, <2>2, <2>3 DEF ConnInv
<1>3. ASSUME NEW k \in Conns, NEW f \in Fds, NEW c \in Cells, OnConnect(k, f, c)
      PROVE  ConnInv'
  <2>1. /\ parsing = None /\ link[k] = "new"
        /\ fds' = [fds EXCEPT ![f] = k]
        /\ link' = [link EXCEPT ![k] = "up"]
        /\ UNCHANGED <<parsing, unread, sent, handed, received>>
    BY <1>3 DEF OnConnect, Arriving, output
  <2>2. /\ fds'[f] = k /\ \A g \in Fds : g # f => fds'[g] = fds[g]
        /\ link'[k] = "up" /\ \A j \in Conns : j # k => link'[j] = link[j]
    BY <2>1 DEF TypeOK
  <2>3. \A g \in Fds : fds[g] # None => fds[g] \in Conns /\ fds[g] # k
    BY <2>1 DEF ConnInv, TypeOK
  <2> QED
    BY <2>1, <2>2, <2>3 DEF ConnInv
<1>4. ASSUME NEW f \in Fds, NEW n \in 1 .. BufferMaxLen, OnRead(f, n)
      PROVE  ConnInv'
  <2>1. /\ fds[f] \in Conns /\ fds[f] # None /\ events[f] \in Cells /\ krclient[events[f]] # None
        /\ \A d \in Cells : krclient'[d] = None <=> krclient[d] = None
        /\ \A j \in Conns : j # fds[f] => unread'[j] = unread[j]
        /\ parsing' = events[f]
        /\ UNCHANGED <<fds, link, sent, handed, received>>
    BY <1>4, ReadFacts, NoneApart, ZenonT(40)
  <2>2. link[fds[f]] # "new"
    BY <2>1 DEF ConnInv
  <2> QED
    BY <2>1, <2>2 DEF ConnInv
<1>5. ASSUME NEW f \in Fds, OnReadEnds(f)
      PROVE  ConnInv'
  <2>1. /\ events[f] \in Cells /\ krclient[events[f]] # None /\ ClientFree(events[f])
        /\ krclient[events[f]].fd = f /\ fds[f] \in Conns /\ parsing = None
        /\ UNCHANGED <<parsing, unread, sent, handed, received>>
    BY <1>5, RegistryFacts DEF OnReadEnds, output
  <2>2. /\ fds'[f] = None /\ \A g \in Fds : g # f => fds'[g] = fds[g]
        /\ link' = [link EXCEPT ![fds[f]] = "gone"]
    BY <2>1, RegistryFree
  <2>3. \A j \in Conns : (j # fds[f] /\ link'[j] = link[j]) \/ (j = fds[f] /\ link'[j] = "gone")
    BY <2>1, <2>2 DEF TypeOK
  <2>4. \A g \in Fds : fds[g] # None => fds[g] \in Conns
    BY DEF TypeOK
  <2> QED
    BY <2>1, <2>2, <2>3, <2>4, NoneApart DEF ConnInv
<1>6. ASSUME ParseMessage
      PROVE  ConnInv'
  <2>p. PICK f \in Fds, k \in Conns, buf \in Seq(Byte), t \in Task : Taken(f, k, buf, t)
    BY <1>6, ParseFacts
  <2>3. /\ f = krclient[parsing].fd /\ k = fds[f] /\ buf = krclient[parsing].inbuf
        /\ parsing \in Cells /\ krclient[parsing] # None /\ Rest(buf) \in Seq(Byte)
        /\ krclient' = [krclient EXCEPT ![parsing].inbuf = Rest(buf)]
        /\ handed' = [handed EXCEPT ![k] = @ + 1]
        /\ UNCHANGED <<fds, link, unread, events, clients, parsing, received, sent>>
    BY <2>p DEF Taken
  <2>4. krclient'[parsing] # None
    BY <2>3, RegistryBuffer
  <2>5. \A j \in Conns : j # k => handed'[j] = handed[j]
    BY <2>3 DEF TypeOK
  <2>6. link[k] # "new"
    BY <2>3, NoneApart DEF ConnInv
  <2> QED
    BY <2>3, <2>4, <2>5, <2>6 DEF ConnInv
<1>7. ASSUME ParseEnds
      PROVE  ConnInv'
  BY <1>7 DEF ParseEnds, ConnInv, net, registry, output
<1>8. ASSUME NEW w \in Workers, Start(w) \/ WriteResp(w) \/ WriteFails(w)
      PROVE  ConnInv'
  BY <1>8 DEF Start, WriteResp, WriteFails, ConnInv, net, registry, output
<1>9. ASSUME NEW w \in Workers, NEW n \in 1 .. ReplyLen, Write(w, n)
      PROVE  ConnInv'
  <2>1. PICK k : k = fds[writing[w]]
    OBVIOUS
  <2>2. /\ k \in Conns /\ link[k] = "up"
        /\ \A j \in Conns : j # k => received'[j] = received[j]
        /\ UNCHANGED <<fds, link, unread, krclient, parsing, sent, handed>>
    BY <1>9, <2>1, WriteFacts DEF Written, net, registry
  <2> QED
    BY <2>2 DEF ConnInv
<1> QED
  BY <1>1, <1>2, <1>3, <1>4, <1>5, <1>6, <1>7, <1>8, <1>9
  DEF Next, Connect, ReadStep, ParseStep, WorkerStep

\* However the input is cut into reads, requests are taken whole and in order.
LEMMA FrameStep ==
  ASSUME TypeOK, RegistryExact, ConnInv, FrameInv, Next
  PROVE  FrameInv'
<1>0. ASSUME UNCHANGED <<fds, unread, events, krclient, sent, handed>>
      PROVE  FrameInv'
  BY <1>0 DEF FrameInv, Input
<1>1. ASSUME NEW k \in Conns, NEW len \in 1 .. MaxLen, Send(k, len)
      PROVE  FrameInv'
  <2>1. PICK b : b = [i \in 1 .. len |-> [num |-> sent[k] + 1, at |-> i, len |-> len]]
    OBVIOUS
  <2>2. /\ sent[k] < MaxRequests /\ sent[k] \in Nat
        /\ sent' = [sent EXCEPT ![k] = @ + 1]
        /\ unread' = [unread EXCEPT ![k] = @ \o b]
        /\ UNCHANGED <<fds, events, krclient, handed>>
    BY <1>1, <2>1 DEF Send, registry, TypeOK
  <2>3. /\ sent'[k] = sent[k] + 1 /\ unread'[k] = unread[k] \o b
        /\ \A j \in Conns : j # k => sent'[j] = sent[j] /\ unread'[j] = unread[j]
    BY <2>2 DEF TypeOK
  <2> SUFFICES ASSUME NEW f \in Fds, events[f] # None
               PROVE  Framed(krclient[events[f]].inbuf \o unread'[fds[f]], handed[fds[f]], sent'[fds[f]])
    BY <2>2 DEF FrameInv, Input
  <2>4. /\ fds[f] \in Conns
        /\ Framed(krclient[events[f]].inbuf \o unread[fds[f]], handed[fds[f]], sent[fds[f]])
    BY RegistryFacts DEF FrameInv, Input
  <2>5. CASE fds[f] # k
    BY <2>3, <2>4, <2>5
  <2>6. CASE fds[f] = k
    <3>1. PICK x : x = krclient[events[f]].inbuf
      OBVIOUS
    <3>2. PICK s : s = x \o unread[k]
      OBVIOUS
    <3>3. x \in Seq(Byte) /\ unread[k] \in Seq(Byte) /\ handed[k] \in Nat
      <4>1. events[f] \in Cells /\ krclient[events[f]] # None
        BY RegistryFacts
      <4> QED
        BY <3>1, <4>1, RegistryFacts DEF TypeOK
    <3>4. s \in Seq(Byte) /\ Framed(s, handed[k], sent[k])
      BY <2>4, <2>6, <3>1, <3>2, <3>3, ConcatProperties
    <3>5. Framed(s \o b, handed[k], sent[k] + 1)
      BY <2>1, <2>2, <3>3, <3>4, FramedSend
    <3>6. b \in Seq(Byte)
      <4>1. sent[k] + 1 \in 1 .. MaxRequests
        BY <2>2, ServerAssumption
      <4> QED
        BY <2>1, <4>1, RequestBytes
    <3>7. s \o b = x \o (unread[k] \o b)
      <4>1. \A u, v, y \in Seq(Byte) : (u \o v) \o y = u \o (v \o y)
        BY ConcatAssociative, SMTT(40)
      <4> QED
        BY <3>2, <3>3, <3>6, <4>1
    <3> QED
      BY <2>3, <2>6, <3>1, <3>5, <3>7
  <2> QED
    BY <2>5, <2>6
<1>2. ASSUME NEW k \in Conns, HangUp(k) \/ OnConnectFails(k)
      PROVE  FrameInv'
  BY <1>0, <1>2 DEF HangUp, OnConnectFails, registry
<1>3. ASSUME NEW k \in Conns, NEW f \in Fds, NEW c \in Cells, OnConnect(k, f, c)
      PROVE  FrameInv'
  <2>1. /\ link[k] = "new" /\ fds[f] = None /\ krclient[c] = None
        /\ fds' = [fds EXCEPT ![f] = k]
        /\ events' = [events EXCEPT ![f] = c]
        /\ krclient' = [krclient EXCEPT ![c] = [fd |-> f, inbuf |-> <<>>]]
        /\ UNCHANGED <<unread, sent, handed>>
    BY <1>3 DEF OnConnect, Arriving
  <2>2. /\ fds'[f] = k /\ \A g \in Fds : g # f => fds'[g] = fds[g]
        /\ events'[f] = c /\ \A g \in Fds : g # f => events'[g] = events[g]
        /\ krclient'[c] = [fd |-> f, inbuf |-> <<>>]
        /\ \A d \in Cells : d # c => krclient'[d] = krclient[d]
    BY <2>1 DEF TypeOK
  <2>3. unread[k] = <<>> /\ sent[k] = 0 /\ handed[k] = 0
    BY <2>1 DEF ConnInv
  <2>4. Framed(krclient'[c].inbuf \o unread[k], handed[k], sent[k])
    <3>1. krclient'[c].inbuf \o unread[k] = <<>>
      BY <2>2, <2>3, ConcatEmptySeq, EmptySeq
    <3>2. WholeRequests(<<>>)
      BY EmptySeq DEF WholeRequests
    <3> QED
      BY <2>3, <3>1, <3>2 DEF Framed
  <2>5. ASSUME NEW g \in Fds, g # f, events'[g] # None
        PROVE  Framed(krclient'[events'[g]].inbuf \o unread'[fds'[g]], handed'[fds'[g]], sent'[fds'[g]])
    <3>1. events'[g] = events[g] /\ fds'[g] = fds[g] /\ events[g] # c /\ events[g] \in Cells
      BY <2>1, <2>2, <2>5, RegistryFacts
    <3> QED
      BY <2>1, <2>2, <2>5, <3>1 DEF FrameInv, Input
  <2> QED
    BY <2>1, <2>2, <2>4, <2>5 DEF FrameInv, Input
<1>4. ASSUME NEW f \in Fds, NEW n \in 1 .. BufferMaxLen, OnRead(f, n)
      PROVE  FrameInv'
  <2>1. /\ fds[f] \in Conns /\ events[f] \in Cells
        /\ krclient'[events[f]].inbuf \o unread'[fds[f]] = krclient[events[f]].inbuf \o unread[fds[f]]
        /\ \A d \in Cells : d # events[f] => krclient'[d] = krclient[d]
        /\ \A j \in Conns : j # fds[f] => unread'[j] = unread[j]
        /\ UNCHANGED <<fds, events, sent, handed>>
    BY <1>4, ReadFacts
  <2> SUFFICES ASSUME NEW g \in Fds, events[g] # None
               PROVE  Framed(krclient'[events[g]].inbuf \o unread'[fds[g]], handed[fds[g]], sent[fds[g]])
    BY <2>1 DEF FrameInv, Input
  <2>2. /\ fds[g] \in Conns /\ events[g] \in Cells /\ krclient[events[g]].fd = g
        /\ Framed(krclient[events[g]].inbuf \o unread[fds[g]], handed[fds[g]], sent[fds[g]])
    BY RegistryFacts DEF FrameInv, Input
  <2>3. CASE g = f
    BY <2>1, <2>2, <2>3
  <2>4. CASE g # f
    <3>1. krclient[events[f]].fd = f
      BY <1>4, ReadFacts
    <3>2. fds[g] # fds[f] /\ events[g] # events[f]
      BY <2>2, <2>4, <3>1, NoneApart DEF ConnInv
    <3> QED
      BY <2>1, <2>2, <3>2
  <2> QED
    BY <2>3, <2>4
<1>5. ASSUME NEW f \in Fds, OnReadEnds(f)
      PROVE  FrameInv'
  <2>1. /\ events[f] \in Cells /\ krclient[events[f]] # None /\ ClientFree(events[f])
        /\ krclient[events[f]].fd = f
        /\ UNCHANGED <<unread, sent, handed>>
    BY <1>5, RegistryFacts DEF OnReadEnds
  <2>2. /\ events'[f] = None /\ \A g \in Fds : g # f => fds'[g] = fds[g] /\ events'[g] = events[g]
        /\ \A d \in Cells : d # events[f] => krclient'[d] = krclient[d]
    BY <2>1, RegistryFree
  <2> SUFFICES ASSUME NEW g \in Fds, events'[g] # None
               PROVE  Framed(krclient'[events'[g]].inbuf \o unread[fds'[g]], handed[fds'[g]], sent[fds'[g]])
    BY <2>1 DEF FrameInv, Input
  <2>3. g # f /\ events'[g] = events[g] /\ fds'[g] = fds[g] /\ events[g] # None
    BY <2>2
  <2>4. events[g] \in Cells /\ krclient[events[g]].fd = g
    BY <2>3, RegistryFacts
  <2>5. krclient'[events[g]] = krclient[events[g]]
    BY <2>1, <2>2, <2>3, <2>4
  <2>6. Framed(krclient[events[g]].inbuf \o unread[fds[g]], handed[fds[g]], sent[fds[g]])
    BY <2>3 DEF FrameInv, Input
  <2> QED
    BY <2>3, <2>5, <2>6
<1>6. ASSUME ParseMessage
      PROVE  FrameInv'
  <2>p. PICK f \in Fds, k \in Conns, buf \in Seq(Byte), t \in Task : Taken(f, k, buf, t)
    BY <1>6, ParseFacts
  <2>4. /\ f = krclient[parsing].fd /\ k = fds[f] /\ buf = krclient[parsing].inbuf
        /\ parsing \in Cells /\ krclient[parsing] # None
        /\ events[f] = parsing /\ Rest(buf) \in Seq(Byte)
        /\ Framed(Rest(buf) \o unread[k], handed[k] + 1, sent[k])
        /\ krclient' = [krclient EXCEPT ![parsing].inbuf = Rest(buf)]
        /\ handed' = [handed EXCEPT ![k] = @ + 1]
        /\ UNCHANGED <<fds, unread, events, clients, sent>>
    BY <2>p DEF Taken
  <2>5. /\ krclient'[parsing].inbuf = Rest(buf)
        /\ \A d \in Cells : d # parsing => krclient'[d] = krclient[d]
    <3>1. /\ krclient'[parsing] = [fd |-> krclient[parsing].fd, inbuf |-> Rest(buf)]
          /\ \A d \in Cells : d # parsing => krclient'[d] = krclient[d]
      BY <2>4, RegistryBuffer
    <3> QED
      BY <3>1
  <2>6. handed'[k] = handed[k] + 1 /\ \A j \in Conns : j # k => handed'[j] = handed[j]
    BY <2>4 DEF TypeOK
  <2> SUFFICES ASSUME NEW g \in Fds, events[g] # None
               PROVE  Framed(krclient'[events[g]].inbuf \o unread[fds[g]], handed'[fds[g]], sent[fds[g]])
    BY <2>4 DEF FrameInv, Input
  <2>7. /\ fds[g] \in Conns /\ events[g] \in Cells /\ krclient[events[g]].fd = g
        /\ Framed(krclient[events[g]].inbuf \o unread[fds[g]], handed[fds[g]], sent[fds[g]])
    BY RegistryFacts DEF FrameInv, Input
  <2>8. CASE g = f
    BY <2>4, <2>5, <2>6, <2>8
  <2>9. CASE g # f
    <3>1. fds[g] # k /\ events[g] # parsing
      BY <2>4, <2>7, <2>9, NoneApart DEF ConnInv
    <3> QED
      BY <2>5, <2>6, <2>7, <3>1
  <2> QED
    BY <2>8, <2>9
<1>7. ASSUME ParseEnds
      PROVE  FrameInv'
  BY <1>0, <1>7 DEF ParseEnds, net, registry
<1>8. ASSUME NEW w \in Workers, Start(w) \/ WorkerStep(w)
      PROVE  FrameInv'
  BY <1>0, <1>8 DEF Start, WorkerStep, WriteResp, Write, WriteFails, net, registry
<1> QED
  BY <1>1, <1>2, <1>3, <1>4, <1>5, <1>6, <1>7, <1>8
  DEF Next, PeerStep, Connect, ReadStep, ParseStep

-----------------------------------------------------------------------------
(***************************************************************************)
(* Tasks.                                                                  *)
(***************************************************************************)

LEMMA TaskTypes ==
  ASSUME TypeOK
  PROVE  /\ Len(pending) \in Nat
         /\ \A t \in Task : t.client \in Cells /\ t.conn \in Conns /\ t.num \in 1 .. MaxRequests
         /\ \A i \in 1 .. Len(pending) : pending[i] \in Task
         /\ \A w \in Workers : running[w] # NoTask => running[w] \in Task
         /\ \A k \in Conns : handed[k] \in Nat /\ received[k] \in Seq(ReplyByte)
         /\ NoTask.conn \notin Conns
<1>1. pending \in Seq(Task)
  BY DEF TypeOK
<1>2. Len(pending) \in Nat /\ \A i \in 1 .. Len(pending) : pending[i] \in Task
  BY <1>1
<1>3. \A t \in Task : t.client \in Cells /\ t.conn \in Conns /\ t.num \in 1 .. MaxRequests
  BY DEF Task
<1>4. NoTask.conn \notin Conns
  BY ServerAssumption DEF NoTask, Conns
<1> QED
  BY <1>2, <1>3, <1>4 DEF TypeOK

\* A worker takes the first task of the line.
LEMMA StartFacts ==
  ASSUME TypeOK, NEW w \in Workers, Start(w)
  PROVE  /\ 1 \in 1 .. Len(pending) /\ running[w] = NoTask
         /\ running'[w] = pending[1] /\ running'[w] \in Task /\ running'[w] # NoTask
         /\ \A v \in Workers : v # w => running'[v] = running[v]
         /\ Len(pending') = Len(pending) - 1
         /\ \A i \in 1 .. Len(pending') : i + 1 \in 1 .. Len(pending) /\ pending'[i] = pending[i + 1]
         /\ UNCHANGED <<fds, link, unread, events, clients, krclient, parsing, done,
                        writing, left, received, sent, handed, orphan, pipelined>>
<1>1. /\ pending # <<>> /\ running[w] = NoTask
      /\ running' = [running EXCEPT ![w] = Head(pending)]
      /\ pending' = Tail(pending)
      /\ UNCHANGED <<fds, link, unread, events, clients, krclient, parsing, done,
                     writing, left, received, sent, handed, orphan, pipelined>>
  BY DEF Start, Engine!Start, net, registry, output
<1>2. pending \in Seq(Task) /\ Len(pending) \in Nat /\ Len(pending) >= 1
  BY <1>1, EmptySeq DEF TypeOK
<1>3. /\ Head(pending) = pending[1] /\ Head(pending) \in Task
      /\ Len(Tail(pending)) = Len(pending) - 1
      /\ \A i \in 1 .. Len(Tail(pending)) : Tail(pending)[i] = pending[i + 1]
  BY <1>1, <1>2, HeadTailProperties
<1>4. \A i \in 1 .. Len(pending) - 1 : i + 1 \in 1 .. Len(pending)
  BY <1>2
<1>5. running'[w] = Head(pending) /\ \A v \in Workers : v # w => running'[v] = running[v]
  BY <1>1 DEF TypeOK
<1> QED
  BY <1>1, <1>2, <1>3, <1>4, <1>5, NoneApart

\* A worker is through with its task.
LEMMA ReturnFacts ==
  ASSUME TypeOK, NEW w \in Workers, Returns(w)
  PROVE  /\ running'[w] = NoTask /\ writing'[w] = None /\ left'[w] = ReplyLen
         /\ \A v \in Workers : v # w =>
              running'[v] = running[v] /\ writing'[v] = writing[v] /\ left'[v] = left[v]
         /\ UNCHANGED pending
BY DEF Returns, Engine!Finish, TypeOK

\* The engine after a step of a worker that writes.
LEMMA AfterWrite ==
  ASSUME TypeOK, WorkerInv, NEW w \in Workers, NEW n \in 1 .. ReplyLen, Write(w, n)
  PROVE  /\ UNCHANGED <<pending, fds, link, krclient, handed, orphan, pipelined>>
         /\ \A v \in Workers : v # w =>
              running'[v] = running[v] /\ writing'[v] = writing[v] /\ left'[v] = left[v]
         /\ \/ running'[w] = NoTask /\ writing'[w] = None /\ left'[w] = ReplyLen /\ n = left[w]
            \/ /\ running'[w] = running[w] /\ writing'[w] = writing[w]
               /\ left'[w] = left[w] - n /\ n < left[w]
<1>1. /\ left[w] \in 1 .. ReplyLen /\ n <= left[w]
      /\ n = left[w] => Returns(w)
      /\ n # left[w] => left' = [left EXCEPT ![w] = @ - n] /\ UNCHANGED <<engine, writing>>
      /\ UNCHANGED <<net, registry, parsing, sent, handed, orphan, pipelined>>
  BY WriteFacts DEF Written
<1>2. UNCHANGED <<fds, link, krclient, handed, orphan, pipelined>>
  BY <1>1 DEF net, registry
<1>3. CASE n = left[w]
  BY <1>1, <1>2, <1>3, ReturnFacts
<1>4. CASE n # left[w]
  <2>1. n < left[w]
    BY <1>1, <1>4, ServerAssumption
  <2>2. left'[w] = left[w] - n /\ \A v \in Workers : v # w => left'[v] = left[v]
    BY <1>1, <1>4 DEF TypeOK
  <2>3. UNCHANGED <<pending, running, writing>>
    BY <1>1, <1>4 DEF engine
  <2> QED
    BY <1>2, <2>1, <2>2, <2>3
<1> QED
  BY <1>3, <1>4

\* WriteResp: the worker has its descriptor.
LEMMA RespFacts ==
  ASSUME TypeOK, NEW w \in Workers, WriteResp(w)
  PROVE  /\ running[w] # NoTask /\ writing[w] = None
         /\ writing'[w] \in Descriptor(running[w].client)
         /\ \A v \in Workers : v # w => writing'[v] = writing[v]
         /\ UNCHANGED <<fds, link, unread, events, clients, krclient, parsing, pending, running,
                        done, left, received, sent, handed, orphan, pipelined>>
BY DEF WriteResp, TypeOK, net, registry, engine

\* Workers write the replies to the tasks they run.
LEMMA WorkerKept ==
  ASSUME TypeOK, WorkerInv, Next
  PROVE  WorkerInv'
<1>0. ASSUME UNCHANGED <<running, writing, left>>
      PROVE  WorkerInv'
  BY <1>0 DEF WorkerInv
<1>1. ASSUME NEW k \in Conns, PeerStep(k) \/ Connect(k)
      PROVE  WorkerInv'
  BY <1>0, <1>1 DEF PeerStep, Send, HangUp, Connect, OnConnect, OnConnectFails, engine, output
<1>2. ASSUME NEW f \in Fds, ReadStep(f)
      PROVE  WorkerInv'
  BY <1>0, <1>2 DEF ReadStep, OnRead, OnReadEnds, engine, output
<1>3. ASSUME ParseStep
      PROVE  WorkerInv'
  BY <1>0, <1>3 DEF ParseStep, ParseMessage, ParseEnds, Engine!Accept, engine, output
<1>4. ASSUME NEW w \in Workers, Start(w)
      PROVE  WorkerInv'
  BY <1>4, StartFacts DEF WorkerInv
<1>5. ASSUME NEW w \in Workers, WriteResp(w)
      PROVE  WorkerInv'
  <2>1. running[w].client \in Cells
    BY <1>5, RespFacts, TaskTypes
  <2>2. writing'[w] # None
    BY <1>5, <2>1, RespFacts, DescriptorRange, NoneApart
  <2> QED
    BY <1>5, <2>2, RespFacts DEF WorkerInv
<1>6. ASSUME NEW w \in Workers, NEW n \in 1 .. ReplyLen, Write(w, n)
      PROVE  WorkerInv'
  <2>1. writing[w] # None
    BY <1>6 DEF Write
  <2> QED
    BY <1>6, <2>1, AfterWrite DEF WorkerInv
<1>7. ASSUME NEW w \in Workers, WriteFails(w)
      PROVE  WorkerInv'
  <2>1. Returns(w)
    BY <1>7 DEF WriteFails
  <2> QED
    BY <2>1, ReturnFacts DEF WorkerInv
<1> QED
  BY <1>1, <1>2, <1>3, <1>4, <1>5, <1>6, <1>7 DEF Next, WorkerStep

\* The line after a request has been put into it.
LEMMA LineGrows ==
  ASSUME TypeOK, NEW t \in Task, pending' = pending \o <<t>>
  PROVE  /\ Len(pending') = Len(pending) + 1
         /\ pending'[Len(pending) + 1] = t
         /\ \A i \in 1 .. Len(pending) : pending'[i] = pending[i]
         /\ \A i \in 1 .. Len(pending') : i \in 1 .. Len(pending) \/ i = Len(pending) + 1
<1>1. pending \in Seq(Task) /\ Len(pending) \in Nat
  BY DEF TypeOK
<1>2. PICK r : r = pending \o <<t>>
  OBVIOUS
<1>3. /\ Len(r) = Len(pending) + 1
      /\ r[Len(pending) + 1] = t
      /\ \A i \in 1 .. Len(pending) : r[i] = pending[i]
  BY <1>1, <1>2
<1>4. \A i \in 1 .. Len(r) : i \in 1 .. Len(pending) \/ i = Len(pending) + 1
  BY <1>1, <1>3
<1> QED
  BY <1>2, <1>3, <1>4

\* No request is with the engine twice.
LEMMA TaskKept ==
  ASSUME TypeOK, RegistryExact, ConnInv, FrameInv, WorkerInv, TaskInv, Next
  PROVE  TaskInv'
<1>0. ASSUME UNCHANGED <<pending, running, handed>>
      PROVE  TaskInv'
  BY <1>0 DEF TaskInv, Apart
<1>1. ASSUME NEW k \in Conns, PeerStep(k) \/ Connect(k)
      PROVE  TaskInv'
  BY <1>0, <1>1 DEF PeerStep, Send, HangUp, Connect, OnConnect, OnConnectFails, engine
<1>2. ASSUME NEW f \in Fds, ReadStep(f)
      PROVE  TaskInv'
  BY <1>0, <1>2 DEF ReadStep, OnRead, OnReadEnds, engine
<1>3. ASSUME ParseEnds
      PROVE  TaskInv'
  BY <1>0, <1>3 DEF ParseEnds, engine
<1>4. ASSUME ParseMessage
      PROVE  TaskInv'
  <2>p. PICK f \in Fds, k \in Conns, buf \in Seq(Byte), t \in Task : Taken(f, k, buf, t)
    BY <1>4, ParseFacts
  <2>1. /\ t.conn = k /\ t.num = handed[k] + 1
        /\ pending' = pending \o <<t>>
        /\ handed' = [handed EXCEPT ![k] = @ + 1]
        /\ running' = running
    BY <2>p DEF Taken
  <2>2. /\ Len(pending') = Len(pending) + 1
        /\ pending'[Len(pending) + 1] = t
        /\ \A i \in 1 .. Len(pending) : pending'[i] = pending[i]
        /\ \A i \in 1 .. Len(pending') : i \in 1 .. Len(pending) \/ i = Len(pending) + 1
    BY <2>1, LineGrows
  <2>3. /\ handed'[k] = handed[k] + 1 /\ handed[k] \in Nat
        /\ \A j \in Conns : handed[j] \in Nat /\ handed'[j] \in Nat /\ handed[j] <= handed'[j]
    BY <2>1 DEF TypeOK
  <2>4. /\ \A i \in 1 .. Len(pending) : pending[i].conn \in Conns /\ pending[i].num \in Nat
        /\ \A w \in Workers : running[w] # NoTask =>
             running[w].conn \in Conns /\ running[w].num \in Nat
    BY TaskTypes
  <2>5. /\ \A i \in 1 .. Len(pending) : Apart(pending[i], t) /\ Apart(t, pending[i])
        /\ \A w \in Workers : running[w] # NoTask => Apart(t, running[w])
    BY <2>1, <2>3, <2>4 DEF TaskInv, Apart
  <2>6. \A i \in 1 .. Len(pending') : pending'[i].num <= handed'[pending'[i].conn]
    <3>1. \A i \in 1 .. Len(pending) : pending[i].num <= handed'[pending[i].conn]
      BY <2>3, <2>4 DEF TaskInv
    <3>2. t.num <= handed'[t.conn]
      BY <2>1, <2>3
    <3> QED
      BY <2>2, <3>1, <3>2
  <2>7. \A w \in Workers : running[w] # NoTask => running[w].num <= handed'[running[w].conn]
    BY <2>3, <2>4 DEF TaskInv
  <2>8. \A i, j \in 1 .. Len(pending') : i # j => Apart(pending'[i], pending'[j])
    BY <2>2, <2>5 DEF TaskInv
  <2>9. \A i \in 1 .. Len(pending'), w \in Workers : running[w] # NoTask => Apart(pending'[i], running[w])
    BY <2>2, <2>5 DEF TaskInv
  <2> QED
    BY <2>1, <2>6, <2>7, <2>8, <2>9 DEF TaskInv, Apart
<1>5. ASSUME NEW w \in Workers, Start(w)
      PROVE  TaskInv'
  <2>1. /\ 1 \in 1 .. Len(pending) /\ running[w] = NoTask /\ running'[w] = pending[1]
        /\ \A v \in Workers : v # w => running'[v] = running[v]
        /\ \A i \in 1 .. Len(pending') : i + 1 \in 1 .. Len(pending) /\ pending'[i] = pending[i + 1]
        /\ handed' = handed
    BY <1>5, StartFacts
  <2>2. \A i \in 1 .. Len(pending') : i + 1 # 1
    OBVIOUS
  <2>3. \A i \in 1 .. Len(pending') : pending'[i].num <= handed'[pending'[i].conn]
    BY <2>1 DEF TaskInv
  <2>4. \A v \in Workers : running'[v] # NoTask => running'[v].num <= handed'[running'[v].conn]
    BY <2>1 DEF TaskInv
  <2>5. \A i, j \in 1 .. Len(pending') : i # j => Apart(pending'[i], pending'[j])
    <3>1. \A i, j \in 1 .. Len(pending') : i # j => i + 1 # j + 1
      OBVIOUS
    <3> QED
      BY <2>1, <3>1 DEF TaskInv
  <2>6. \A i \in 1 .. Len(pending'), v \in Workers : running'[v] # NoTask => Apart(pending'[i], running'[v])
    BY <2>1, <2>2 DEF TaskInv
  <2>7. \A u, v \in Workers :
          u # v /\ running'[u] # NoTask /\ running'[v] # NoTask => Apart(running'[u], running'[v])
    <3>1. \A a, b : Apart(a, b) => Apart(b, a)
      BY DEF Apart
    <3> QED
      BY <2>1, <3>1 DEF TaskInv
  <2> QED
    BY <2>3, <2>4, <2>5, <2>6, <2>7 DEF TaskInv, Apart
<1>6. ASSUME NEW w \in Workers, WriteResp(w)
      PROVE  TaskInv'
  BY <1>0, <1>6, RespFacts
<1>7. ASSUME NEW w \in Workers, UNCHANGED <<pending, handed>>,
             running'[w] = NoTask \/ running'[w] = running[w],
             \A v \in Workers : v # w => running'[v] = running[v]
      PROVE  TaskInv'
  <2>1. \A v \in Workers : running'[v] # NoTask => running[v] # NoTask /\ running'[v] = running[v]
    BY <1>7
  <2> QED
    BY <1>7, <2>1 DEF TaskInv, Apart
<1>8. ASSUME NEW w \in Workers, NEW n \in 1 .. ReplyLen, Write(w, n)
      PROVE  TaskInv'
  BY <1>7, <1>8, AfterWrite
<1>9. ASSUME NEW w \in Workers, WriteFails(w)
      PROVE  TaskInv'
  <2>1. Returns(w) /\ UNCHANGED handed
    BY <1>9 DEF WriteFails
  <2> QED
    BY <1>7, <2>1, ReturnFacts
<1> QED
  BY <1>1, <1>2, <1>3, <1>4, <1>5, <1>6, <1>8, <1>9 DEF Next, ParseStep, WorkerStep

-----------------------------------------------------------------------------
(***************************************************************************)
(* Replies.                                                                *)
(***************************************************************************)

\* A step after which the clients of the tasks are still there keeps HeldInv,
\* if it leaves the engine alone.
LEMMA HeldFrame ==
  ASSUME TypeOK, WorkerInv, HeldInv, UNCHANGED <<pending, running, writing>>, orphan' = orphan,
         \A t \in Task : ClientHeld(t) => ClientHeld(t)' /\ krclient'[t.client].fd = krclient[t.client].fd
  PROVE  HeldInv'
<1> SUFFICES ASSUME ~ orphan
             PROVE  /\ \A i \in 1 .. Len(pending) : ClientHeld(pending[i])'
                    /\ \A w \in Workers : running[w] # NoTask => ClientHeld(running[w])'
                    /\ \A w \in Workers : writing[w] # None => writing[w] = krclient'[running[w].client].fd
  BY DEF HeldInv, ClientHeld
<1>1. /\ \A i \in 1 .. Len(pending) : pending[i] \in Task /\ ClientHeld(pending[i])
      /\ \A w \in Workers : running[w] # NoTask => running[w] \in Task /\ ClientHeld(running[w])
      /\ \A w \in Workers : writing[w] # None =>
           running[w] # NoTask /\ writing[w] = krclient[running[w].client].fd
  BY TaskTypes DEF HeldInv, WorkerInv
<1>2. \A t \in Task : ClientHeld(t) => /\ krclient'[t.client] # None
                                 /\ fds'[krclient'[t.client].fd] = t.conn
                                 /\ krclient'[t.client].fd = krclient[t.client].fd
  BY DEF ClientHeld
<1> QED
  BY <1>1, <1>2 DEF ClientHeld

\* The clients of all tasks stay, until one leaves before its time.
LEMMA HeldKept ==
  ASSUME TypeOK, RegistryExact, ConnInv, FrameInv, WorkerInv, HeldInv, Next
  PROVE  HeldInv'
<1>0. ASSUME UNCHANGED <<pending, running, writing, orphan, krclient, fds>>
      PROVE  HeldInv'
  BY <1>0 DEF HeldInv, ClientHeld
<1>1. ASSUME NEW k \in Conns, PeerStep(k) \/ OnConnectFails(k)
      PROVE  HeldInv'
  BY <1>0, <1>1 DEF PeerStep, Send, HangUp, OnConnectFails, engine, output, registry
<1>2. ASSUME NEW k \in Conns, NEW f \in Fds, NEW c \in Cells, OnConnect(k, f, c)
      PROVE  HeldInv'
  <2>1. /\ fds[f] = None /\ krclient[c] = None
        /\ fds' = [fds EXCEPT ![f] = k]
        /\ krclient' = [krclient EXCEPT ![c] = [fd |-> f, inbuf |-> <<>>]]
        /\ UNCHANGED <<pending, running, writing, orphan>>
    BY <1>2 DEF OnConnect, engine, output
  <2>2. /\ \A g \in Fds : g # f => fds'[g] = fds[g]
        /\ \A d \in Cells : d # c => krclient'[d] = krclient[d]
    BY <2>1 DEF TypeOK
  <2>3. ASSUME NEW t \in Task, ClientHeld(t)
        PROVE  ClientHeld(t)' /\ krclient'[t.client].fd = krclient[t.client].fd
    <3>1. /\ t.client \in Cells /\ t.client # c /\ t.conn \in Conns /\ krclient[t.client] # None
          /\ fds[krclient[t.client].fd] = t.conn
      BY <2>1, <2>3, TaskTypes DEF ClientHeld
    <3>2. krclient[t.client].fd \in Fds /\ krclient[t.client].fd # f
      BY <2>1, <3>1, RegistryFacts, NoneApart
    <3> QED
      BY <2>2, <3>1, <3>2 DEF ClientHeld
  <2> QED
    BY <2>1, <2>3, HeldFrame
<1>3. ASSUME NEW f \in Fds, NEW n \in 1 .. BufferMaxLen, OnRead(f, n)
      PROVE  HeldInv'
  <2>1. /\ \A d \in Cells : krclient'[d] = None <=> krclient[d] = None
        /\ \A d \in Cells : krclient[d] # None => krclient'[d].fd = krclient[d].fd
        /\ UNCHANGED <<fds, pending, running, writing, orphan>>
    BY <1>3, ReadFacts
  <2>2. ASSUME NEW t \in Task, ClientHeld(t)
        PROVE  ClientHeld(t)' /\ krclient'[t.client].fd = krclient[t.client].fd
    BY <2>1, <2>2, TaskTypes DEF ClientHeld
  <2> QED
    BY <2>1, <2>2, HeldFrame
<1>4. ASSUME NEW f \in Fds, OnReadEnds(f)
      PROVE  HeldInv'
  <2>1. PICK c : c = events[f]
    OBVIOUS
  <2>2. /\ c \in Cells /\ krclient[c] # None /\ ClientFree(c) /\ krclient[c].fd = f
        /\ UNCHANGED <<pending, running, writing>>
    BY <1>4, <2>1, RegistryFacts DEF OnReadEnds, engine, output
  <2>3. /\ \A d \in Cells : d # c => krclient'[d] = krclient[d]
        /\ \A g \in Fds : g # f => fds'[g] = fds[g]
    BY <2>2, RegistryFree
  <2> SUFFICES ASSUME ~ orphan'
               PROVE  HeldInv'
    BY DEF HeldInv
  <2>4. ~ orphan /\ Outstanding(c) = {}
    BY <2>2, Zenon DEF ClientFree
  <2>5. /\ \A i \in 1 .. Len(pending) : pending[i].client # c
        /\ \A w \in Workers : running[w].client # c
    <3>1. /\ \A i \in 1 .. Len(pending) : pending[i] \in ToSet(pending)
          /\ \A w \in Workers : running[w] \in {running[v] : v \in Workers}
      BY SetOfList DEF TypeOK
    <3> QED
      BY <2>4, <3>1 DEF Outstanding
  <2>6. ASSUME NEW t \in Task, ClientHeld(t), t.client # c
        PROVE  /\ krclient'[t.client] # None
               /\ fds'[krclient'[t.client].fd] = t.conn
               /\ krclient'[t.client].fd = krclient[t.client].fd
    <3>1. /\ t.client \in Cells /\ krclient[t.client] # None
          /\ fds[krclient[t.client].fd] = t.conn
          /\ krclient'[t.client] = krclient[t.client]
      BY <2>3, <2>6, TaskTypes DEF ClientHeld
    <3>2. krclient[t.client].fd \in Fds /\ events[krclient[t.client].fd] = t.client
      BY <3>1, RegistryFacts
    <3>3. krclient[t.client].fd # f
      BY <2>1, <2>6, <3>2
    <3> QED
      BY <2>3, <3>1, <3>2, <3>3
  <2>7. /\ \A i \in 1 .. Len(pending) : pending[i] \in Task /\ ClientHeld(pending[i])
        /\ \A w \in Workers : running[w] # NoTask => running[w] \in Task /\ ClientHeld(running[w])
        /\ \A w \in Workers : writing[w] # None =>
             running[w] # NoTask /\ writing[w] = krclient[running[w].client].fd
    BY <2>4, TaskTypes DEF HeldInv, WorkerInv
  <2> QED
    BY <2>2, <2>5, <2>6, <2>7 DEF HeldInv, ClientHeld
<1>5. ASSUME ParseMessage
      PROVE  HeldInv'
  <2>p. PICK f \in Fds, k \in Conns, buf \in Seq(Byte), t \in Task : Taken(f, k, buf, t)
    BY <1>5, ParseFacts
  <2>1. /\ parsing \in Cells /\ krclient[parsing] # None /\ Rest(buf) \in Seq(Byte)
        /\ t.client = parsing /\ t.conn = k /\ k = fds[f] /\ f = krclient[parsing].fd
        /\ krclient' = [krclient EXCEPT ![parsing].inbuf = Rest(buf)]
        /\ pending' = pending \o <<t>>
        /\ UNCHANGED <<fds, events, clients, running, writing, orphan>>
    BY <2>p DEF Taken
  <2>2. /\ \A d \in Cells : krclient'[d] = None <=> krclient[d] = None
        /\ \A d \in Cells : krclient[d] # None => krclient'[d].fd = krclient[d].fd
    BY <2>1, RegistryBuffer
  <2>3. /\ pending'[Len(pending) + 1] = t
        /\ \A i \in 1 .. Len(pending) : pending'[i] = pending[i]
        /\ \A i \in 1 .. Len(pending') : i \in 1 .. Len(pending) \/ i = Len(pending) + 1
    BY <2>1, LineGrows
  <2>4. \A u \in Task : krclient[u.client] # None /\ fds[krclient[u.client].fd] = u.conn =>
                        /\ krclient'[u.client] # None
                        /\ fds'[krclient'[u.client].fd] = u.conn
                        /\ krclient'[u.client].fd = krclient[u.client].fd
    BY <2>1, <2>2, TaskTypes
  <2>5. krclient'[t.client] # None /\ fds'[krclient'[t.client].fd] = t.conn
    BY <2>1, <2>4
  <2> SUFFICES ASSUME ~ orphan
               PROVE  HeldInv'
    BY <2>1 DEF HeldInv
  <2>7. /\ \A i \in 1 .. Len(pending) : pending[i] \in Task /\ ClientHeld(pending[i])
        /\ \A w \in Workers : running[w] # NoTask => running[w] \in Task /\ ClientHeld(running[w])
        /\ \A w \in Workers : writing[w] # None =>
             running[w] # NoTask /\ writing[w] = krclient[running[w].client].fd
    BY TaskTypes DEF HeldInv, WorkerInv
  <2>8. \A i \in 1 .. Len(pending') : ClientHeld(pending[i])' \/ pending'[i] = t
    BY <2>3, <2>4, <2>7 DEF ClientHeld
  <2>9. \A i \in 1 .. Len(pending') : krclient'[pending'[i].client] # None
                                      /\ fds'[krclient'[pending'[i].client].fd] = pending'[i].conn
    BY <2>3, <2>4, <2>5, <2>7 DEF ClientHeld
  <2>10. \A w \in Workers : running[w] # NoTask => krclient'[running[w].client] # None
                                      /\ fds'[krclient'[running[w].client].fd] = running[w].conn
    BY <2>4, <2>7 DEF ClientHeld
  <2>11. \A w \in Workers : writing[w] # None => writing[w] = krclient'[running[w].client].fd
    BY <2>4, <2>7 DEF ClientHeld
  <2> QED
    BY <2>1, <2>9, <2>10, <2>11 DEF HeldInv, ClientHeld
<1>6. ASSUME ParseEnds
      PROVE  HeldInv'
  BY <1>0, <1>6 DEF ParseEnds, net, engine, output, registry
<1>7. ASSUME NEW w \in Workers, Start(w)
      PROVE  HeldInv'
  <2>1. writing[w] = None
    BY <1>7, StartFacts DEF WorkerInv
  <2>2. /\ 1 \in 1 .. Len(pending) /\ running'[w] = pending[1]
        /\ \A v \in Workers : v # w => running'[v] = running[v]
        /\ \A i \in 1 .. Len(pending') : i + 1 \in 1 .. Len(pending) /\ pending'[i] = pending[i + 1]
        /\ UNCHANGED <<fds, krclient, writing, orphan>>
    BY <1>7, StartFacts
  <2> SUFFICES ASSUME ~ orphan
               PROVE  HeldInv'
    BY <2>2 DEF HeldInv
  <2>3. \A i \in 1 .. Len(pending') : ClientHeld(pending'[i])
    BY <2>2 DEF HeldInv
  <2>4. \A v \in Workers : running'[v] # NoTask => ClientHeld(running'[v])
    BY <2>2 DEF HeldInv
  <2>5. \A v \in Workers : writing[v] # None => writing[v] = krclient[running'[v].client].fd
    BY <2>1, <2>2 DEF HeldInv
  <2> QED
    BY <2>2, <2>3, <2>4, <2>5 DEF HeldInv, ClientHeld
<1>8. ASSUME NEW w \in Workers, WriteResp(w)
      PROVE  HeldInv'
  <2>1. ~ orphan => writing'[w] = krclient[running[w].client].fd
    BY <1>8, RespFacts DEF HeldInv, ClientHeld, Descriptor
  <2> QED
    BY <1>8, <2>1, RespFacts DEF HeldInv, ClientHeld
<1>9. ASSUME NEW w \in Workers, UNCHANGED <<pending, fds, krclient, orphan>>,
             \/ running'[w] = NoTask /\ writing'[w] = None
             \/ running'[w] = running[w] /\ writing'[w] = writing[w],
             \A v \in Workers : v # w => running'[v] = running[v] /\ writing'[v] = writing[v]
      PROVE  HeldInv'
  BY <1>9 DEF HeldInv, ClientHeld
<1>10. ASSUME NEW w \in Workers, NEW n \in 1 .. ReplyLen, Write(w, n)
       PROVE  HeldInv'
  BY <1>9, <1>10, AfterWrite
<1>11. ASSUME NEW w \in Workers, WriteFails(w)
       PROVE  HeldInv'
  <2>1. Returns(w) /\ UNCHANGED <<fds, krclient, orphan>>
    BY <1>11 DEF WriteFails, net, registry
  <2> QED
    BY <1>9, <2>1, ReturnFacts
<1> QED
  BY <1>1, <1>2, <1>3, <1>4, <1>5, <1>6, <1>7, <1>8, <1>10, <1>11
  DEF Next, PeerStep, Connect, ReadStep, ParseStep, WorkerStep

\* A worker writes to the connection its request came on.
LEMMA WritesToAsker ==
  ASSUME TypeOK, WorkerInv, HeldInv, ~ orphan, NEW w \in Workers, writing[w] # None
  PROVE  fds[writing[w]] = running[w].conn
BY DEF WorkerInv, HeldInv, ClientHeld

\* The bytes of one write: none of them was there, and they are no other
\* task's.
LEMMA ReplyWritten ==
  ASSUME TypeOK, WorkerInv, TaskInv, HeldInv, ReplyInv,
         NEW w \in Workers, NEW n \in 1 .. ReplyLen, Write(w, n)
  PROVE  ReplyInv'
<1>1. /\ UNCHANGED <<pending, handed, orphan>>
      /\ \A v \in Workers : v # w => running'[v] = running[v] /\ left'[v] = left[v]
      /\ \/ running'[w] = NoTask
         \/ running'[w] = running[w] /\ left'[w] = left[w] - n /\ n < left[w]
  BY AfterWrite
<1> SUFFICES ASSUME ~ orphan
             PROVE  ReplyInv'
  BY <1>1 DEF ReplyInv
<1>2. PICK k : k = fds[writing[w]]
  OBVIOUS
<1>3. PICK t : t = running[w]
  OBVIOUS
<1>4. PICK old : old = received[k]
  OBVIOUS
<1>5. PICK new : new = received'[k]
  OBVIOUS
<1>6. PICK p : p = ReplyLen - left[w]
  OBVIOUS
<1>7. /\ k \in Conns /\ t # NoTask /\ t \in Task /\ left[w] \in 1 .. ReplyLen /\ n <= left[w]
      /\ new \in Seq(ReplyByte) /\ Len(new) = Len(old) + n
      /\ \A i \in 1 .. Len(old) : new[i] = old[i]
      /\ \A i \in 1 .. n : new[Len(old) + i] = [conn |-> t.conn, num |-> t.num, at |-> p + i]
      /\ \A j \in Conns : j # k => received'[j] = received[j]
  <2>1. /\ k \in Conns /\ running[w] # NoTask /\ running[w] \in Task
        /\ left[w] \in 1 .. ReplyLen /\ n <= left[w]
        /\ received'[k] \in Seq(ReplyByte)
        /\ Len(received'[k]) = Len(received[k]) + n
        /\ \A i \in 1 .. Len(received[k]) : received'[k][i] = received[k][i]
        /\ \A i \in 1 .. n : received'[k][Len(received[k]) + i] =
             [conn |-> running[w].conn, num |-> running[w].num, at |-> ReplyLen - left[w] + i]
        /\ \A j \in Conns : j # k => received'[j] = received[j]
    <3>1. Written(w, n, k)
      BY <1>2, WriteFacts
    <3> QED
      BY <3>1 DEF Written
  <2> QED
    BY <1>3, <1>4, <1>5, <1>6, <2>1
<1>8. k = t.conn
  <2>1. writing[w] # None
    BY DEF Write
  <2> QED
    BY <1>2, <1>3, <2>1, WritesToAsker
<1>9. /\ old \in Seq(ReplyByte) /\ Len(old) \in Nat /\ n \in Nat /\ p \in Int /\ ReplyLen \in Nat
      /\ t.num \in Nat
  BY <1>4, <1>6, <1>7, TaskTypes, ServerAssumption DEF Task
<1>10. /\ \A a \in 1 .. Len(old) : old[a] \in ReplyByte /\ old[a].conn = k /\ old[a].num <= handed[k]
       /\ \A a \in 1 .. Len(old) : old[a].num = t.num => old[a].at <= p
       /\ \A a, b \in 1 .. Len(old) : old[a] = old[b] => a = b
  <2>1. IsInjective(old)
    BY <1>4, <1>7 DEF ReplyInv
  <2>2. \A a, b \in 1 .. Len(old) : old[a] = old[b] => a = b
    BY <1>9, <2>1, SetOfList
  <2>3. \A a \in 1 .. Len(old) : old[a] \in ReplyByte
    BY <1>9, ElementOfSeq
  <2>4. \A a \in 1 .. Len(old) : old[a].conn = k /\ old[a].num <= handed[k]
    BY <1>4, <1>7 DEF ReplyInv
  <2>5. \A a \in 1 .. Len(old) : old[a].num = t.num => old[a].at <= p
    BY <1>3, <1>4, <1>6, <1>7, <1>8 DEF ReplyInv
  <2> QED
    BY <2>2, <2>3, <2>4, <2>5
<1>11. ASSUME NEW a \in 1 .. Len(new)
       PROVE  \/ a \in 1 .. Len(old) /\ new[a] = old[a]
              \/ /\ a > Len(old)
                 /\ a - Len(old) \in 1 .. n
                 /\ new[a] = [conn |-> k, num |-> t.num, at |-> p + (a - Len(old))]
  <2>1. CASE a <= Len(old)
    BY <1>7, <1>9, <2>1
  <2>2. CASE a > Len(old)
    <3>1. PICK d : d = a - Len(old)
      OBVIOUS
    <3>2. d \in 1 .. n /\ Len(old) + d = a
      BY <1>7, <1>9, <2>2, <3>1
    <3> QED
      BY <1>7, <1>8, <2>2, <3>1, <3>2
  <2> QED
    BY <1>9, <2>1, <2>2
<1>12. t.num <= handed[k]
  BY <1>3, <1>7, <1>8 DEF TaskInv
<1>13. ASSUME NEW a \in 1 .. Len(new)
       PROVE  new[a].conn = k /\ new[a].num <= handed[k]
  <2>1. CASE a \in 1 .. Len(old) /\ new[a] = old[a]
    BY <1>10, <2>1
  <2>2. CASE new[a] = [conn |-> k, num |-> t.num, at |-> p + (a - Len(old))]
    BY <1>12, <2>2
  <2> QED
    BY <1>11, <2>1, <2>2
<1>14. ASSUME NEW a \in 1 .. Len(new), NEW b \in 1 .. Len(new), new[a] = new[b], a <= b
       PROVE  a = b
  <2>1. CASE b <= Len(old)
    <3>1. a \in 1 .. Len(old) /\ b \in 1 .. Len(old)
      BY <1>9, <1>14, <2>1
    <3> QED
      BY <1>7, <1>10, <1>14, <3>1
  <2>2. CASE b > Len(old)
    <3>1. /\ b - Len(old) \in 1 .. n
          /\ new[b] = [conn |-> k, num |-> t.num, at |-> p + (b - Len(old))]
      BY <1>9, <1>11, <2>2
    <3>2. new[b].num = t.num /\ new[b].at = p + (b - Len(old)) /\ new[b].at > p
      BY <1>9, <3>1
    <3>3. CASE a \in 1 .. Len(old) /\ new[a] = old[a]
      <4>1. old[a].at \in Int /\ old[a].at <= p /\ old[a].at > p
        BY <1>10, <1>14, <3>2, <3>3 DEF ReplyByte
      <4> QED
        BY <1>9, <4>1
    <3>4. CASE /\ a > Len(old)
               /\ new[a] = [conn |-> k, num |-> t.num, at |-> p + (a - Len(old))]
      <4>1. p + (a - Len(old)) = p + (b - Len(old))
        BY <1>14, <3>2, <3>4
      <4> QED
        BY <1>7, <1>9, <4>1
    <3> QED
      BY <1>11, <3>3, <3>4
  <2> QED
    BY <1>7, <1>9, <2>1, <2>2
<1>15. IsInjective(new)
  <2>1. Len(new) \in Nat
    BY <1>7
  <2>2. \A a, b \in 1 .. Len(new) : new[a] = new[b] => a = b
    <3> SUFFICES ASSUME NEW a \in 1 .. Len(new), NEW b \in 1 .. Len(new), new[a] = new[b]
                 PROVE  a = b
      OBVIOUS
    <3>1. a <= b \/ b <= a
      BY <2>1
    <3> QED
      BY <1>14, <3>1
  <2> QED
    BY <1>7, <2>2, SetOfList
<1>16. ASSUME NEW u \in Task, Apart(u, t), u.conn = k, NEW a \in 1 .. Len(new), new[a].num = u.num
       PROVE  a \in 1 .. Len(old) /\ new[a] = old[a]
  <2>1. u.num # t.num
    BY <1>8, <1>16 DEF Apart
  <2>2. CASE new[a] = [conn |-> k, num |-> t.num, at |-> p + (a - Len(old))]
    BY <1>16, <2>1, <2>2
  <2> QED
    BY <1>11, <2>2
<1>17. ASSUME NEW i \in 1 .. Len(pending), NEW a \in 1 .. Len(received'[pending[i].conn])
       PROVE  received'[pending[i].conn][a].num # pending[i].num
  <2>1. pending[i] \in Task /\ Apart(pending[i], t) /\ pending[i].conn \in Conns
    BY <1>3, <1>7, TaskTypes DEF TaskInv
  <2>2. CASE pending[i].conn # k
    BY <1>7, <1>17, <2>1, <2>2 DEF ReplyInv
  <2>3. CASE pending[i].conn = k
    <3> SUFFICES ASSUME new[a].num = pending[i].num
                 PROVE  FALSE
      BY <1>5, <2>3
    <3>1. a \in 1 .. Len(old) /\ new[a] = old[a]
      BY <1>5, <1>16, <1>17, <2>1, <2>3
    <3> QED
      BY <1>4, <2>3, <3>1 DEF ReplyInv
  <2> QED
    BY <2>2, <2>3
<1>18. ASSUME NEW v \in Workers, v # w, running[v] # NoTask,
              NEW a \in 1 .. Len(received'[running[v].conn]),
              received'[running[v].conn][a].num = running[v].num
       PROVE  received'[running[v].conn][a].at <= ReplyLen - left[v]
  <2>1. running[v] \in Task /\ Apart(running[v], t) /\ running[v].conn \in Conns
    BY <1>3, <1>7, <1>18, TaskTypes DEF TaskInv
  <2>2. CASE running[v].conn # k
    BY <1>7, <1>18, <2>1, <2>2 DEF ReplyInv
  <2>3. CASE running[v].conn = k
    <3>1. a \in 1 .. Len(old) /\ new[a] = old[a]
      BY <1>5, <1>16, <1>18, <2>1, <2>3
    <3> QED
      BY <1>4, <1>5, <1>18, <2>3, <3>1 DEF ReplyInv
  <2> QED
    BY <2>2, <2>3
<1>19. ASSUME n < left[w], NEW a \in 1 .. Len(new), new[a].num = t.num
       PROVE  new[a].at <= ReplyLen - (left[w] - n)
  <2>0. PICK q : q = ReplyLen - (left[w] - n)
    OBVIOUS
  <2>1. q = p + n /\ q \in Int
    BY <1>6, <1>7, <1>9, <2>0, SMTT(40)
  <2>2. CASE a \in 1 .. Len(old) /\ new[a] = old[a]
    <3>1. old[a].at <= p /\ old[a].at \in Int
      BY <1>10, <1>19, <2>2 DEF ReplyByte
    <3> QED
      BY <1>9, <2>0, <2>1, <2>2, <3>1
  <2>3. CASE /\ a - Len(old) \in 1 .. n
             /\ new[a] = [conn |-> k, num |-> t.num, at |-> p + (a - Len(old))]
    <3>1. new[a].at = p + (a - Len(old)) /\ a - Len(old) <= n
      BY <2>3
    <3>2. p + (a - Len(old)) <= p + n
      BY <1>9, <3>1
    <3> QED
      BY <2>0, <2>1, <3>1, <3>2
  <2> QED
    BY <1>11, <2>2, <2>3
<1>20. \A j \in Conns : \A a \in 1 .. Len(received'[j]) :
         received'[j][a].conn = j /\ received'[j][a].num <= handed[j]
  BY <1>5, <1>7, <1>13, ZenonT(40) DEF ReplyInv
<1>21. \A j \in Conns : IsInjective(received'[j])
  BY <1>5, <1>7, <1>15 DEF ReplyInv
<1>22. \A v \in Workers : running'[v] # NoTask =>
         \A a \in 1 .. Len(received'[running'[v].conn]) :
           received'[running'[v].conn][a].num = running'[v].num =>
             received'[running'[v].conn][a].at <= ReplyLen - left'[v]
  <2> SUFFICES ASSUME NEW v \in Workers, running'[v] # NoTask,
                      NEW a \in 1 .. Len(received'[running'[v].conn]),
                      received'[running'[v].conn][a].num = running'[v].num
               PROVE  received'[running'[v].conn][a].at <= ReplyLen - left'[v]
    OBVIOUS
  <2>1. CASE v # w
    BY <1>1, <1>18, <2>1
  <2>2. CASE v = w
    <3>1. running'[w] = running[w] /\ left'[w] = left[w] - n /\ n < left[w]
      BY <1>1, <2>2
    <3>2. running'[v] = t /\ received'[running'[v].conn] = new
      BY <1>3, <1>5, <1>8, <2>2, <3>1
    <3> QED
      BY <1>19, <2>2, <3>1, <3>2
  <2> QED
    BY <2>1, <2>2
<1> QED
  BY <1>1, <1>17, <1>20, <1>21, <1>22 DEF ReplyInv

\* No byte of a reply goes astray or is written twice.
LEMMA ReplyKept ==
  ASSUME TypeOK, RegistryExact, ConnInv, FrameInv, WorkerInv, TaskInv, HeldInv, ReplyInv, Next
  PROVE  ReplyInv'
<1>0. ASSUME UNCHANGED <<pending, running, left, received, handed>>, orphan' \/ ~ orphan
      PROVE  ReplyInv'
  BY <1>0 DEF ReplyInv
<1>1. ASSUME NEW k \in Conns, PeerStep(k) \/ Connect(k)
      PROVE  ReplyInv'
  BY <1>0, <1>1 DEF PeerStep, Send, HangUp, Connect, OnConnect, OnConnectFails, engine, output, ReplyInv
<1>2. ASSUME NEW f \in Fds, ReadStep(f)
      PROVE  ReplyInv'
  BY <1>0, <1>2 DEF ReadStep, OnRead, OnReadEnds, ClientFree, engine, output, ReplyInv
<1>3. ASSUME ParseEnds
      PROVE  ReplyInv'
  BY <1>0, <1>3 DEF ParseEnds, engine, output, ReplyInv
<1>4. ASSUME ParseMessage
      PROVE  ReplyInv'
  <2>p. PICK f \in Fds, k \in Conns, buf \in Seq(Byte), t \in Task : Taken(f, k, buf, t)
    BY <1>4, ParseFacts
  <2>1. /\ t.conn = k /\ t.num = handed[k] + 1
        /\ pending' = pending \o <<t>>
        /\ handed' = [handed EXCEPT ![k] = @ + 1]
        /\ UNCHANGED <<running, left, received, orphan>>
    BY <2>p DEF Taken
  <2> SUFFICES ASSUME ~ orphan
               PROVE  ReplyInv'
    BY <2>1 DEF ReplyInv
  <2>2. /\ pending'[Len(pending) + 1] = t
        /\ \A i \in 1 .. Len(pending) : pending'[i] = pending[i]
        /\ \A i \in 1 .. Len(pending') : i \in 1 .. Len(pending) \/ i = Len(pending) + 1
    BY <2>1, LineGrows
  <2>3. \A j \in Conns : handed[j] \in Nat /\ handed'[j] \in Nat /\ handed[j] <= handed'[j]
    BY <2>1 DEF TypeOK
  <2>4. \A j \in Conns : \A a \in 1 .. Len(received[j]) :
          received[j][a].num \in Nat /\ received[j][a].num <= handed[j] /\ received[j][a].conn = j
    <3>1. \A j \in Conns : \A a \in 1 .. Len(received[j]) : received[j][a] \in ReplyByte
      BY TaskTypes, ElementOfSeq
    <3>2. \A x \in ReplyByte : x.num \in Nat
      BY DEF ReplyByte
    <3> QED
      BY <3>1, <3>2 DEF ReplyInv
  <2>5. \A a \in 1 .. Len(received[t.conn]) : received[t.conn][a].num # t.num
    BY <2>1, <2>3, <2>4
  <2>6. \A j \in Conns : \A a \in 1 .. Len(received[j]) :
          received[j][a].conn = j /\ received[j][a].num <= handed'[j]
    BY <2>3, <2>4
  <2>7. \A i \in 1 .. Len(pending') : \A a \in 1 .. Len(received[pending'[i].conn]) :
          received[pending'[i].conn][a].num # pending'[i].num
    BY <2>2, <2>5, SMTT(40) DEF ReplyInv
  <2> QED
    BY <2>1, <2>6, <2>7 DEF ReplyInv
<1>5. ASSUME NEW w \in Workers, Start(w)
      PROVE  ReplyInv'
  <2>1. /\ 1 \in 1 .. Len(pending) /\ running'[w] = pending[1]
        /\ \A v \in Workers : v # w => running'[v] = running[v]
        /\ \A i \in 1 .. Len(pending') : i + 1 \in 1 .. Len(pending) /\ pending'[i] = pending[i + 1]
        /\ UNCHANGED <<handed, left, received, orphan>>
    BY <1>5, StartFacts
  <2> SUFFICES ASSUME ~ orphan
               PROVE  ReplyInv'
    BY <2>1 DEF ReplyInv
  <2>2. \A i \in 1 .. Len(pending') : \A a \in 1 .. Len(received[pending'[i].conn]) :
          received[pending'[i].conn][a].num # pending'[i].num
    <3> SUFFICES ASSUME NEW i \in 1 .. Len(pending')
                 PROVE  \A a \in 1 .. Len(received[pending'[i].conn]) :
                          received[pending'[i].conn][a].num # pending'[i].num
      OBVIOUS
    <3>1. PICK j \in 1 .. Len(pending) : pending'[i] = pending[j]
      BY <2>1
    <3> QED
      BY <3>1 DEF ReplyInv
  <2>3. \A a \in 1 .. Len(received[running'[w].conn]) : received[running'[w].conn][a].num # running'[w].num
    BY <2>1 DEF ReplyInv
  <2>4. \A v \in Workers : running'[v] # NoTask =>
          \A a \in 1 .. Len(received[running'[v].conn]) :
            received[running'[v].conn][a].num = running'[v].num =>
              received[running'[v].conn][a].at <= ReplyLen - left[v]
    BY <2>1, <2>3 DEF ReplyInv
  <2> QED
    BY <2>1, <2>2, <2>4 DEF ReplyInv
<1>6. ASSUME NEW w \in Workers, WriteResp(w)
      PROVE  ReplyInv'
  <2>1. UNCHANGED <<pending, running, left, received, handed, orphan>>
    BY <1>6, RespFacts
  <2> QED
    BY <1>0, <2>1 DEF ReplyInv
<1>7. ASSUME NEW w \in Workers, NEW n \in 1 .. ReplyLen, Write(w, n)
      PROVE  ReplyInv'
  BY <1>7, ReplyWritten
<1>8. ASSUME NEW w \in Workers, WriteFails(w)
      PROVE  ReplyInv'
  <2>1. Returns(w) /\ UNCHANGED <<received, handed, orphan>>
    BY <1>8 DEF WriteFails
  <2>2. /\ running'[w] = NoTask /\ pending' = pending
        /\ \A v \in Workers : v # w => running'[v] = running[v] /\ left'[v] = left[v]
    BY <2>1, ReturnFacts
  <2> QED
    BY <2>1, <2>2 DEF ReplyInv
<1> QED
  BY <1>1, <1>2, <1>3, <1>4, <1>5, <1>6, <1>7, <1>8 DEF Next, ParseStep, WorkerStep

-----------------------------------------------------------------------------
(***************************************************************************)
(* The order of the replies.                                               *)
(***************************************************************************)

\* If a client with nothing outstanding hands over a request, its connection
\* has no other.
LEMMA NothingElse ==
  ASSUME TypeOK, RegistryExact, ConnInv, WorkerInv, HeldInv, ~ orphan,
         NEW c \in Cells, krclient[c] # None, Outstanding(c) = {}
  PROVE  /\ \A i \in 1 .. Len(pending) : pending[i].conn # fds[krclient[c].fd]
         /\ \A w \in Workers : running[w].conn # fds[krclient[c].fd]
<1>1. PICK f : f = krclient[c].fd
  OBVIOUS
<1>2. f \in Fds /\ fds[f] \in Conns /\ events[f] = c
  BY <1>1, RegistryFacts
<1>3. ASSUME NEW t \in Task, ClientHeld(t), t.conn = fds[f]
      PROVE  t.client = c
  <2>1. /\ t.client \in Cells /\ krclient[t.client] # None
        /\ fds[krclient[t.client].fd] = fds[f]
    BY <1>3, TaskTypes DEF ClientHeld
  <2>2. krclient[t.client].fd \in Fds /\ events[krclient[t.client].fd] = t.client
    BY <2>1, RegistryFacts
  <2>3. krclient[t.client].fd = f
    BY <1>2, <2>1, <2>2, NoneApart DEF ConnInv
  <2> QED
    BY <1>2, <2>2, <2>3
<1>4. /\ \A i \in 1 .. Len(pending) : pending[i] \in ToSet(pending)
      /\ \A w \in Workers : running[w] \in {running[v] : v \in Workers}
  BY SetOfList DEF TypeOK
<1>5. /\ \A i \in 1 .. Len(pending) : pending[i].client # c
      /\ \A w \in Workers : running[w].client # c
  BY <1>4 DEF Outstanding
<1>6. /\ \A i \in 1 .. Len(pending) : pending[i] \in Task /\ ClientHeld(pending[i])
      /\ \A w \in Workers : running[w] # NoTask => running[w] \in Task /\ ClientHeld(running[w])
  BY TaskTypes DEF HeldInv
<1>7. \A w \in Workers : running[w] = NoTask => running[w].conn # fds[f]
  BY <1>2, TaskTypes
<1> QED
  BY <1>1, <1>3, <1>5, <1>6, <1>7

\* Each client has one request outstanding at most, its last.
LEMMA AloneKept ==
  ASSUME TypeOK, RegistryExact, ConnInv, FrameInv, WorkerInv, HeldInv, AloneInv, Next
  PROVE  AloneInv'
<1>0. ASSUME UNCHANGED <<pending, running, handed, pipelined>>, orphan' \/ ~ orphan
      PROVE  AloneInv'
  BY <1>0 DEF AloneInv
<1>1. ASSUME NEW k \in Conns, PeerStep(k) \/ Connect(k)
      PROVE  AloneInv'
  BY <1>1 DEF PeerStep, Send, HangUp, Connect, OnConnect, OnConnectFails, engine, AloneInv
<1>2. ASSUME NEW f \in Fds, ReadStep(f)
      PROVE  AloneInv'
  BY <1>2 DEF ReadStep, OnRead, OnReadEnds, ClientFree, engine, AloneInv
<1>3. ASSUME ParseEnds
      PROVE  AloneInv'
  BY <1>3 DEF ParseEnds, engine, AloneInv
<1>4. ASSUME ParseMessage
      PROVE  AloneInv'
  <2>p. PICK f \in Fds, k \in Conns, buf \in Seq(Byte), t \in Task : Taken(f, k, buf, t)
    BY <1>4, ParseFacts
  <2>1. /\ parsing \in Cells /\ krclient[parsing] # None /\ f = krclient[parsing].fd /\ k = fds[f]
        /\ t.conn = k /\ t.num = handed[k] + 1
        /\ pending' = pending \o <<t>>
        /\ handed' = [handed EXCEPT ![k] = @ + 1]
        /\ pipelined' = (pipelined \/ Outstanding(parsing) # {})
        /\ UNCHANGED <<running, orphan>>
    BY <2>p DEF Taken
  <2> SUFFICES ASSUME ~ orphan, ~ pipelined'
               PROVE  AloneInv'
    BY <2>1 DEF AloneInv
  <2>2. ~ pipelined /\ Outstanding(parsing) = {}
    BY <2>1
  <2>3. /\ \A i \in 1 .. Len(pending) : pending[i].conn # k
        /\ \A w \in Workers : running[w].conn # k
    BY <2>1, <2>2, NothingElse
  <2>4. /\ pending'[Len(pending) + 1] = t
        /\ \A i \in 1 .. Len(pending) : pending'[i] = pending[i]
        /\ \A i \in 1 .. Len(pending') : i \in 1 .. Len(pending) \/ i = Len(pending) + 1
    BY <2>1, LineGrows
  <2>5. handed'[k] = handed[k] + 1 /\ \A j \in Conns : j # k => handed'[j] = handed[j]
    BY <2>1 DEF TypeOK
  <2>6. /\ \A i \in 1 .. Len(pending) : pending[i].num = handed'[pending[i].conn]
        /\ \A w \in Workers : running[w] # NoTask => running[w].num = handed'[running[w].conn]
    BY <2>2, <2>3, <2>5, TaskTypes DEF AloneInv
  <2>7. \A i \in 1 .. Len(pending') : pending'[i].num = handed'[pending'[i].conn]
    BY <2>1, <2>4, <2>5, <2>6
  <2> QED
    BY <2>1, <2>6, <2>7 DEF AloneInv
<1>5. ASSUME NEW w \in Workers, Start(w)
      PROVE  AloneInv'
  <2>1. /\ 1 \in 1 .. Len(pending) /\ running'[w] = pending[1]
        /\ \A v \in Workers : v # w => running'[v] = running[v]
        /\ \A i \in 1 .. Len(pending') : i + 1 \in 1 .. Len(pending) /\ pending'[i] = pending[i + 1]
        /\ UNCHANGED <<handed, orphan, pipelined>>
    BY <1>5, StartFacts
  <2> SUFFICES ASSUME ~ orphan, ~ pipelined
               PROVE  AloneInv'
    BY <2>1 DEF AloneInv
  <2>2. /\ \A i \in 1 .. Len(pending) : pending[i].num = handed[pending[i].conn]
        /\ \A v \in Workers : running[v] # NoTask => running[v].num = handed[running[v].conn]
    BY DEF AloneInv
  <2>3. /\ \A i \in 1 .. Len(pending') : pending'[i].num = handed'[pending'[i].conn]
        /\ \A v \in Workers : running'[v] # NoTask => running'[v].num = handed'[running'[v].conn]
    BY <2>1, <2>2, SMTT(40)
  <2> QED
    BY <2>3 DEF AloneInv
<1>6. ASSUME NEW w \in Workers, WriteResp(w)
      PROVE  AloneInv'
  <2>1. UNCHANGED <<pending, running, handed, orphan, pipelined>>
    BY <1>6, RespFacts
  <2> QED
    BY <2>1 DEF AloneInv
<1>7. ASSUME NEW w \in Workers, UNCHANGED <<pending, handed, orphan, pipelined>>,
             running'[w] = NoTask \/ running'[w] = running[w],
             \A v \in Workers : v # w => running'[v] = running[v]
      PROVE  AloneInv'
  BY <1>7 DEF AloneInv
<1>8. ASSUME NEW w \in Workers, NEW n \in 1 .. ReplyLen, Write(w, n)
      PROVE  AloneInv'
  BY <1>7, <1>8, AfterWrite
<1>9. ASSUME NEW w \in Workers, WriteFails(w)
      PROVE  AloneInv'
  <2>1. Returns(w) /\ UNCHANGED <<handed, orphan, pipelined>>
    BY <1>9 DEF WriteFails
  <2> QED
    BY <1>7, <2>1, ReturnFacts
<1> QED
  BY <1>1, <1>2, <1>3, <1>4, <1>5, <1>6, <1>8, <1>9 DEF Next, ParseStep, WorkerStep

\* What follows if some of the connections that were up are not any more.
LEMMA OrderFrame ==
  ASSUME TypeOK, OrderInv, UNCHANGED <<pending, running, left, received, handed>>,
         orphan' \/ ~ orphan, pipelined' \/ ~ pipelined,
         \A k \in Conns : link'[k] = "up" => link[k] = "up"
  PROVE  OrderInv'
<1> SUFFICES ASSUME ~ orphan', ~ pipelined'
             PROVE  OrderInv'
  BY DEF OrderInv
<1>1. /\ \A i \in 1 .. Len(pending) : pending[i].conn \in Conns
      /\ \A w \in Workers : running[w] # NoTask => running[w].conn \in Conns
  BY TaskTypes
<1> QED
  BY <1>1 DEF OrderInv, Settled

\* What a connection has got is, so far, whole replies in order.
InOrder(s) ==
  s # <<>> =>
    /\ s[1].num = 1 /\ s[1].at = 1
    /\ \A i \in 1 .. Len(s) - 1 :
         ReplyFollows(s[i], s[i + 1]) /\ (s[i + 1].at = 1 => s[i + 1].num = s[i].num + 1)

\* new is old and, after it, bytes p + 1 .. p + n of reply num, which are due.
AppendsPart(old, new, k, num, p, n) ==
  /\ old \in Seq(ReplyByte) /\ new \in Seq(ReplyByte) /\ InOrder(old)
  /\ k \in Conns /\ num \in 1 .. MaxRequests
  /\ p \in 0 .. ReplyLen - 1 /\ n \in 1 .. ReplyLen - p
  /\ IF p > 0 THEN old # <<>> /\ Last(old) = [conn |-> k, num |-> num, at |-> p]
              ELSE IF num = 1 THEN old = <<>>
              ELSE old # <<>> /\ Last(old) = [conn |-> k, num |-> num - 1, at |-> ReplyLen]
  /\ Len(new) = Len(old) + n
  /\ \A i \in 1 .. Len(old) : new[i] = old[i]
  /\ \A i \in 1 .. n : new[Len(old) + i] = [conn |-> k, num |-> num, at |-> p + i]

\* Bytes that are due keep the output in order.
LEMMA PartInOrder ==
  ASSUME NEW old, NEW new, NEW k, NEW num, NEW p, NEW n, AppendsPart(old, new, k, num, p, n)
  PROVE  /\ InOrder(new) /\ new # <<>>
         /\ Last(new) = [conn |-> k, num |-> num, at |-> p + n]
<1>a. /\ old \in Seq(ReplyByte) /\ new \in Seq(ReplyByte) /\ InOrder(old)
      /\ k \in Conns /\ num \in 1 .. MaxRequests
      /\ p \in 0 .. ReplyLen - 1 /\ n \in 1 .. ReplyLen - p
  BY DEF AppendsPart
<1>b. IF p > 0 THEN old # <<>> /\ Last(old) = [conn |-> k, num |-> num, at |-> p]
               ELSE IF num = 1 THEN old = <<>>
               ELSE old # <<>> /\ Last(old) = [conn |-> k, num |-> num - 1, at |-> ReplyLen]
  BY DEF AppendsPart
<1>c. Len(new) = Len(old) + n /\ \A i \in 1 .. Len(old) : new[i] = old[i]
  BY DEF AppendsPart
<1>d. \A i \in 1 .. n : new[Len(old) + i] = [conn |-> k, num |-> num, at |-> p + i]
  BY DEF AppendsPart
<1>1. /\ Len(old) \in Nat /\ n \in Nat /\ n >= 1 /\ p \in Nat /\ ReplyLen \in Nat /\ num \in Nat
      /\ old = <<>> <=> Len(old) = 0
      /\ p < ReplyLen
  BY <1>a, ServerAssumption, EmptySeq
<1>r. n <= ReplyLen - p
  BY <1>1, <1>a
<1>2. new # <<>> /\ Last(new) = [conn |-> k, num |-> num, at |-> p + n]
  <2>1. Len(new) \in Nat /\ Len(new) >= 1 /\ n \in 1 .. n
    BY <1>1, <1>c
  <2> QED
    BY <1>1, <1>c, <1>d, <2>1 DEF Last
<1>3. new[1].num = 1 /\ new[1].at = 1
  <2>1. CASE old = <<>>
    <3>1. new[Len(old) + 1] = [conn |-> k, num |-> num, at |-> p + 1] /\ Len(old) + 1 = 1
      BY <1>1, <1>d, <2>1
    <3>2. p = 0 /\ num = 1
      BY <1>1, <1>b, <2>1
    <3> QED
      BY <3>1, <3>2
  <2>2. CASE old # <<>>
    <3>1. 1 \in 1 .. Len(old)
      BY <1>1, <2>2
    <3> QED
      BY <1>a, <1>c, <2>2, <3>1 DEF InOrder
  <2> QED
    BY <2>1, <2>2
<1>4. ASSUME NEW i \in 1 .. Len(new) - 1
      PROVE  ReplyFollows(new[i], new[i + 1]) /\ (new[i + 1].at = 1 => new[i + 1].num = new[i].num + 1)
  <2>1. CASE i < Len(old)
    <3>1. i \in 1 .. Len(old) - 1 /\ i \in 1 .. Len(old) /\ i + 1 \in 1 .. Len(old) /\ old # <<>>
      BY <1>1, <2>1
    <3>2. ReplyFollows(old[i], old[i + 1]) /\ (old[i + 1].at = 1 => old[i + 1].num = old[i].num + 1)
      BY <1>a, <3>1 DEF InOrder
    <3> QED
      BY <1>c, <3>1, <3>2
  <2>2. CASE i = Len(old)
    <3>1. i \in 1 .. Len(old) /\ old # <<>> /\ 1 \in 1 .. n
      BY <1>1, <2>2
    <3>2. new[i] = Last(old) /\ new[i + 1] = [conn |-> k, num |-> num, at |-> p + 1]
      BY <1>c, <1>d, <2>2, <3>1 DEF Last
    <3>3. CASE p > 0
      <4>1. new[i] = [conn |-> k, num |-> num, at |-> p]
        BY <1>b, <3>2, <3>3
      <4> QED
        BY <1>1, <3>2, <3>3, <4>1 DEF ReplyFollows
    <3>4. CASE p = 0
      <4>1. new[i] = [conn |-> k, num |-> num - 1, at |-> ReplyLen] /\ num # 1
        BY <1>1, <1>b, <3>1, <3>2, <3>4
      <4> QED
        BY <1>1, <3>2, <3>4, <4>1 DEF ReplyFollows
    <3> QED
      BY <1>1, <3>3, <3>4
  <2>3. CASE i > Len(old)
    <3>1. PICK d : d = i - Len(old)
      OBVIOUS
    <3>2. d \in 1 .. n /\ d + 1 \in 1 .. n /\ Len(old) + d = i /\ Len(old) + (d + 1) = i + 1 /\ d \in Nat
      BY <1>1, <1>c, <2>3, <3>1
    <3>3. /\ new[i] = [conn |-> k, num |-> num, at |-> p + d]
          /\ new[i + 1] = [conn |-> k, num |-> num, at |-> p + (d + 1)]
      BY <1>d, <3>2
    <3>4. p + d < ReplyLen /\ p + (d + 1) = (p + d) + 1 /\ p + (d + 1) # 1
      BY <1>1, <1>r, <3>2
    <3> QED
      BY <3>3, <3>4 DEF ReplyFollows
  <2> QED
    BY <1>1, <2>1, <2>2, <2>3
<1> QED
  BY <1>2, <1>3, <1>4 DEF InOrder

\* What one write adds is in order, and the output then stands where it should.
LEMMA WrittenInOrder ==
  ASSUME TypeOK, WorkerInv, TaskInv, HeldInv, AloneInv, OrderInv, RepliesInOrder, ~ orphan, ~ pipelined,
         NEW w \in Workers, NEW n \in 1 .. ReplyLen, Write(w, n)
  PROVE  /\ Written(w, n, running[w].conn)
         /\ InOrder(received'[running[w].conn]) /\ received'[running[w].conn] # <<>>
         /\ Last(received'[running[w].conn]) =
              [conn |-> running[w].conn, num |-> running[w].num, at |-> ReplyLen - left[w] + n]
<1>1. PICK k : k = running[w].conn
  OBVIOUS
<1>2. Written(w, n, k)
  <2>1. writing[w] # None
    BY DEF Write
  <2> QED
    BY <1>1, <2>1, WriteFacts, WritesToAsker
<1>3. PICK p : p = ReplyLen - left[w]
  OBVIOUS
<1>4. PICK num : num = running[w].num
  OBVIOUS
<1>5. /\ k \in Conns /\ link[k] = "up" /\ running[w] # NoTask /\ running[w] \in Task
      /\ left[w] \in 1 .. ReplyLen /\ n <= left[w]
      /\ received'[k] \in Seq(ReplyByte)
      /\ Len(received'[k]) = Len(received[k]) + n
      /\ \A i \in 1 .. Len(received[k]) : received'[k][i] = received[k][i]
      /\ \A i \in 1 .. n : received'[k][Len(received[k]) + i] = [conn |-> k, num |-> num, at |-> p + i]
  BY <1>1, <1>2, <1>3, <1>4 DEF Written
<1>6. /\ p \in 0 .. ReplyLen - 1 /\ n \in 1 .. ReplyLen - p /\ num \in 1 .. MaxRequests
      /\ ReplyLen \in Nat /\ (p = 0 <=> left[w] = ReplyLen) /\ ReplyLen - left[w] = p
  BY <1>3, <1>4, <1>5, TaskTypes, ServerAssumption
<1>7. received[k] \in Seq(ReplyByte) /\ InOrder(received[k])
  BY <1>5, TaskTypes DEF RepliesInOrder, InOrder
<1>8. IF left[w] = ReplyLen
      THEN Settled(k, num - 1)
      ELSE received[k] # <<>> /\ Last(received[k]) = [conn |-> k, num |-> num, at |-> p]
  BY <1>1, <1>3, <1>4, <1>5 DEF OrderInv
<1>9. IF p > 0 THEN received[k] # <<>> /\ Last(received[k]) = [conn |-> k, num |-> num, at |-> p]
               ELSE IF num = 1 THEN received[k] = <<>>
               ELSE received[k] # <<>> /\ Last(received[k]) = [conn |-> k, num |-> num - 1, at |-> ReplyLen]
  <2>1. p > 0 <=> ~ (left[w] = ReplyLen)
    BY <1>6
  <2>2. num - 1 = 0 <=> num = 1
    BY <1>6
  <2> QED
    BY <1>8, <2>1, <2>2 DEF Settled
<1>10. /\ InOrder(received'[k]) /\ received'[k] # <<>>
       /\ Last(received'[k]) = [conn |-> k, num |-> num, at |-> p + n]
  <2>1. PICK old : old = received[k]
    OBVIOUS
  <2>2. PICK new : new = received'[k]
    OBVIOUS
  <2>3. /\ old \in Seq(ReplyByte) /\ InOrder(old) /\ k \in Conns /\ num \in 1 .. MaxRequests
        /\ p \in 0 .. ReplyLen - 1 /\ n \in 1 .. ReplyLen - p
    BY <1>5, <1>6, <1>7, <2>1
  <2>4. IF p > 0 THEN old # <<>> /\ Last(old) = [conn |-> k, num |-> num, at |-> p]
                 ELSE IF num = 1 THEN old = <<>>
                 ELSE old # <<>> /\ Last(old) = [conn |-> k, num |-> num - 1, at |-> ReplyLen]
    BY <1>9, <2>1
  <2>5. /\ new \in Seq(ReplyByte) /\ Len(new) = Len(old) + n
        /\ \A i \in 1 .. Len(old) : new[i] = old[i]
        /\ \A i \in 1 .. n : new[Len(old) + i] = [conn |-> k, num |-> num, at |-> p + i]
    BY <1>5, <2>1, <2>2
  <2>6. InOrder(new) /\ new # <<>> /\ Last(new) = [conn |-> k, num |-> num, at |-> p + n]
    <3>1. AppendsPart(old, new, k, num, p, n)
      BY <2>3, <2>4, <2>5 DEF AppendsPart
    <3> QED
      BY <3>1, PartInOrder
  <2> QED
    BY <2>2, <2>6
<1> QED
  BY <1>1, <1>2, <1>3, <1>4, <1>10

\* Where the output stands after a write.
LEMMA OrderWritten ==
  ASSUME TypeOK, WorkerInv, TaskInv, HeldInv, AloneInv, OrderInv, RepliesInOrder,
         NEW w \in Workers, NEW n \in 1 .. ReplyLen, Write(w, n)
  PROVE  OrderInv'
<1>1. /\ UNCHANGED <<pending, link, handed, orphan, pipelined>>
      /\ \A v \in Workers : v # w => running'[v] = running[v] /\ left'[v] = left[v]
      /\ \/ running'[w] = NoTask /\ n = left[w]
         \/ running'[w] = running[w] /\ left'[w] = left[w] - n /\ n < left[w]
  BY AfterWrite
<1> SUFFICES ASSUME ~ orphan, ~ pipelined
             PROVE  OrderInv'
  BY <1>1 DEF OrderInv
<1>2. PICK t : t = running[w]
  OBVIOUS
<1>3. PICK k : k = t.conn
  OBVIOUS
<1>4. /\ Written(w, n, k) /\ received'[k] # <<>>
      /\ Last(received'[k]) = [conn |-> k, num |-> t.num, at |-> ReplyLen - left[w] + n]
  BY <1>2, <1>3, WrittenInOrder
<1>5. /\ k \in Conns /\ t # NoTask /\ t \in Task /\ left[w] \in 1 .. ReplyLen
      /\ \A j \in Conns : j # k => received'[j] = received[j]
  BY <1>2, <1>4 DEF Written
<1>6. /\ \A i \in 1 .. Len(pending) : pending[i].conn \in Conns /\ pending[i].conn # k
      /\ \A v \in Workers : v # w /\ running[v] # NoTask => running[v].conn \in Conns /\ running[v].conn # k
  <2>1. t.num = handed[k] /\ Apart(t, t) = FALSE
    BY <1>2, <1>3, <1>5 DEF AloneInv, Apart
  <2>2. \A i \in 1 .. Len(pending) : Apart(pending[i], t) /\ pending[i].num = handed[pending[i].conn]
    BY <1>2, <1>5 DEF TaskInv, AloneInv
  <2>3. \A v \in Workers : v # w /\ running[v] # NoTask =>
          Apart(running[v], t) /\ running[v].num = handed[running[v].conn]
    BY <1>2, <1>5 DEF TaskInv, AloneInv
  <2> QED
    BY <1>3, <2>1, <2>2, <2>3, TaskTypes DEF Apart
<1>7. \A i \in 1 .. Len(pending) :
        link[pending[i].conn] = "up" => Settled(pending[i].conn, pending[i].num - 1)'
  BY <1>1, <1>5, <1>6, ZenonT(40) DEF OrderInv, Settled
<1>8. ASSUME NEW v \in Workers, running'[v] # NoTask, link[running'[v].conn] = "up"
      PROVE  IF left'[v] = ReplyLen
             THEN Settled(running[v].conn, running[v].num - 1)'
             ELSE /\ received'[running'[v].conn] # <<>>
                  /\ Last(received'[running'[v].conn]) =
                       [conn |-> running'[v].conn, num |-> running'[v].num, at |-> ReplyLen - left'[v]]
  <2>1. CASE v # w
    <3>1. running'[v] = running[v] /\ left'[v] = left[v] /\ received'[running[v].conn] = received[running[v].conn]
      BY <1>1, <1>5, <1>6, <1>8, <2>1
    <3> QED
      BY <1>8, <3>1 DEF OrderInv, Settled
  <2>2. CASE v = w
    <3>1. running'[w] = t /\ left'[w] = left[w] - n /\ n < left[w]
      BY <1>1, <1>2, <1>8, <2>2
    <3>2. left'[w] # ReplyLen /\ ReplyLen - left[w] + n = ReplyLen - left'[w]
      BY <1>5, <3>1, ServerAssumption
    <3> QED
      BY <1>3, <1>4, <2>2, <3>1, <3>2
  <2> QED
    BY <2>1, <2>2
<1>9. ASSUME NEW j \in Conns, link[j] = "up",
             \A i \in 1 .. Len(pending) : pending[i].conn # j,
             \A v \in Workers : running'[v].conn # j
      PROVE  Settled(j, handed[j])'
  <2>1. CASE j # k
    <3>1. \A v \in Workers : running[v].conn # j
      BY <1>1, <1>2, <1>3, <1>9, <2>1
    <3> QED
      BY <1>1, <1>5, <1>9, <2>1, <3>1 DEF OrderInv, Settled
  <2>2. CASE j = k
    <3>1. n = left[w]
      BY <1>1, <1>2, <1>3, <1>9, <2>2
    <3>2. ReplyLen - left[w] + n = ReplyLen
      BY <1>5, <3>1, ServerAssumption
    <3>3. t.num = handed[k] /\ t.num # 0
      BY <1>2, <1>3, <1>5, TaskTypes DEF AloneInv
    <3> QED
      BY <1>1, <1>4, <2>2, <3>2, <3>3 DEF Settled
  <2> QED
    BY <2>1, <2>2
<1> QED
  BY <1>1, <1>7, <1>8, <1>9 DEF OrderInv, Settled

\* Where the output of each connection stands.
LEMMA OrderKept ==
  ASSUME TypeOK, RegistryExact, ConnInv, FrameInv, WorkerInv, TaskInv, HeldInv, AloneInv, OrderInv,
         RepliesInOrder, Next
  PROVE  OrderInv'
<1>1. ASSUME NEW k \in Conns, PeerStep(k) \/ OnConnectFails(k)
      PROVE  OrderInv'
  <2>1. /\ link' = link \/ link' = [link EXCEPT ![k] = "down"] \/ link' = [link EXCEPT ![k] = "gone"]
        /\ UNCHANGED <<pending, running, left, received, handed, orphan, pipelined>>
    BY <1>1 DEF PeerStep, Send, HangUp, OnConnectFails, engine, output
  <2>2. \A j \in Conns : link'[j] = "up" => link[j] = "up"
    BY <2>1 DEF TypeOK
  <2> QED
    BY <2>1, <2>2, OrderFrame DEF OrderInv
<1>2. ASSUME NEW k \in Conns, NEW f \in Fds, NEW c \in Cells, OnConnect(k, f, c)
      PROVE  OrderInv'
  <2>1. /\ link[k] = "new" /\ link' = [link EXCEPT ![k] = "up"]
        /\ UNCHANGED <<pending, running, left, received, handed, orphan, pipelined>>
    BY <1>2 DEF OnConnect, Arriving, engine, output
  <2>2. \A j \in Conns : j # k => link'[j] = link[j]
    BY <2>1 DEF TypeOK
  <2>3. handed[k] = 0 /\ received[k] = <<>>
    BY <2>1 DEF ConnInv
  <2>4. /\ \A i \in 1 .. Len(pending) : pending[i].conn \in Conns /\ pending[i].conn # k
        /\ \A w \in Workers : running[w] # NoTask => running[w].conn \in Conns /\ running[w].conn # k
    BY <2>3, TaskTypes DEF TaskInv
  <2>5. Settled(k, handed[k])
    BY <2>3 DEF Settled
  <2> QED
    BY <2>1, <2>2, <2>4, <2>5 DEF OrderInv, Settled
<1>3. ASSUME NEW f \in Fds, NEW n \in 1 .. BufferMaxLen, OnRead(f, n)
      PROVE  OrderInv'
  <2>1. UNCHANGED <<link, pending, running, left, received, handed, orphan, pipelined>>
    BY <1>3, ReadFacts
  <2> QED
    BY <2>1 DEF OrderInv, Settled
<1>4. ASSUME NEW f \in Fds, OnReadEnds(f)
      PROVE  OrderInv'
  <2>1. /\ events[f] \in Cells /\ krclient[events[f]] # None /\ ClientFree(events[f])
        /\ krclient[events[f]].fd = f /\ fds[f] \in Conns
        /\ UNCHANGED <<pending, running, left, received, handed, pipelined>>
    BY <1>4, RegistryFacts DEF OnReadEnds, engine, output
  <2>2. link' = [link EXCEPT ![fds[f]] = "gone"]
    BY <2>1, RegistryFree
  <2>3. \A j \in Conns : link'[j] = "up" => link[j] = "up"
    BY <2>1, <2>2 DEF TypeOK
  <2>4. orphan' \/ ~ orphan
    BY <2>1, Zenon DEF ClientFree
  <2>5. pipelined' \/ ~ pipelined
    BY <2>1
  <2> QED
    BY <2>1, <2>3, <2>4, <2>5, OrderFrame
<1>5. ASSUME ParseEnds
      PROVE  OrderInv'
  BY <1>5 DEF ParseEnds, OrderInv, Settled, net, engine, output
<1>6. ASSUME ParseMessage
      PROVE  OrderInv'
  <2>p. PICK f \in Fds, k \in Conns, buf \in Seq(Byte), t \in Task : Taken(f, k, buf, t)
    BY <1>6, ParseFacts
  <2>1. /\ parsing \in Cells /\ krclient[parsing] # None /\ f = krclient[parsing].fd /\ k = fds[f]
        /\ t.conn = k /\ t.num = handed[k] + 1
        /\ pending' = pending \o <<t>>
        /\ handed' = [handed EXCEPT ![k] = @ + 1]
        /\ pipelined' = (pipelined \/ Outstanding(parsing) # {})
        /\ UNCHANGED <<link, running, left, received, orphan>>
    BY <2>p DEF Taken
  <2> SUFFICES ASSUME ~ orphan, ~ pipelined'
               PROVE  OrderInv'
    BY <2>1 DEF OrderInv
  <2>2. ~ pipelined /\ Outstanding(parsing) = {}
    BY <2>1
  <2>3. /\ \A i \in 1 .. Len(pending) : pending[i].conn # k
        /\ \A w \in Workers : running[w].conn # k
    BY <2>1, <2>2, NothingElse
  <2>4. /\ pending'[Len(pending) + 1] = t /\ Len(pending) + 1 \in 1 .. Len(pending')
        /\ \A i \in 1 .. Len(pending) : pending'[i] = pending[i] /\ i \in 1 .. Len(pending')
        /\ \A i \in 1 .. Len(pending') : i \in 1 .. Len(pending) \/ i = Len(pending) + 1
    <3>1. /\ Len(pending') = Len(pending) + 1
          /\ pending'[Len(pending) + 1] = t
          /\ \A i \in 1 .. Len(pending) : pending'[i] = pending[i]
          /\ \A i \in 1 .. Len(pending') : i \in 1 .. Len(pending) \/ i = Len(pending) + 1
      BY <2>1, LineGrows
    <3>2. Len(pending) \in Nat
      BY TaskTypes
    <3>3. Len(pending) + 1 \in 1 .. Len(pending') /\ \A i \in 1 .. Len(pending) : i \in 1 .. Len(pending')
      BY <3>1, <3>2
    <3> QED
      BY <3>1, <3>3
  <2>5. \A j \in Conns : j # k => handed'[j] = handed[j]
    BY <2>1 DEF TypeOK
  <2>6. link[k] = "up" => Settled(k, handed[k])
    BY <2>2, <2>3 DEF OrderInv
  <2>7. t.num - 1 = handed[k]
    BY <2>1, TaskTypes
  <2>8. \A i \in 1 .. Len(pending') :
          link[pending'[i].conn] = "up" => Settled(pending'[i].conn, pending'[i].num - 1)
    BY <2>1, <2>2, <2>4, <2>6, <2>7 DEF OrderInv
  <2>9. ASSUME NEW j \in Conns, link[j] = "up",
               \A i \in 1 .. Len(pending') : pending'[i].conn # j,
               \A w \in Workers : running[w].conn # j
        PROVE  Settled(j, handed'[j])
    <3>1. j # k
      BY <2>1, <2>4, <2>9
    <3>2. \A i \in 1 .. Len(pending) : pending[i].conn # j
      BY <2>4, <2>9
    <3> QED
      BY <2>2, <2>5, <2>9, <3>1, <3>2 DEF OrderInv
  <2>10. \A w \in Workers : running[w] # NoTask /\ link[running[w].conn] = "up" =>
           IF left[w] = ReplyLen
           THEN Settled(running[w].conn, running[w].num - 1)
           ELSE /\ received[running[w].conn] # <<>>
                /\ Last(received[running[w].conn]) =
                     [conn |-> running[w].conn, num |-> running[w].num, at |-> ReplyLen - left[w]]
    BY <2>2 DEF OrderInv
  <2> QED
    BY <2>1, <2>8, <2>9, <2>10 DEF OrderInv, Settled
<1>7. ASSUME NEW w \in Workers, Start(w)
      PROVE  OrderInv'
  <2>1. /\ 1 \in 1 .. Len(pending) /\ running'[w] = pending[1] /\ running[w] = NoTask
        /\ \A v \in Workers : v # w => running'[v] = running[v]
        /\ Len(pending') = Len(pending) - 1
        /\ \A i \in 1 .. Len(pending') : i + 1 \in 1 .. Len(pending) /\ pending'[i] = pending[i + 1]
        /\ UNCHANGED <<link, writing, left, received, handed, orphan, pipelined>>
    BY <1>7, StartFacts
  <2> SUFFICES ASSUME ~ orphan, ~ pipelined
               PROVE  OrderInv'
    BY <2>1 DEF OrderInv
  <2>2. left[w] = ReplyLen
    BY <2>1 DEF WorkerInv
  <2>3. \A i \in 1 .. Len(pending') :
          link[pending'[i].conn] = "up" => Settled(pending'[i].conn, pending'[i].num - 1)
    <3> SUFFICES ASSUME NEW i \in 1 .. Len(pending')
                 PROVE  link[pending'[i].conn] = "up" => Settled(pending'[i].conn, pending'[i].num - 1)
      OBVIOUS
    <3>1. PICK j \in 1 .. Len(pending) : pending'[i] = pending[j]
      BY <2>1
    <3> QED
      BY <3>1 DEF OrderInv
  <2>4. \A v \in Workers : running'[v] # NoTask /\ link[running'[v].conn] = "up" =>
          IF left[v] = ReplyLen
          THEN Settled(running'[v].conn, running'[v].num - 1)
          ELSE /\ received[running'[v].conn] # <<>>
               /\ Last(received[running'[v].conn]) =
                    [conn |-> running'[v].conn, num |-> running'[v].num, at |-> ReplyLen - left[v]]
    BY <2>1, <2>2 DEF OrderInv
  <2>5. ASSUME NEW j \in Conns, link[j] = "up",
               \A i \in 1 .. Len(pending') : pending'[i].conn # j,
               \A v \in Workers : running'[v].conn # j
        PROVE  Settled(j, handed[j])
    <3>1. ASSUME NEW i \in 1 .. Len(pending)
          PROVE  pending[i].conn # j
      <4>1. CASE i = 1
        BY <2>1, <2>5, <4>1
      <4>2. CASE i > 1
        <5>1. i - 1 \in 1 .. Len(pending') /\ (i - 1) + 1 = i
          BY <2>1, <4>2, TaskTypes
        <5> QED
          BY <2>1, <2>5, <5>1, ZenonT(40)
      <4> QED
        BY <4>1, <4>2
    <3>2. \A v \in Workers : running[v].conn # j
      BY <2>1, <2>5, TaskTypes
    <3> QED
      BY <2>5, <3>1, <3>2 DEF OrderInv
  <2> QED
    BY <2>1, <2>3, <2>4, <2>5 DEF OrderInv, Settled
<1>8. ASSUME NEW w \in Workers, WriteResp(w)
      PROVE  OrderInv'
  <2>1. UNCHANGED <<link, pending, running, left, received, handed, orphan, pipelined>>
    BY <1>8, RespFacts
  <2> QED
    BY <2>1 DEF OrderInv, Settled
<1>9. ASSUME NEW w \in Workers, NEW n \in 1 .. ReplyLen, Write(w, n)
      PROVE  OrderInv'
  BY <1>9, OrderWritten
<1>10. ASSUME NEW w \in Workers, WriteFails(w)
       PROVE  OrderInv'
  <2>1. /\ writing[w] # None /\ ~ Connected(writing[w]) /\ Returns(w)
        /\ UNCHANGED <<link, received, handed, orphan, pipelined>>
    BY <1>10 DEF WriteFails, net
  <2>2. /\ running'[w] = NoTask /\ pending' = pending
        /\ \A v \in Workers : v # w => running'[v] = running[v] /\ left'[v] = left[v]
    BY <2>1, ReturnFacts
  <2> SUFFICES ASSUME ~ orphan, ~ pipelined
               PROVE  OrderInv'
    BY <2>1 DEF OrderInv
  <2>3. running[w] # NoTask /\ running[w] \in Task /\ running[w].conn \in Conns
    BY <2>1, TaskTypes DEF WorkerInv
  <2>4. link[running[w].conn] # "up"
    <3>1. fds[writing[w]] = running[w].conn
      BY <2>1, WritesToAsker
    <3>2. writing[w] = krclient[running[w].client].fd /\ krclient[running[w].client] # None
      BY <2>1, <2>3 DEF HeldInv, ClientHeld
    <3>3. writing[w] \in Fds
      BY <2>3, <3>2, RegistryFacts, TaskTypes
    <3> QED
      BY <2>1, <2>3, <3>1, <3>3, NoneApart DEF Connected
  <2>5. \A j \in Conns : link[j] = "up" /\ (\A v \in Workers : running'[v].conn # j) =>
          \A v \in Workers : running[v].conn # j
    BY <2>2, <2>4
  <2>6. \A v \in Workers : running'[v] # NoTask /\ link[running'[v].conn] = "up" =>
          IF left'[v] = ReplyLen
          THEN Settled(running'[v].conn, running'[v].num - 1)
          ELSE /\ received[running'[v].conn] # <<>>
               /\ Last(received[running'[v].conn]) =
                    [conn |-> running'[v].conn, num |-> running'[v].num, at |-> ReplyLen - left'[v]]
    BY <2>2 DEF OrderInv
  <2>7. \A j \in Conns : /\ link[j] = "up"
                         /\ \A i \in 1 .. Len(pending) : pending[i].conn # j
                         /\ \A v \in Workers : running'[v].conn # j
                         => Settled(j, handed[j])
    BY <2>5 DEF OrderInv
  <2> QED
    BY <2>1, <2>2, <2>6, <2>7 DEF OrderInv, Settled
<1> QED
  BY <1>1, <1>2, <1>3, <1>4, <1>5, <1>6, <1>7, <1>8, <1>9, <1>10
  DEF Next, PeerStep, Connect, ReadStep, ParseStep, WorkerStep

\* Replies stay in order.
LEMMA InOrderKept ==
  ASSUME TypeOK, WorkerInv, TaskInv, HeldInv, AloneInv, OrderInv, RepliesInOrder, Next
  PROVE  RepliesInOrder'
<1>0. ASSUME UNCHANGED received, orphan' \/ ~ orphan, pipelined' \/ ~ pipelined
      PROVE  RepliesInOrder'
  BY <1>0 DEF RepliesInOrder
<1>1. ASSUME NEW k \in Conns, PeerStep(k) \/ Connect(k)
      PROVE  RepliesInOrder'
  BY <1>1 DEF PeerStep, Send, HangUp, Connect, OnConnect, OnConnectFails, output, RepliesInOrder
<1>2. ASSUME NEW f \in Fds, ReadStep(f)
      PROVE  RepliesInOrder'
  <2>1. UNCHANGED received
    BY <1>2 DEF ReadStep, OnRead, OnReadEnds, output
  <2>2. pipelined' \/ ~ pipelined
    BY <1>2 DEF ReadStep, OnRead, OnReadEnds
  <2>3. orphan' \/ ~ orphan
    BY <1>2 DEF ReadStep, OnRead, OnReadEnds, ClientFree
  <2> QED
    BY <1>0, <2>1, <2>2, <2>3
<1>3. ASSUME ParseStep
      PROVE  RepliesInOrder'
  <2>1. UNCHANGED received
    BY <1>3 DEF ParseStep, ParseMessage, ParseEnds, output
  <2>2. pipelined' \/ ~ pipelined
    BY <1>3 DEF ParseStep, ParseMessage, ParseEnds
  <2>3. orphan' \/ ~ orphan
    BY <1>3 DEF ParseStep, ParseMessage, ParseEnds
  <2> QED
    BY <1>0, <2>1, <2>2, <2>3
<1>4. ASSUME NEW w \in Workers, Start(w) \/ WriteResp(w) \/ WriteFails(w)
      PROVE  RepliesInOrder'
  BY <1>4 DEF Start, WriteResp, WriteFails, output, RepliesInOrder
<1>5. ASSUME NEW w \in Workers, NEW n \in 1 .. ReplyLen, Write(w, n)
      PROVE  RepliesInOrder'
  <2>1. UNCHANGED <<orphan, pipelined>>
    BY <1>5, AfterWrite
  <2> SUFFICES ASSUME ~ orphan, ~ pipelined
               PROVE  RepliesInOrder'
    BY <2>1 DEF RepliesInOrder
  <2>2. PICK k : k = running[w].conn
    OBVIOUS
  <2>3. Written(w, n, k) /\ InOrder(received'[k])
    BY <1>5, <2>2, WrittenInOrder
  <2>4. \A j \in Conns : j # k => received'[j] = received[j]
    BY <2>3 DEF Written
  <2>5. \A j \in Conns : InOrder(received'[j])
    BY <2>3, <2>4 DEF RepliesInOrder, InOrder
  <2> QED
    BY <2>5 DEF RepliesInOrder, InOrder
<1> QED
  BY <1>1, <1>2, <1>3, <1>4, <1>5 DEF Next, WorkerStep

-----------------------------------------------------------------------------
(***************************************************************************)
(* The theorems.                                                           *)
(***************************************************************************)

LEMMA ServerInit ==
  ASSUME Init
  PROVE  IInv
<1>1. /\ fds = [f \in Fds |-> None]
      /\ link = [k \in Conns |-> "new"]
      /\ unread = [k \in Conns |-> <<>>]
      /\ events = [f \in Fds |-> None]
      /\ clients = <<>>
      /\ krclient = [c \in Cells |-> None]
      /\ parsing = None
      /\ pending = <<>> /\ running = [w \in Workers |-> NoTask] /\ done = {}
      /\ writing = [w \in Workers |-> None]
      /\ left = [w \in Workers |-> ReplyLen]
      /\ received = [k \in Conns |-> <<>>]
      /\ sent = [k \in Conns |-> 0]
      /\ handed = [k \in Conns |-> 0]
  BY DEF Init, Engine!Init
<1>2. Len(pending) = 0 /\ \A k \in Conns : received[k] = <<>> /\ Len(received[k]) = 0
  BY <1>1
<1>3. TypeOK
  <2>1. ReplyLen \in 1 .. ReplyLen /\ 0 \in 0 .. MaxRequests
    BY ServerAssumption
  <2>2. \A S : <<>> \in Seq(S)
    BY EmptySeq
  <2> QED
    BY <1>1, <2>1, <2>2 DEF TypeOK
<1>4. RegistryExact
  <2>1. <<>> \in Seq(Cells) /\ Len(<<>>) = 0
    BY EmptySeq
  <2>2. clients \in Seq(Cells) /\ Len(clients) = 0
    BY <1>1, <2>1
  <2>3. ToSet(clients) = {} /\ IsInjective(clients)
    <3>1. clients \in Seq(Cells)
      BY <2>2
    <3>2. 1 .. Len(clients) = {}
      BY <2>2
    <3>3. IsInjective(clients) <=> \A i, j \in 1 .. Len(clients) : clients[i] = clients[j] => i = j
      BY <3>1, SetOfList
    <3>4. ToSet(clients) = {clients[i] : i \in 1 .. Len(clients)}
      BY <3>1, SetOfList
    <3>5. IsInjective(clients)
      BY <3>2, <3>3
    <3>6. ToSet(clients) = {}
      BY <3>2, <3>4
    <3> QED
      BY <3>5, <3>6
  <2> QED
    BY <1>1, <2>3 DEF RegistryExact
<1>5. ConnInv
  BY <1>1 DEF ConnInv
<1>6. FrameInv
  BY <1>1 DEF FrameInv
<1>7. WorkerInv
  BY <1>1 DEF WorkerInv
<1>8. TaskInv
  BY <1>1, <1>2 DEF TaskInv
<1>9. HeldInv
  BY <1>1, <1>2 DEF HeldInv
<1>10. ReplyInv
  <2>1. \A k \in Conns : IsInjective(received[k])
    BY <1>2, <1>3, SetOfList DEF TypeOK
  <2> QED
    BY <1>1, <1>2, <2>1 DEF ReplyInv
<1>11. AloneInv
  BY <1>1, <1>2 DEF AloneInv
<1>12. OrderInv
  BY <1>1, <1>2 DEF OrderInv, Settled
<1>13. RepliesInOrder
  BY <1>2 DEF RepliesInOrder
<1> QED
  BY <1>3, <1>4, <1>5, <1>6, <1>7, <1>8, <1>9, <1>10, <1>11, <1>12, <1>13 DEF IInv

\* Every step of the peers, the loop and the workers keeps the invariant.
LEMMA ServerStep ==
  ASSUME IInv, [Next]_vars
  PROVE  IInv'
<1>0. /\ TypeOK /\ RegistryExact /\ ConnInv /\ FrameInv /\ WorkerInv
      /\ TaskInv /\ HeldInv /\ ReplyInv /\ AloneInv /\ OrderInv /\ RepliesInOrder
  BY DEF IInv
<1>1. CASE Next
  <2>1. TypeOK' /\ RegistryExact' /\ ConnInv' /\ FrameInv'
    BY <1>0, <1>1, TypeStep, RegistryStep, ConnStep, FrameStep
  <2>2. WorkerInv' /\ TaskInv' /\ HeldInv' /\ ReplyInv'
    BY <1>0, <1>1, WorkerKept, TaskKept, HeldKept, ReplyKept
  <2>3. AloneInv' /\ OrderInv' /\ RepliesInOrder'
    BY <1>0, <1>1, AloneKept, OrderKept, InOrderKept
  <2> QED
    BY <2>1, <2>2, <2>3 DEF IInv
<1>2. CASE UNCHANGED vars
  <2>1. UNCHANGED <<fds, link, unread, events, clients, krclient, parsing, pending, running, done,
                    writing, left, received, sent, handed, orphan, pipelined>>
    BY <1>2 DEF vars, net, registry, engine, output
  <2>2. TypeOK'
    BY <1>0, <2>1 DEF TypeOK
  <2>3. RegistryExact'
    BY <1>0, <2>1 DEF RegistryExact
  <2>4. ConnInv'
    BY <1>0, <2>1 DEF ConnInv
  <2>5. FrameInv'
    BY <1>0, <2>1 DEF FrameInv, Input
  <2>6. WorkerInv' /\ TaskInv'
    BY <1>0, <2>1 DEF WorkerInv, TaskInv, Apart
  <2>7. HeldInv'
    BY <1>0, <2>1 DEF HeldInv, ClientHeld
  <2>8. ReplyInv'
    BY <1>0, <2>1 DEF ReplyInv
  <2>9. AloneInv' /\ OrderInv'
    BY <1>0, <2>1 DEF AloneInv, OrderInv, Settled
  <2>10. RepliesInOrder'
    BY <1>0, <2>1 DEF RepliesInOrder
  <2> QED
    BY <2>2, <2>3, <2>4, <2>5, <2>6, <2>7, <2>8, <2>9, <2>10 DEF IInv
<1> QED
  BY <1>1, <1>2

\* The invariant holds in every state the server can reach.
LEMMA ServerInvariant == Spec => []IInv
<1>1. Init => IInv
  BY ServerInit
<1>2. IInv /\ [Next]_vars => IInv'
  BY ServerStep
<1> QED
  BY <1>1, <1>2, PTL DEF Spec

\* Everything stays in its range; in particular kr_server_on_read never
\* overruns the input buffer of a client.
THEOREM TypeCorrect == Spec => []TypeOK
<1>1. IInv => TypeOK
  BY DEF IInv
<1> QED
  BY <1>1, ServerInvariant, PTL

\* However connections come and go: an event is never delivered to a client
\* that has been freed, and kr_client_free takes the right one out of the list
\* (kr_server_on_connect, kr_client_free).
THEOREM RegistryIsExact == Spec => []RegistryExact
<1>1. IInv => RegistryExact
  BY DEF IInv
<1> QED
  BY <1>1, ServerInvariant, PTL

\* However the input is cut into reads and whatever the size of the buffer:
\* requests are handed to the engine whole, in order and once
\* (kr_server_process_input_buffer).
THEOREM FramesAreExact == Spec => []FramesExact
<1>1. IInv => FramesExact
  BY DEF IInv, FrameInv, Framed, Input, FramesExact
<1> QED
  BY <1>1, ServerInvariant, PTL

\* As long as no client leaves with requests outstanding, each byte of a reply
\* reaches the connection that asked, once (kr_server_write_resp).
THEOREM RepliesReachAsker == Spec => []RepliesToAsker
<1>1. ASSUME IInv
      PROVE  RepliesToAsker
  <2>1. TypeOK /\ ReplyInv
    BY <1>1 DEF IInv
  <2>2. \A k \in Conns : DOMAIN received[k] = 1 .. Len(received[k])
    BY <2>1, TaskTypes
  <2> QED
    BY <2>1, <2>2 DEF ReplyInv, RepliesToAsker
<1> QED
  BY <1>1, ServerInvariant, PTL

\* If besides no client sends a request before it has the reply to its last,
\* the replies of a connection are whole and in the order of the requests,
\* although any worker may write to it and none takes a lock (kr_net_write).
THEOREM RepliesAreInOrder == Spec => []RepliesInOrder
<1>1. IInv => RepliesInOrder
  BY DEF IInv
<1> QED
  BY <1>1, ServerInvariant, PTL

-----------------------------------------------------------------------------
(***************************************************************************)
(* The engine: a reply of success is exact.                                *)
(*                                                                         *)
(* First what the proofs count with: steps of a walk, functions defined by *)
(* recursion along it, and how many members a set of numbers has.          *)
(***************************************************************************)

\* A walk of n steps through V: step k goes on from the value before it.
StepsIn(n, V, step) == \A k \in 1 .. n : \A v \in V : step[k][v] \in V
CanWalk(n, V, v0, step) ==
  \E g \in [0 .. n -> V] : g[0] = v0 /\ \A k \in 1 .. n : g[k] = step[k][g[k - 1]]

LEMMA Iterates ==
  ASSUME NEW N \in Nat, NEW V, NEW v0 \in V, NEW step, StepsIn(N, V, step)
  PROVE  CanWalk(N, V, v0, step)
<1> DEFINE Walks(g, n) == g[0] = v0 /\ \A k \in 1 .. n : g[k] = step[k][g[k - 1]]
           T == {n \in 0 .. N : \E g \in [0 .. n -> V] : Walks(g, n)}
<1>1. 0 \in T
  <2> DEFINE g == [k \in 0 .. 0 |-> v0]
  <2>1. g \in [0 .. 0 -> V] /\ Walks(g, 0)
    OBVIOUS
  <2> HIDE DEF g
  <2>2. 0 \in 0 .. N
    OBVIOUS
  <2> QED
    BY <2>1, <2>2
<1>2. ASSUME NEW n \in 0 .. N - 1, n \in T
      PROVE  n + 1 \in T
  <2>1. PICK g \in [0 .. n -> V] : Walks(g, n)
    BY <1>2
  <2>2. n + 1 \in 1 .. N /\ n \in 0 .. n /\ n + 1 \in 0 .. N
    OBVIOUS
  <2>3. step[n + 1][g[n]] \in V
    BY <2>1, <2>2 DEF StepsIn
  <2> DEFINE f == [k \in 0 .. n + 1 |-> IF k <= n THEN g[k] ELSE step[n + 1][g[n]]]
  <2>4. f \in [0 .. n + 1 -> V]
    <3>1. \A k \in 0 .. n + 1 : k <= n => k \in 0 .. n
      OBVIOUS
    <3> QED
      BY <2>1, <2>3, <3>1
  <2>5. \A k \in 0 .. n : f[k] = g[k]
    OBVIOUS
  <2>6. f[n + 1] = step[n + 1][g[n]]
    BY <2>2
  <2> HIDE DEF f
  <2>7. f[0] = v0
    BY <2>1, <2>5
  <2>8. ASSUME NEW k \in 1 .. n + 1
        PROVE  f[k] = step[k][f[k - 1]]
    <3>1. CASE k = n + 1
      BY <2>2, <2>5, <2>6, <3>1
    <3>2. CASE k # n + 1
      <4>1. k \in 1 .. n /\ k \in 0 .. n /\ k - 1 \in 0 .. n
        BY <3>2
      <4> QED
        BY <2>1, <2>5, <4>1
    <3> QED
      BY <3>1, <3>2
  <2> QED
    BY <2>2, <2>4, <2>7, <2>8
<1>3. N \in T
  <2> HIDE DEF T
  <2>1. 0 .. N \subseteq T
    BY <1>1, <1>2, StepsReach
  <2> QED
    BY <2>1
<1> QED
  BY <1>3 DEF CanWalk

\* The partial sums of a sequence of numbers.
LEMMA SumsAre ==
  ASSUME NEW f \in Seq(Int), NEW S
  PROVE  /\ Sums(f, S) \in [0 .. Len(f) -> Int]
         /\ Sums(f, S)[0] = 0
         /\ \A n \in 1 .. Len(f) :
              Sums(f, S)[n] = Sums(f, S)[n - 1] + (IF n \in S THEN f[n] ELSE 0)
<1> DEFINE add == [n \in 1 .. Len(f) |-> [v \in Int |-> v + (IF n \in S THEN f[n] ELSE 0)]]
           Step(g, n) == IF n = 0 THEN 0 ELSE g[n - 1] + (IF n \in S THEN f[n] ELSE 0)
<1>1. Len(f) \in Nat /\ \A n \in 1 .. Len(f) : f[n] \in Int
  OBVIOUS
<1>2. StepsIn(Len(f), Int, add)
  BY <1>1 DEF StepsIn
<1>3. PICK g \in [0 .. Len(f) -> Int] :
             g[0] = 0 /\ \A n \in 1 .. Len(f) : g[n] = add[n][g[n - 1]]
  <2> HIDE DEF add
  <2>1. 0 \in Int
    OBVIOUS
  <2>2. CanWalk(Len(f), Int, 0, add)
    BY <1>1, <1>2, <2>1, Iterates
  <2> QED
    BY <2>2 DEF CanWalk
<1>4. \A n \in 0 .. Len(f) : g[n] = Step(g, n)
  <2> TAKE n \in 0 .. Len(f)
  <2>1. CASE n = 0
    BY <1>3, <2>1
  <2>2. CASE n # 0
    <3>1. n \in 1 .. Len(f) /\ n - 1 \in 0 .. Len(f)
      BY <1>1, <2>2
    <3>2. g[n - 1] \in Int
      BY <3>1
    <3>3. add[n][g[n - 1]] = g[n - 1] + (IF n \in S THEN f[n] ELSE 0)
      BY <3>1, <3>2
    <3> QED
      BY <1>3, <2>2, <3>1, <3>3
  <2> QED
    BY <2>1, <2>2
<1> HIDE DEF add
<1>6. g = [n \in 0 .. Len(f) |-> Step(g, n)]
  <2> HIDE DEF Step
  <2> QED
    BY <1>4
<1>7. Sums(f, S) = [n \in 0 .. Len(f) |-> Step(Sums(f, S), n)]
  <2>1. Sums(f, S) = CHOOSE s : s = [n \in 0 .. Len(f) |-> Step(s, n)]
    BY Zenon DEF Sums
  <2> HIDE DEF Step
  <2> QED
    BY <1>6, <2>1, Zenon
<1>8. Sums(f, S) \in [0 .. Len(f) -> Int]
  <2> DEFINE h == Sums(f, S)
             T == {n \in 0 .. Len(f) : h[n] \in Int}
  <2>1. \A n \in 0 .. Len(f) : h[n] = Step(h, n)
    <3> HIDE DEF Step
    <3> QED
      BY <1>7
  <2> HIDE DEF h
  <2>2. 0 \in T
    BY <1>1, <2>1
  <2>3. ASSUME NEW n \in 0 .. Len(f) - 1, n \in T
        PROVE  n + 1 \in T
    <3>1. n + 1 \in 1 .. Len(f) /\ n + 1 \in 0 .. Len(f) /\ (n + 1) - 1 = n /\ h[n] \in Int
      BY <1>1, <2>3
    <3>2. h[n + 1] = h[n] + (IF n + 1 \in S THEN f[n + 1] ELSE 0)
      BY <2>1, <3>1
    <3>3. f[n + 1] \in Int
      BY <1>1, <3>1
    <3> QED
      BY <3>1, <3>2, <3>3
  <2>4. 0 .. Len(f) \subseteq T
    <3> HIDE DEF T
    <3> QED
      BY <1>1, <2>2, <2>3, StepsReach
  <2>5. h = [n \in 0 .. Len(f) |-> h[n]]
    <3> HIDE DEF Step
    <3> QED
      BY <1>7 DEF h
  <2> QED
    BY <2>4, <2>5 DEF h
<1>9. Sums(f, S)[0] = 0 /\ \A n \in 1 .. Len(f) : Sums(f, S)[n] = Step(Sums(f, S), n)
  <2>1. 0 \in 0 .. Len(f) /\ \A n \in 1 .. Len(f) : n \in 0 .. Len(f)
    BY <1>1
  <2>2. Sums(f, S)[0] = Step(Sums(f, S), 0)
    <3> HIDE DEF Step
    <3> QED
      BY <1>7, <2>1
  <2>3. \A n \in 1 .. Len(f) : Sums(f, S)[n] = Step(Sums(f, S), n)
    <3> HIDE DEF Step
    <3> QED
      BY <1>7, <2>1
  <2> QED
    BY <2>2, <2>3
<1> QED
  BY <1>8, <1>9

\* A partial sum asks for the members up to its place only.
LEMMA SumsLocal ==
  ASSUME NEW f \in Seq(Int), NEW S, NEW U, NEW m \in 0 .. Len(f),
         \A n \in 1 .. m : n \in S <=> n \in U
  PROVE  Sums(f, S)[m] = Sums(f, U)[m]
<1> DEFINE T == {n \in 0 .. m : Sums(f, S)[n] = Sums(f, U)[n]}
<1>1. Len(f) \in Nat /\ m \in Nat
  OBVIOUS
<1>2. 0 \in T
  BY <1>1, SumsAre
<1>3. ASSUME NEW n \in 0 .. m - 1, n \in T
      PROVE  n + 1 \in T
  <2>1. n + 1 \in 1 .. m /\ n + 1 \in 1 .. Len(f) /\ (n + 1) - 1 = n
    BY <1>1
  <2>2. /\ Sums(f, S)[n + 1] = Sums(f, S)[n] + (IF n + 1 \in S THEN f[n + 1] ELSE 0)
        /\ Sums(f, U)[n + 1] = Sums(f, U)[n] + (IF n + 1 \in U THEN f[n + 1] ELSE 0)
    BY <2>1, SumsAre
  <2> QED
    BY <1>3, <2>1, <2>2
<1> HIDE DEF T
<1>4. 0 .. m \subseteq T
  BY <1>1, <1>2, <1>3, StepsReach
<1> QED
  BY <1>1, <1>4 DEF T

\* The walk of kr_ddi_aggr_func over the stored records.
LEMMA AggregatesAre ==
  ASSUME Len(order) \in Nat, NEW method, NEW seen,
         \A p \in 1 .. Len(order) : p \in DOMAIN seen => Rec(seen[p]).val \in Int
  PROVE  LET A == Aggregates(method, seen)
         IN  /\ A \in [0 .. Len(order) -> Int]
             /\ A[0] = 0
             /\ \A k \in 1 .. Len(order) :
                  A[k] = LET p == Len(order) + 1 - k
                         IN  IF p \in DOMAIN seen THEN Aggregate(method, A[k - 1], Rec(seen[p]).val) ELSE A[k - 1]
<1> DEFINE N == Len(order)
           Next1(v, k) == IF N + 1 - k \in DOMAIN seen THEN Aggregate(method, v, Rec(seen[N + 1 - k]).val) ELSE v
           add == [k \in 1 .. N |-> [v \in Int |-> Next1(v, k)]]
           Step(g, n) == IF n = 0 THEN 0 ELSE Next1(g[n - 1], n)
<1>1. N \in Nat /\ \A n \in 1 .. N : \A v \in Int : Next1(v, n) \in Int
  <2>1. N \in Nat
    OBVIOUS
  <2>2. ASSUME NEW n \in 1 .. N, NEW v \in Int
        PROVE  Next1(v, n) \in Int
    <3>1. N + 1 - n \in 1 .. N
      BY <2>1
    <3>2. CASE N + 1 - n \in DOMAIN seen
      <4>1. PICK x \in Int : x = Rec(seen[N + 1 - n]).val
        BY <3>1, <3>2
      <4>2. Aggregate(method, v, x) \in Int
        BY DEF Aggregate
      <4> QED
        BY <4>1, <4>2
    <3>3. CASE N + 1 - n \notin DOMAIN seen
      BY <3>3
    <3> QED
      BY <3>2, <3>3
  <2> QED
    BY <2>1, <2>2
<1> HIDE DEF Next1
<1>2. StepsIn(N, Int, add)
  BY <1>1 DEF StepsIn
<1>3. PICK g \in [0 .. N -> Int] :
             g[0] = 0 /\ \A n \in 1 .. N : g[n] = add[n][g[n - 1]]
  <2> HIDE DEF add
  <2>1. 0 \in Int
    OBVIOUS
  <2>2. CanWalk(N, Int, 0, add)
    BY <1>1, <1>2, <2>1, Iterates
  <2> QED
    BY <2>2 DEF CanWalk
<1>4. \A n \in 0 .. N : g[n] = Step(g, n)
  <2> TAKE n \in 0 .. N
  <2>1. CASE n = 0
    BY <1>3, <2>1
  <2>2. CASE n # 0
    <3>1. n \in 1 .. N /\ n - 1 \in 0 .. N
      BY <1>1, <2>2
    <3>2. g[n - 1] \in Int
      BY <3>1
    <3>3. add[n][g[n - 1]] = Next1(g[n - 1], n)
      BY <3>1, <3>2
    <3> QED
      BY <1>3, <2>2, <3>1, <3>3
  <2> QED
    BY <2>1, <2>2
<1> HIDE DEF add
<1>6. g = [n \in 0 .. N |-> Step(g, n)]
  <2> HIDE DEF Step
  <2> QED
    BY <1>4
<1>7. Aggregates(method, seen) = [n \in 0 .. N |-> Step(Aggregates(method, seen), n)]
  <2>1. Aggregates(method, seen) = CHOOSE s : s = [n \in 0 .. N |-> Step(s, n)]
    BY Zenon DEF Aggregates, Next1
  <2> HIDE DEF Step
  <2> QED
    BY <1>6, <2>1, Zenon
<1>8. Aggregates(method, seen) \in [0 .. N -> Int]
  <2> DEFINE h == Aggregates(method, seen)
             T == {n \in 0 .. N : h[n] \in Int}
  <2>1. \A n \in 0 .. N : h[n] = Step(h, n)
    <3> HIDE DEF Step
    <3> QED
      BY <1>7
  <2> HIDE DEF h
  <2>2. 0 \in T
    BY <1>1, <2>1
  <2>3. ASSUME NEW n \in 0 .. N - 1, n \in T
        PROVE  n + 1 \in T
    <3>1. n + 1 \in 1 .. N /\ n + 1 \in 0 .. N /\ (n + 1) - 1 = n /\ h[n] \in Int
      BY <1>1, <2>3
    <3>2. h[n + 1] = Next1(h[n], n + 1)
      BY <2>1, <3>1
    <3> QED
      BY <1>1, <3>1, <3>2
  <2>4. 0 .. N \subseteq T
    <3> HIDE DEF T
    <3> QED
      BY <1>1, <2>2, <2>3, StepsReach
  <2>5. h = [n \in 0 .. N |-> h[n]]
    <3> HIDE DEF Step
    <3> QED
      BY <1>7 DEF h
  <2> QED
    BY <2>4, <2>5 DEF h
<1>9. Aggregates(method, seen)[0] = 0 /\ \A n \in 1 .. N : Aggregates(method, seen)[n] = Step(Aggregates(method, seen), n)
  <2>1. 0 \in 0 .. N /\ \A n \in 1 .. N : n \in 0 .. N
    BY <1>1
  <2>2. Aggregates(method, seen)[0] = Step(Aggregates(method, seen), 0)
    <3> HIDE DEF Step
    <3> QED
      BY <1>7, <2>1
  <2>3. \A n \in 1 .. N : Aggregates(method, seen)[n] = Step(Aggregates(method, seen), n)
    <3> HIDE DEF Step
    <3> QED
      BY <1>7, <2>1
  <2> QED
    BY <2>2, <2>3
<1> QED
  BY <1>8, <1>9 DEF Next1
\* As many numbers as places that an injective list has them in.
NumbersAt(c, P) == {c[p] : p \in P}

LEMMA CountImage ==
  ASSUME NEW L \in Nat, NEW c \in [1 .. L -> Nat], \A p, q \in 1 .. L : c[p] = c[q] => p = q,
         NEW P \in SUBSET (1 .. L)
  PROVE  /\ IsFiniteSet(P) /\ Cardinality(P) \in Nat
         /\ Cardinality(NumbersAt(c, P)) = Cardinality(P)
<1> DEFINE S == NumbersAt(c, P)
           f == [p \in P |-> c[p]]
<1>1. IsFiniteSet(P)
  <2>1. IsFiniteSet(1 .. L)
    BY FS_Interval
  <2> QED
    BY <2>1, FS_Subset
<1>2. f \in Bijection(P, S)
  <2>1. f \in [P -> S]
    BY DEF NumbersAt
  <2>2. \A p, q \in P : f[p] = f[q] => p = q
    OBVIOUS
  <2>3. \A s \in S : \E p \in P : f[p] = s
    BY DEF NumbersAt
  <2> HIDE DEF f, S
  <2> QED
    BY <2>1, <2>2, <2>3 DEF Bijection, Injection, Surjection, IsInjective
<1>3. ExistsBijection(P, S)
  <2> HIDE DEF f, S
  <2> QED
    BY <1>2 DEF ExistsBijection
<1>4. Cardinality(S) = Cardinality(P)
  <2> HIDE DEF f, S
  <2> QED
    BY <1>1, <1>3, FS_Bijection
<1> QED
  BY <1>1, <1>4, FS_CardinalityType

-----------------------------------------------------------------------------
(***************************************************************************)
(* What the store holds.  A numbering c gives the place p of order the     *)
(* number of its event in the history; the age of an address is how many   *)
(* events its table has had since.                                         *)
(***************************************************************************)

LaterIn(h, n) == {m \in DOMAIN h : m > n /\ h[m].tbl = h[n].tbl}
AgeIn(l, a) == l[a[1]] - 1 - a[2] + (IF a[2] < l[a[1]] THEN 0 ELSE Keep[a[1]])

Rising(c, L, N) ==
  /\ c \in [1 .. L -> 1 .. N]
  /\ \A p, q \in 1 .. L : p < q => c[p] < c[q]

Numbers(c, b, o, l, h) ==
  /\ Rising(c, Len(o), Len(h))
  /\ \A p \in 1 .. Len(o) :
       /\ b[o[p]] = <<h[c[p]]>> /\ o[p][1] = h[c[p]].tbl
       /\ Cardinality(LaterIn(h, c[p])) = AgeIn(l, o[p])
  /\ \A n \in 1 .. Len(h) :
       Cardinality(LaterIn(h, n)) < Keep[h[n].tbl] => \E p \in 1 .. Len(o) : c[p] = n

Stored(b, o, l, h) ==
  /\ h \in Seq(Event) /\ o \in Seq(Addr) /\ IsInjective(o)
  /\ l \in [Table -> Nat] /\ \A t \in Table : l[t] \in 1 .. Keep[t]
  /\ b = [a \in Addr |-> b[a]]
  /\ \E c : Numbers(c, b, o, l, h)

LEMMA AddrIs ==
  ASSUME EngineConstants, NEW a \in Addr
  PROVE  /\ a[1] \in Table /\ Keep[a[1]] \in Nat \ {0} /\ a[2] \in 1 .. Keep[a[1]]
         /\ a = <<a[1], a[2]>>
<1>1. PICK t \in Table : a \in {t} \X (1 .. Keep[t])
  BY DEF Addr
<1> QED
  BY <1>1 DEF EngineConstants

LEMMA RisingInjective ==
  ASSUME NEW L \in Nat, NEW N \in Nat, NEW c, Rising(c, L, N)
  PROVE  /\ c \in [1 .. L -> Nat]
         /\ \A p, q \in 1 .. L : c[p] = c[q] => p = q
         /\ \A p, q \in 1 .. L : c[p] < c[q] => p < q
<1>1. /\ c \in [1 .. L -> 1 .. N]
      /\ \A p, q \in 1 .. L : p < q => c[p] < c[q]
  BY DEF Rising
<1>2. c \in [1 .. L -> Nat]
  BY <1>1
<1>3. ASSUME NEW p \in 1 .. L, NEW q \in 1 .. L
      PROVE  (c[p] = c[q] => p = q) /\ (c[p] < c[q] => p < q)
  <2>1. c[p] \in Nat /\ c[q] \in Nat
    BY <1>2
  <2>2. p < q \/ p = q \/ q < p
    OBVIOUS
  <2> QED
    BY <1>1, <2>1, <2>2
<1> QED
  BY <1>2, <1>3

\* The records of the store without the one at a, and their numbers.
RestOf(o, c, a, r, d, N) ==
  /\ r \in Seq(Addr) /\ IsInjective(r)
  /\ Rising(d, Len(r), N)
  /\ \A j \in 1 .. Len(r) : \E p \in 1 .. Len(o) : o[p] = r[j] /\ o[p] # a /\ c[p] = d[j]
  /\ \A p \in 1 .. Len(o) : o[p] # a => \E j \in 1 .. Len(r) : o[p] = r[j] /\ c[p] = d[j]

LEMMA RestIs ==
  ASSUME NEW o \in Seq(Addr), IsInjective(o), NEW N \in Nat, NEW c, Rising(c, Len(o), N), NEW a
  PROVE  \E d : RestOf(o, c, a, RemoveFirst(o, a), d, N)
<1>1. /\ Len(o) \in Nat
      /\ ToSet(o) = {o[j] : j \in 1 .. Len(o)}
      /\ \A j, k \in 1 .. Len(o) : o[j] = o[k] => j = k
  BY SetOfList
<1>2. CASE a \notin ToSet(o)
  <2>1. RemoveFirst(o, a) = o
    BY <1>1, <1>2 DEF RemoveFirst
  <2>2. \A p \in 1 .. Len(o) : o[p] # a
    BY <1>1, <1>2
  <2> QED
    BY <2>1, <2>2 DEF RestOf
<1>3. CASE a \in ToSet(o)
  <2>1. PICK i \in 1 .. Len(o) : o[i] = a /\ RemoveFirst(o, a) = RemoveAt(o, i)
    BY <1>3, RemoveFirstAt
  <2> DEFINE r == RemoveAt(o, i)
             d == [j \in 1 .. Len(o) - 1 |-> IF j < i THEN c[j] ELSE c[j + 1]]
  <2>2. Removed(r, Addr, o, i)
    BY RemoveAtPositions
  <2>3. r \in Seq(Addr) /\ IsInjective(r)
    BY RemoveAtSet
  <2>4. Len(r) = Len(o) - 1 /\ i \in Nat /\ Len(r) \in Nat
    BY <1>1, <2>2 DEF Removed
  <2> DEFINE from(j) == IF j < i THEN j ELSE j + 1
  <2>5. ASSUME NEW j \in 1 .. Len(r)
        PROVE  from(j) \in 1 .. Len(o) /\ from(j) # i /\ r[j] = o[from(j)] /\ d[j] = c[from(j)]
    <3>1. j < i => j \in 1 .. i - 1
      BY <2>4
    <3>2. ~ (j < i) => j \in i .. Len(o) - 1
      BY <1>1, <2>4
    <3>3. j \in 1 .. Len(o) - 1
      BY <2>4
    <3> QED
      BY <1>1, <2>2, <2>4, <3>1, <3>2, <3>3 DEF Removed
  <2>6. ASSUME NEW p \in 1 .. Len(o), p # i
        PROVE  \E j \in 1 .. Len(r) : from(j) = p
    <3>1. CASE p < i
      <4>1. p \in 1 .. Len(r)
        BY <1>1, <2>4, <3>1
      <4> QED
        BY <3>1, <4>1
    <3>2. CASE ~ (p < i)
      <4>1. p - 1 \in 1 .. Len(r) /\ ~ (p - 1 < i) /\ (p - 1) + 1 = p
        BY <1>1, <2>4, <2>6, <3>2
      <4> QED
        BY <4>1
    <3> QED
      BY <3>1, <3>2
  <2>7. \A j, k \in 1 .. Len(r) : j < k => from(j) < from(k)
    BY <2>4
  <2>8. DOMAIN d = 1 .. Len(r) /\ d = [j \in 1 .. Len(r) |-> d[j]]
    BY <2>4
  <2> HIDE DEF d, from, r
  <2>9. Rising(d, Len(r), N)
    <3>1. \A j \in 1 .. Len(r) : d[j] \in 1 .. N
      BY <2>5 DEF Rising
    <3>2. \A j, k \in 1 .. Len(r) : j < k => d[j] < d[k]
      BY <2>5, <2>7 DEF Rising
    <3> QED
      BY <2>8, <3>1, <3>2 DEF Rising
  <2>10. \A j \in 1 .. Len(r) : \E p \in 1 .. Len(o) : o[p] = r[j] /\ o[p] # a /\ c[p] = d[j]
    <3> TAKE j \in 1 .. Len(r)
    <3>1. o[from(j)] # a
      BY <1>1, <2>1, <2>5
    <3> QED
      BY <2>5, <3>1
  <2>11. \A p \in 1 .. Len(o) : o[p] # a => \E j \in 1 .. Len(r) : o[p] = r[j] /\ c[p] = d[j]
    <3> TAKE p \in 1 .. Len(o)
    <3> HAVE o[p] # a
    <3>1. PICK j \in 1 .. Len(r) : from(j) = p
      BY <2>1, <2>6
    <3> QED
      BY <2>5, <3>1
  <2>12. RestOf(o, c, a, r, d, N)
    BY <2>3, <2>9, <2>10, <2>11 DEF RestOf
  <2> QED
    BY <2>1, <2>12 DEF r
<1> QED
  BY <1>2, <1>3

\* The events after n of the same table, when one more comes.
LEMMA LaterGrows ==
  ASSUME NEW h \in Seq(Event), NEW e \in Event, NEW n \in 1 .. Len(h)
  PROVE  /\ Cardinality(LaterIn(h, n)) \in Nat
         /\ Cardinality(LaterIn(Append(h, e), n)) =
              Cardinality(LaterIn(h, n)) + (IF h[n].tbl = e.tbl THEN 1 ELSE 0)
         /\ Cardinality(LaterIn(Append(h, e), Len(h) + 1)) = 0
<1> DEFINE h2 == Append(h, e)
           N == Len(h)
<1>1. /\ N \in Nat /\ DOMAIN h = 1 .. N /\ DOMAIN h2 = 1 .. N + 1
      /\ \A m \in 1 .. N : h2[m] = h[m]
      /\ h2[N + 1] = e
  OBVIOUS
<1> HIDE DEF h2
<1>2. IsFiniteSet(LaterIn(h, n)) /\ N + 1 \notin LaterIn(h, n)
  <2>1. IsFiniteSet(1 .. N)
    BY <1>1, FS_Interval
  <2>2. LaterIn(h, n) \in SUBSET (1 .. N)
    BY <1>1 DEF LaterIn
  <2>3. N + 1 \notin 1 .. N
    BY <1>1
  <2> QED
    BY <2>1, <2>2, <2>3, FS_Subset
<1>3. LaterIn(h2, n) = IF h[n].tbl = e.tbl THEN LaterIn(h, n) \cup {N + 1} ELSE LaterIn(h, n)
  <2>1. n \in 1 .. N /\ N + 1 > n /\ N + 1 \in 1 .. N + 1
    BY <1>1
  <2>2. \A m \in 1 .. N + 1 : m \in 1 .. N \/ m = N + 1
    BY <1>1
  <2>3. \A m \in 1 .. N : m \in 1 .. N + 1
    BY <1>1
  <2> QED
    BY <1>1, <2>1, <2>2, <2>3 DEF LaterIn
<1>4. LaterIn(h2, N + 1) = {}
  BY <1>1 DEF LaterIn
<1>5. Cardinality(LaterIn(h, n)) \in Nat
  BY <1>2, FS_CardinalityType
<1>6. Cardinality(LaterIn(h, n) \cup {N + 1}) = Cardinality(LaterIn(h, n)) + 1
  BY <1>2, FS_AddElement
<1>7. Cardinality(LaterIn(h2, n)) = Cardinality(LaterIn(h, n)) + (IF h[n].tbl = e.tbl THEN 1 ELSE 0)
  BY <1>3, <1>5, <1>6
<1>8. Cardinality(LaterIn(h2, N + 1)) = 0
  BY <1>4, FS_EmptySet
<1> QED
  BY <1>5, <1>7, <1>8 DEF h2

\* The slot a table uses next, and the next slots when it has been used.
NextSlot(l, t) == <<t, l[t]>>
Turned(l, t) == [l EXCEPT ![t] = (l[t] % Keep[t]) + 1]

\* The slot that is next is the oldest, and the newest when it has been used.
LEMMA AgesGrow ==
  ASSUME EngineConstants, NEW l \in [Table -> Nat], \A t \in Table : l[t] \in 1 .. Keep[t],
         NEW t \in Table, NEW x \in Addr
  PROVE  /\ Turned(l, t) \in [Table -> Nat] /\ \A u \in Table : Turned(l, t)[u] \in 1 .. Keep[u]
         /\ NextSlot(l, t) \in Addr
         /\ AgeIn(l, NextSlot(l, t)) = Keep[t] - 1 /\ AgeIn(Turned(l, t), NextSlot(l, t)) = 0
         /\ x # NextSlot(l, t) => AgeIn(Turned(l, t), x) = AgeIn(l, x) + (IF x[1] = t THEN 1 ELSE 0)
         /\ AgeIn(l, x) < Keep[x[1]]
<1> DEFINE l2 == [l EXCEPT ![t] = (l[t] % Keep[t]) + 1]
           a  == <<t, l[t]>>
<1>0. Turned(l, t) = l2 /\ NextSlot(l, t) = a
  BY DEF Turned, NextSlot
<1>1. PICK K \in Nat \ {0} : K = Keep[t]
  BY DEF EngineConstants
<1>2. PICK s \in 1 .. K : s = l[t]
  BY <1>1
<1>3. (s % K) + 1 \in 1 .. K /\ (s < K => s % K = s) /\ (s = K => s % K = 0)
  <2>1. s < K => s % K = s
    BY <1>1, <1>2
  <2>2. s = K => s % K = 0
    BY <1>1, <1>2
  <2> QED
    BY <1>1, <1>2, <2>1, <2>2
<1>4. /\ l2 \in [Table -> Nat] /\ l2[t] = (s % K) + 1
      /\ \A u \in Table : u # t => l2[u] = l[u]
  BY <1>1, <1>2, <1>3
<1>5. \A u \in Table : l2[u] \in 1 .. Keep[u]
  BY <1>1, <1>3, <1>4
<1>6. a \in Addr
  BY <1>1, <1>2 DEF Addr
<1>7. /\ x[1] \in Table /\ Keep[x[1]] \in Nat \ {0} /\ x[2] \in 1 .. Keep[x[1]]
      /\ x = <<x[1], x[2]>>
  BY AddrIs
<1> HIDE DEF l2
<1>8. AgeIn(l, a) = K - 1 /\ AgeIn(l2, a) = 0
  <2>1. a[1] = t /\ a[2] = s
    BY <1>2
  <2>2. s = K \/ s < K
    BY <1>2
  <2> QED
    BY <1>1, <1>2, <1>3, <1>4, <2>1, <2>2 DEF AgeIn
<1>9. x # a => AgeIn(l2, x) = AgeIn(l, x) + (IF x[1] = t THEN 1 ELSE 0)
  <2>1. CASE x[1] # t
    <3>1. l[x[1]] \in 1 .. Keep[x[1]] /\ l2[x[1]] = l[x[1]]
      BY <1>4, <1>7, <2>1
    <3>2. AgeIn(l, x) \in Int
      BY <1>7, <3>1 DEF AgeIn
    <3> QED
      BY <2>1, <3>1, <3>2 DEF AgeIn
  <2>2. CASE x[1] = t /\ x # a
    <3>1. PICK y \in 1 .. K : y = x[2]
      BY <1>1, <1>7, <2>2
    <3>2. y # s
      BY <1>2, <1>7, <2>2, <3>1
    <3>3. AgeIn(l, x) = s - 1 - y + (IF y < s THEN 0 ELSE K)
      BY <1>1, <1>2, <2>2, <3>1 DEF AgeIn
    <3>4. AgeIn(l2, x) = l2[t] - 1 - y + (IF y < l2[t] THEN 0 ELSE K)
      BY <1>1, <2>2, <3>1 DEF AgeIn
    <3>5. CASE s = K
      <4>1. l2[t] = 1
        BY <1>3, <1>4, <3>5
      <4> QED
        BY <2>2, <3>1, <3>2, <3>3, <3>4, <3>5, <4>1
    <3>6. CASE s # K
      <4>1. s < K /\ l2[t] = s + 1
        BY <1>2, <1>3, <1>4, <3>6
      <4> QED
        BY <1>2, <2>2, <3>1, <3>2, <3>3, <3>4, <4>1
    <3> QED
      BY <3>5, <3>6
  <2> QED
    BY <2>1, <2>2
<1>10. AgeIn(l, x) < Keep[x[1]]
  <2>1. l[x[1]] \in 1 .. Keep[x[1]]
    BY <1>7
  <2> QED
    BY <1>7, <2>1 DEF AgeIn
<1> HIDE DEF a
<1> QED
  BY <1>0, <1>1, <1>4, <1>5, <1>6, <1>8, <1>9, <1>10

\* kr_db_insert keeps the store in the order of age.
LEMMA InsertStored ==
  ASSUME EngineConstants, NEW b, NEW o, NEW l, NEW h, Stored(b, o, l, h), NEW e \in Event
  PROVE  LET a == <<e.tbl, l[e.tbl]>>
         IN  Stored([b EXCEPT ![a] = <<e>>], Append(RemoveFirst(o, a), a),
                    [l EXCEPT ![e.tbl] = (l[e.tbl] % Keep[e.tbl]) + 1], Append(h, e))
<1> DEFINE t  == e.tbl
           a  == <<t, l[t]>>
           b2 == [b EXCEPT ![a] = <<e>>]
           r  == RemoveFirst(o, a)
           o2 == Append(r, a)
           l2 == [l EXCEPT ![t] = (l[t] % Keep[t]) + 1]
           h2 == Append(h, e)
           N  == Len(h)
<1>1. /\ h \in Seq(Event) /\ o \in Seq(Addr) /\ IsInjective(o)
      /\ l \in [Table -> Nat] /\ \A u \in Table : l[u] \in 1 .. Keep[u]
      /\ b = [x \in Addr |-> b[x]]
  BY DEF Stored
<1>2. PICK c : Numbers(c, b, o, l, h)
  BY DEF Stored
<1>3. t \in Table /\ N \in Nat /\ Len(o) \in Nat
  BY <1>1 DEF EngineConstants
<1>4. PICK d : RestOf(o, c, a, r, d, N)
  BY <1>1, <1>2, <1>3, RestIs DEF Numbers
<1> DEFINE M  == Len(r)
           c2 == [p \in 1 .. M + 1 |-> IF p <= M THEN d[p] ELSE N + 1]
<1>5. r \in Seq(Addr) /\ IsInjective(r) /\ M \in Nat
  BY <1>4 DEF RestOf
<1>a. l2 = Turned(l, t) /\ a = NextSlot(l, t)
  BY DEF Turned, NextSlot
<1>6. \A x \in Addr :
        /\ x # a => AgeIn(l2, x) = AgeIn(l, x) + (IF x[1] = t THEN 1 ELSE 0)
        /\ AgeIn(l, x) < Keep[x[1]]
  <2> TAKE x \in Addr
  <2>1. l \in [Table -> Nat] /\ (\A u \in Table : l[u] \in 1 .. Keep[u]) /\ t \in Table
    BY <1>1, <1>3
  <2> HIDE DEF t, a, l2
  <2> QED
    BY <1>a, <2>1, AgesGrow
<1>7. /\ l2 \in [Table -> Nat] /\ \A u \in Table : l2[u] \in 1 .. Keep[u]
      /\ a \in Addr /\ AgeIn(l, a) = Keep[t] - 1 /\ AgeIn(l2, a) = 0
  <2>1. a \in {t} \X (1 .. Keep[t])
    BY <1>1, <1>3
  <2>2. \E x : x \in Addr
    BY <1>3, <2>1 DEF Addr
  <2>3. l \in [Table -> Nat] /\ (\A u \in Table : l[u] \in 1 .. Keep[u]) /\ t \in Table
    BY <1>1, <1>3
  <2> HIDE DEF t, a, l2
  <2> QED
    BY <1>a, <2>2, <2>3, AgesGrow
<1>8. a \notin ToSet(r)
  <2>1. ToSet(r) = {r[j] : j \in 1 .. M}
    BY <1>5, SetOfList
  <2> HIDE DEF r, a
  <2>2. \A j \in 1 .. M : \E p \in 1 .. Len(o) : o[p] = r[j] /\ o[p] # a
    BY <1>4 DEF RestOf
  <2> QED
    BY <2>1, <2>2
<1>9. /\ o2 \in Seq(Addr) /\ Len(o2) = M + 1 /\ \A j \in 1 .. M : o2[j] = r[j]
      /\ o2[M + 1] = a
  <2> HIDE DEF r, a
  <2> QED
    BY <1>5, <1>7
<1>10. IsInjective(o2)
  <2> HIDE DEF r, a
  <2> QED
    BY <1>5, <1>7, <1>8, AppendSet
<1>11. b2 = [x \in Addr |-> b2[x]] /\ b2[a] = <<e>> /\ \A x \in Addr : x # a => b2[x] = b[x]
  <2> HIDE DEF a
  <2> QED
    BY <1>1, <1>7
<1>12. /\ h2 \in Seq(Event) /\ Len(h2) = N + 1 /\ h2[N + 1] = e
       /\ \A n \in 1 .. N : h2[n] = h[n]
  BY <1>1
<1>13. \A n \in 1 .. N :
         /\ Cardinality(LaterIn(h, n)) \in Nat
         /\ Cardinality(LaterIn(h2, n)) = Cardinality(LaterIn(h, n)) + (IF h[n].tbl = t THEN 1 ELSE 0)
  BY <1>1, LaterGrows
<1>14. Cardinality(LaterIn(h2, N + 1)) = 0
  <2>1. h2[N + 1] = e /\ DOMAIN h2 = 1 .. N + 1
    BY <1>1
  <2> HIDE DEF h2
  <2>2. LaterIn(h2, N + 1) = {}
    BY <1>3, <2>1 DEF LaterIn
  <2> QED
    BY <2>2, FS_EmptySet
<1> HIDE DEF a, b2, r, l2, h2
<1>15. /\ d \in [1 .. M -> 1 .. N]
       /\ \A p, q \in 1 .. M : p < q => d[p] < d[q]
  BY <1>4 DEF RestOf, Rising
<1>16. /\ c2 \in [1 .. M + 1 -> 1 .. N + 1] /\ c2[M + 1] = N + 1
       /\ \A p \in 1 .. M : c2[p] = d[p]
  <2>1. \A p \in 1 .. M + 1 : p <= M => d[p] \in 1 .. N
    BY <1>5, <1>15
  <2>2. \A p \in 1 .. M + 1 : c2[p] \in 1 .. N + 1
    BY <1>3, <2>1
  <2>3. M + 1 \in 1 .. M + 1 /\ ~ (M + 1 <= M)
    BY <1>5
  <2>4. \A p \in 1 .. M : p \in 1 .. M + 1 /\ p <= M
    BY <1>5
  <2> QED
    BY <2>2, <2>3, <2>4
<1> HIDE DEF c2
<1>17. Rising(c2, M + 1, N + 1)
  <2>1. ASSUME NEW p \in 1 .. M + 1, NEW q \in 1 .. M + 1, p < q
        PROVE  c2[p] < c2[q]
    <3>1. p \in 1 .. M
      BY <1>5, <2>1
    <3>2. d[p] \in 1 .. N
      BY <1>15, <3>1
    <3>3. CASE q = M + 1
      BY <1>3, <1>16, <3>1, <3>2, <3>3
    <3>4. CASE q # M + 1
      <4>1. q \in 1 .. M
        BY <1>5, <3>4
      <4> QED
        BY <1>15, <1>16, <2>1, <3>1, <4>1
    <3> QED
      BY <3>3, <3>4
  <2> QED
    BY <1>16, <2>1 DEF Rising
<1>18. ASSUME NEW p \in 1 .. M + 1
       PROVE  /\ b2[o2[p]] = <<h2[c2[p]]>> /\ o2[p][1] = h2[c2[p]].tbl
              /\ Cardinality(LaterIn(h2, c2[p])) = AgeIn(l2, o2[p])
  <2>1. CASE p = M + 1
    <3>1. a[1] = t
      BY DEF a
    <3> QED
      BY <1>7, <1>9, <1>11, <1>12, <1>14, <1>16, <2>1, <3>1
  <2>2. CASE p # M + 1
    <3>1. p \in 1 .. M
      BY <1>5, <2>2
    <3>2. PICK q \in 1 .. Len(o) : o[q] = r[p] /\ o[q] # a /\ c[q] = d[p]
      BY <1>4, <3>1 DEF RestOf
    <3>3. /\ b[o[q]] = <<h[c[q]]>> /\ o[q][1] = h[c[q]].tbl
          /\ Cardinality(LaterIn(h, c[q])) = AgeIn(l, o[q])
      BY <1>2 DEF Numbers
    <3>4. o2[p] = o[q] /\ c2[p] = c[q] /\ c[q] \in 1 .. N /\ o[q] \in Addr
      BY <1>1, <1>9, <1>15, <1>16, <3>1, <3>2
    <3>5. h2[c2[p]] = h[c[q]]
      BY <1>12, <3>4
    <3>6. AgeIn(l2, o[q]) = AgeIn(l, o[q]) + (IF o[q][1] = t THEN 1 ELSE 0)
      BY <1>6, <3>2, <3>4
    <3>7. Cardinality(LaterIn(h2, c[q])) = Cardinality(LaterIn(h, c[q])) + (IF h[c[q]].tbl = t THEN 1 ELSE 0)
      BY <1>13, <3>4
    <3> QED
      BY <1>11, <3>2, <3>3, <3>4, <3>5, <3>6, <3>7
  <2> QED
    BY <2>1, <2>2
<1>19. ASSUME NEW n \in 1 .. N + 1, Cardinality(LaterIn(h2, n)) < Keep[h2[n].tbl]
       PROVE  \E p \in 1 .. M + 1 : c2[p] = n
  <2>1. CASE n = N + 1
    <3>1. M + 1 \in 1 .. M + 1
      BY <1>5
    <3> QED
      BY <1>16, <2>1, <3>1
  <2>2. CASE n # N + 1
    <3>1. n \in 1 .. N
      BY <1>3, <2>2
    <3>2. h[n] \in Event /\ h2[n] = h[n]
      BY <1>1, <1>12, <3>1
    <3>3. Keep[h[n].tbl] \in Nat
      BY <3>2 DEF EngineConstants
    <3>4. /\ Cardinality(LaterIn(h, n)) \in Nat
          /\ Cardinality(LaterIn(h2, n)) = Cardinality(LaterIn(h, n)) + (IF h[n].tbl = t THEN 1 ELSE 0)
      BY <1>13, <3>1
    <3>5. Cardinality(LaterIn(h, n)) < Keep[h[n].tbl]
      BY <1>19, <3>2, <3>3, <3>4
    <3>6. PICK p \in 1 .. Len(o) : c[p] = n
      BY <1>2, <3>1, <3>5 DEF Numbers
    <3>7. o[p] # a
      <4> SUFFICES ASSUME o[p] = a
                   PROVE  FALSE
        OBVIOUS
      <4>1. a[1] = t
        BY DEF a
      <4>2. h[n].tbl = t /\ Cardinality(LaterIn(h, n)) = Keep[t] - 1
        BY <1>2, <1>7, <3>6, <4>1 DEF Numbers
      <4> QED
        BY <1>19, <3>2, <3>3, <3>4, <4>2
    <3>8. PICK j \in 1 .. M : o[p] = r[j] /\ c[p] = d[j]
      BY <1>4, <3>7 DEF RestOf
    <3>9. j \in 1 .. M + 1
      BY <1>5
    <3> QED
      BY <1>16, <3>6, <3>8, <3>9
  <2> QED
    BY <2>1, <2>2
<1>20. Numbers(c2, b2, o2, l2, h2)
  BY <1>9, <1>12, <1>17, <1>18, <1>19 DEF Numbers
<1>21. Stored(b2, o2, l2, h2)
  BY <1>7, <1>9, <1>10, <1>11, <1>12, <1>20 DEF Stored
<1> QED
  BY <1>21 DEF a, b2, r, l2, h2

-----------------------------------------------------------------------------
(***************************************************************************)
(* The current record is the last one, and what the data items see of the  *)
(* store is what the history says of the events that are still held.       *)
(***************************************************************************)

StoreInv == Stored(buff, order, loc, history)

\* The numbering c, for a record that is the last one of order.
Located(c) ==
  /\ Len(order) \in Nat \ {0} /\ Len(history) \in Nat
  /\ DOMAIN order = 1 .. Len(order) /\ DOMAIN history = 1 .. Len(history)
  /\ \A p, q \in 1 .. Len(order) : order[p] = order[q] => p = q
  /\ c \in [1 .. Len(order) -> Nat]
  /\ \A p, q \in 1 .. Len(order) : c[p] = c[q] => p = q
  /\ \A p, q \in 1 .. Len(order) : p < q <=> c[p] < c[q]
  /\ c[Len(order)] = Len(history)
  /\ \A p \in 1 .. Len(order) :
       /\ c[p] \in 1 .. Len(history) /\ c[p] \in Held
       /\ Rec(order[p]) = history[c[p]] /\ order[p][1] = history[c[p]].tbl
       /\ history[c[p]].val \in Int
  /\ \A n \in Held : \E p \in 1 .. Len(order) : c[p] = n
  /\ ctx.curr = order[Len(order)] /\ Rec(ctx.curr) = Now /\ ctx.curr[1] = Now.tbl

LEMMA LastIsNow ==
  ASSUME EngineConstants, StoreInv, Len(order) # 0, ctx.curr = order[Len(order)]
  PROVE  \E c : Located(c)
<1> DEFINE L == Len(order)
           H == Len(history)
<1>1. history \in Seq(Event) /\ order \in Seq(Addr) /\ IsInjective(order) /\ loc \in [Table -> Nat]
      /\ \A t \in Table : loc[t] \in 1 .. Keep[t]
  BY DEF StoreInv, Stored
<1>2. PICK c : Numbers(c, buff, order, loc, history)
  BY DEF StoreInv, Stored
<1>3. /\ L \in Nat \ {0} /\ H \in Nat
      /\ DOMAIN order = 1 .. L /\ DOMAIN history = 1 .. H
  BY <1>1
<1>4. \A p, q \in 1 .. L : order[p] = order[q] => p = q
  BY <1>1, <1>3 DEF IsInjective
<1>5. Rising(c, L, H)
  BY <1>2 DEF Numbers
<1>6. /\ c \in [1 .. L -> Nat]
      /\ \A p, q \in 1 .. L : c[p] = c[q] => p = q
      /\ \A p, q \in 1 .. L : c[p] < c[q] => p < q
  BY <1>3, <1>5, RisingInjective
<1>7. \A p \in 1 .. L : c[p] \in 1 .. H
  BY <1>5 DEF Rising
<1>8. \A p, q \in 1 .. L : p < q <=> c[p] < c[q]
  BY <1>5, <1>6 DEF Rising
<1>9. \A n : Later(n) = LaterIn(history, n)
  BY DEF Later, LaterIn
<1>10. ASSUME NEW p \in 1 .. L
       PROVE  /\ Rec(order[p]) = history[c[p]] /\ order[p][1] = history[c[p]].tbl
              /\ history[c[p]].val \in Int /\ c[p] \in Held
  <2>1. /\ buff[order[p]] = <<history[c[p]]>> /\ order[p][1] = history[c[p]].tbl
        /\ Cardinality(LaterIn(history, c[p])) = AgeIn(loc, order[p])
    BY <1>2 DEF Numbers
  <2>2. history[c[p]] \in Event /\ order[p] \in Addr
    BY <1>1, <1>7
  <2>3. history[c[p]].val \in Int
    BY <2>2 DEF EngineConstants
  <2>4. order[p][1] \in Table
    BY <2>2, AddrIs
  <2>5. AgeIn(loc, order[p]) < Keep[order[p][1]]
    BY <1>1, <2>2, <2>4, AgesGrow
  <2>6. Rec(order[p]) = history[c[p]]
    BY <2>1 DEF Rec
  <2>7. c[p] \in Held
    BY <1>3, <1>7, <1>9, <2>1, <2>5 DEF Held
  <2> QED
    BY <2>1, <2>3, <2>6, <2>7
<1>11. ASSUME NEW n \in Held
       PROVE  \E p \in 1 .. L : c[p] = n
  <2>1. n \in 1 .. H /\ Cardinality(LaterIn(history, n)) < Keep[history[n].tbl]
    BY <1>3, <1>9 DEF Held
  <2> QED
    BY <1>2, <2>1 DEF Numbers
<1>12. H \in Held
  <2>1. 1 \in 1 .. L /\ H \in 1 .. H
    BY <1>3, <1>7
  <2>2. Later(H) = {}
    BY <1>3 DEF Later
  <2>3. Cardinality(Later(H)) = 0
    BY <2>2, FS_EmptySet
  <2>4. history[H] \in Event
    BY <1>1, <2>1
  <2>5. Keep[history[H].tbl] \in Nat \ {0}
    BY <2>4 DEF EngineConstants
  <2> QED
    BY <1>3, <2>1, <2>3, <2>5 DEF Held
<1> HIDE DEF L, H
<1>13. c[L] = H
  <2>1. PICK p \in 1 .. L : c[p] = H
    BY <1>11, <1>12
  <2>2. L \in 1 .. L
    BY <1>3
  <2>3. p = L \/ p < L
    BY <1>3
  <2>4. c[L] \in 1 .. H
    BY <1>7, <2>2
  <2>5. ~ (p < L)
    <3> SUFFICES ASSUME p < L
                 PROVE  FALSE
      OBVIOUS
    <3>1. H < c[L]
      BY <1>8, <2>1, <2>2
    <3> QED
      BY <1>3, <2>4, <3>1
  <2> QED
    BY <2>1, <2>3, <2>5
<1>14. L \in 1 .. L
  BY <1>3
<1>15. Rec(ctx.curr) = Now /\ ctx.curr[1] = Now.tbl
  BY <1>10, <1>13, <1>14 DEF Now, L, H
<1>16. Located(c)
  BY <1>3, <1>4, <1>6, <1>7, <1>8, <1>10, <1>11, <1>13, <1>15 DEF Located, L, H
<1> QED
  BY <1>16

\* kr_get_record_list returns the peers of the current event.
LEMMA ListIsPeers ==
  ASSUME NEW c, Located(c)
  PROVE  /\ RecList(ctx.curr) \in SUBSET (1 .. Len(order))
         /\ \A p \in 1 .. Len(order) : p \in RecList(ctx.curr) <=> c[p] \in Peers
         /\ \A n \in Peers : \E p \in RecList(ctx.curr) : c[p] = n
<1>1. RecList(ctx.curr) \in SUBSET (1 .. Len(order))
  BY DEF RecList, Located
<1>2. ASSUME NEW p \in 1 .. Len(order)
      PROVE  p \in RecList(ctx.curr) <=> c[p] \in Peers
  BY DEF RecList, Located, Peers
<1>3. ASSUME NEW n \in Peers
      PROVE  \E p \in RecList(ctx.curr) : c[p] = n
  <2>1. n \in Held
    BY DEF Peers
  <2>2. PICK p \in 1 .. Len(order) : c[p] = n
    BY <2>1 DEF Located
  <2> QED
    BY <1>2, <2>2
<1> QED
  BY <1>1, <1>2, <1>3

\* The filter of a definition, evaluated for the records at tried, keeps those
\* whose events are in kept.
Keeps(c, d, kept, tried, sub) ==
  /\ \A p \in 1 .. Len(order) : c[p] \in kept => order[p][1] = d.datasrc
  /\ \A p \in tried : Passes(d.filter, order[p], ctx.curr, sub) <=> c[p] \in kept

LEMMA FieldKeeps ==
  ASSUME NEW c, Located(c), NEW i, OfField(Def[i].filter), NEW sub,
         NEW tried \in SUBSET (1 .. Len(order)), \A p \in tried : order[p][1] = Def[i].datasrc
  PROVE  Keeps(c, Def[i], KeptByField(i), tried, sub)
<1>1. \A p \in 1 .. Len(order) :
        /\ c[p] \in Held /\ Rec(order[p]) = history[c[p]] /\ order[p][1] = history[c[p]].tbl
  BY DEF Located
<1>2. Rec(ctx.curr) = Now
  BY DEF Located
<1>3. \A p \in 1 .. Len(order) : c[p] \in KeptByField(i) => order[p][1] = Def[i].datasrc
  BY <1>1 DEF KeptByField
<1>4. ASSUME NEW p \in tried
      PROVE  Passes(Def[i].filter, order[p], ctx.curr, sub) <=> c[p] \in KeptByField(i)
  <2>0. p \in 1 .. Len(order)
    OBVIOUS
  <2>1. CASE Def[i].filter.kind = "FID"
    <3>1. Passes(Def[i].filter, order[p], ctx.curr, sub) <=> Def[i].filter.least <= history[c[p]].val
      BY <1>1, <2>0, <2>1 DEF Passes
    <3>2. c[p] \in KeptByField(i) <=> history[c[p]].val >= Def[i].filter.least
      BY <1>1, <2>0, <2>1 DEF KeptByField
    <3> QED
      BY <3>1, <3>2
  <2>2. CASE Def[i].filter.kind = "CID"
    <3>1. Passes(Def[i].filter, order[p], ctx.curr, sub) <=> Def[i].filter.least <= Now.val
      BY <1>2, <2>2 DEF Passes
    <3>2. c[p] \in KeptByField(i) <=> Now.val >= Def[i].filter.least
      BY <1>1, <2>0, <2>2 DEF KeptByField
    <3> QED
      BY <3>1, <3>2
  <2> QED
    BY <2>1, <2>2 DEF OfField
<1> QED
  BY <1>3, <1>4 DEF Keeps

\* The item that the filter asks for has the value it is defined to have.
LEMMA ItemKeeps ==
  ASSUME NEW c, Located(c), NEW i, ~ OfField(Def[i].filter), NEW sub,
         Defined(Def[i].filter.id, KeptByField(Def[i].filter.id)) = {sub.value},
         NEW tried \in SUBSET (1 .. Len(order)), \A p \in tried : order[p][1] = Def[i].datasrc
  PROVE  Keeps(c, Def[i], KeptByItem(i), tried, sub)
<1>1. \A p \in 1 .. Len(order) : c[p] \in Held /\ order[p][1] = history[c[p]].tbl
  BY DEF Located
<1>2. \A n : n \in KeptByItem(i) <=> n \in Held /\ history[n].tbl = Def[i].datasrc /\ sub.value >= Def[i].filter.least
  BY DEF KeptByItem
<1>3. \A p : Passes(Def[i].filter, order[p], ctx.curr, sub) <=> Def[i].filter.least <= sub.value
  BY DEF Passes, OfField
<1>4. \A p \in tried : p \in 1 .. Len(order)
  OBVIOUS
<1> QED
  BY <1>1, <1>2, <1>3, <1>4 DEF Keeps

\* A set of places and the set of the numbers there, beyond p.
NumbersBeyond(c, P, k) == {n \in {c[q] : q \in P} : n > k}

LEMMA NewerCounts ==
  ASSUME NEW c, Located(c), NEW P \in SUBSET (1 .. Len(order)), NEW p \in 1 .. Len(order)
  PROVE  /\ Newer(P, p) \in Nat
         /\ Newer(P, p) = Cardinality(NumbersBeyond(c, P, c[p]))
         /\ \A q \in P : q > p => Newer(P, q) < Newer(P, p)
<1> DEFINE N(r) == {q \in P : q > r}
<1>1. /\ Len(order) \in Nat /\ c \in [1 .. Len(order) -> Nat]
      /\ \A q, r \in 1 .. Len(order) : c[q] = c[r] => q = r
      /\ \A q, r \in 1 .. Len(order) : q < r <=> c[q] < c[r]
  BY DEF Located
<1>2. \A r : N(r) \in SUBSET (1 .. Len(order))
  OBVIOUS
<1>3. \A r : /\ IsFiniteSet(N(r)) /\ Cardinality(N(r)) \in Nat
             /\ Cardinality(NumbersAt(c, N(r))) = Cardinality(N(r))
  <2> HIDE DEF N
  <2> QED
    BY <1>1, <1>2, CountImage
<1>4. NumbersAt(c, N(p)) = NumbersBeyond(c, P, c[p])
  BY <1>1 DEF NumbersAt, NumbersBeyond
<1>5. ASSUME NEW q \in P, q > p
      PROVE  Cardinality(N(q)) < Cardinality(N(p))
  <2>1. q \in 1 .. Len(order) /\ q \in N(p) /\ q \notin N(q)
    BY <1>1, <1>5
  <2>2. \A r \in P : r > q => r > p
    <3> TAKE r \in P
    <3>1. r \in Nat /\ q \in Nat /\ p \in Nat
      BY <1>1
    <3> QED
      BY <1>5, <3>1
  <2>3. N(q) \in SUBSET N(p)
    BY <2>2
  <2> HIDE DEF N
  <2> QED
    BY <1>3, <2>1, <2>3, FS_Subset
<1> QED
  BY <1>3, <1>4, <1>5 DEF Newer

-----------------------------------------------------------------------------
(***************************************************************************)
(* Static items.                                                           *)
(***************************************************************************)

IsMemo(m) ==
  DOMAIN m = {"curr", "set", "value", "related", "moved"} /\ m.set \in BOOLEAN /\ m.moved \in BOOLEAN

\* A remembered item is what is meant, from the events it is to come from, if
\* that can be said of it.
Exact(m, sound, meant, used) ==
  m.set /\ ~ m.moved /\ sound
    => meant = {m.value} /\ {Rec(a) : a \in m.related} = {history[n] : n \in used}

\* A value from the records seen.
LEMMA ReadIs ==
  ASSUME NEW m, NEW seen, NEW v
  PROVE  LET r == ReadFrom(m, seen, v)
         IN  /\ IsMemo(r) /\ r.curr = m.curr /\ r.set /\ r.value = v
             /\ r.related = {seen[p] : p \in DOMAIN seen}
             /\ r.moved <=> \E p \in DOMAIN seen : seen[p] # order[p]
<1> DEFINE moved == \E p \in DOMAIN seen : seen[p] # order[p]
           related == {seen[p] : p \in DOMAIN seen}
<1>1. ReadFrom(m, seen, v) = [curr |-> m.curr, set |-> TRUE, value |-> v, related |-> related, moved |-> moved]
  BY DEF ReadFrom
<1>2. moved \in BOOLEAN
  OBVIOUS
<1> HIDE DEF moved, related
<1>3. LET r == [curr |-> m.curr, set |-> TRUE, value |-> v, related |-> related, moved |-> moved]
      IN  IsMemo(r) /\ r.curr = m.curr /\ r.set /\ r.value = v /\ r.related = related /\ (r.moved <=> moved)
  BY <1>2 DEF IsMemo
<1> QED
  BY <1>1, <1>3 DEF moved, related

ValuesOf(S) == {history[n].val : n \in S}

LEMMA SdiTriedIs ==
  ASSUME NEW d, NEW p
  PROVE  p \in SdiTried(d, ctx.curr)
           <=> /\ p \in RecList(ctx.curr) /\ order[p][1] = d.datasrc
               /\ d.location = "ABSOLUTE" => Newer(RecList(ctx.curr), p) = d.place
BY DEF SdiTried

LEMMA SdiExact ==
  ASSUME NEW c, Located(c), NEW d, d.location \in {"ABSOLUTE", "RELATIVE"},
         NEW m, IsMemo(m), ~ m.set, NEW sub, NEW sound, NEW kept,
         sub.set /\ sound => Keeps(c, d, kept, SdiTried(d, ctx.curr), sub)
  PROVE  LET r == SdiAggr(d, m, ctx.curr, sub)
         IN  IsMemo(r) /\ Exact(r, sound, ValuesOf(Named(d, kept)), Named(d, kept))
<1> DEFINE L      == Len(order)
           list   == RecList(ctx.curr)
           tried  == SdiTried(d, ctx.curr)
           good   == {p \in tried : Passes(d.filter, order[p], ctx.curr, sub)}
           hit    == {p \in good : d.location = "RELATIVE" => Newer(good, p) = d.place}
           seen   == Seen(tried, hit, sub)
           r      == ReadFrom(m, seen, Rec(seen[Max(hit)]).val)
           within == IF d.location = "ABSOLUTE" THEN list ELSE good
           Among  == {n \in Peers : d.location = "RELATIVE" => n \in kept}
<1>0. SdiAggr(d, m, ctx.curr, sub) = IF ~ sub.set \/ hit = {} THEN m ELSE r
  BY DEF SdiAggr
<1>k. CASE ~ sub.set \/ hit = {}
  <2>1. SdiAggr(d, m, ctx.curr, sub) = m
    BY <1>0, <1>k
  <2> QED
    BY <2>1 DEF Exact
<1>m. CASE sub.set /\ hit # {} /\ ~ (~ r.moved /\ sound)
  <2> HIDE DEF hit, seen, r
  <2>1. SdiAggr(d, m, ctx.curr, sub) = r
    BY <1>0, <1>m
  <2>2. IsMemo(r)
    BY ReadIs DEF r
  <2> QED
    BY <1>m, <2>1, <2>2 DEF Exact
<1>n. CASE sub.set /\ hit # {} /\ ~ r.moved /\ sound
  <2>1. /\ list \in SUBSET (1 .. L)
        /\ \A p \in 1 .. L : p \in list <=> c[p] \in Peers
        /\ \A n \in Peers : \E p \in list : c[p] = n
    BY ListIsPeers
  <2>2. /\ \A p \in 1 .. L : c[p] \in kept => order[p][1] = d.datasrc
        /\ \A p \in tried : Passes(d.filter, order[p], ctx.curr, sub) <=> c[p] \in kept
    BY <1>n DEF Keeps
  <2>3. L \in Nat \ {0}
    BY DEF Located
  <2>t. \A p : p \in tried <=> /\ p \in list /\ order[p][1] = d.datasrc
                               /\ d.location = "ABSOLUTE" => Newer(list, p) = d.place
    BY SdiTriedIs
  <2> HIDE DEF list, L, tried
  <2>4. /\ good \in SUBSET (1 .. L) /\ within \in SUBSET (1 .. L) /\ good \subseteq within
        /\ \A p \in 1 .. L : p \in good <=> /\ c[p] \in Peers /\ c[p] \in kept
                                            /\ d.location = "ABSOLUTE" => Newer(list, p) = d.place
    <3>1. \A p \in 1 .. L : p \in good <=> /\ c[p] \in Peers /\ c[p] \in kept
                                           /\ d.location = "ABSOLUTE" => Newer(list, p) = d.place
      BY <2>1, <2>2, <2>t
    <3>2. good \in SUBSET list
      BY <2>t
    <3> QED
      BY <2>1, <3>1, <3>2
  <2>5. {c[q] : q \in within} = Among
    <3>1. CASE d.location = "ABSOLUTE"
      <4>1. within = list /\ Among = Peers
        BY <3>1
      <4> HIDE DEF within, Among
      <4>2. {c[q] : q \in list} = Peers
        BY <2>1
      <4> QED
        BY <4>1, <4>2
    <3>2. CASE d.location = "RELATIVE"
      <4>1. within = good /\ Among = {n \in Peers : n \in kept}
        BY <3>2
      <4> HIDE DEF good
      <4>2. \A n \in Peers : n \in kept => \E p \in good : c[p] = n
        BY <2>1, <2>4, <3>2
      <4>3. \A p \in good : c[p] \in Peers /\ c[p] \in kept
        BY <2>4
      <4>4. {c[q] : q \in good} = {n \in Peers : n \in kept}
        BY <4>2, <4>3
      <4> HIDE DEF within, Among
      <4> QED
        BY <4>1, <4>4
    <3> QED
      BY <3>1, <3>2
  <2>h. \A p \in 1 .. L : p \in hit <=> c[p] \in Peers /\ c[p] \in kept /\ Newer(within, p) = d.place
    <3>1. CASE d.location = "ABSOLUTE"
      <4>1. within = list /\ \A p : p \in hit <=> p \in good
        BY <3>1
      <4> HIDE DEF good, within, hit
      <4> QED
        BY <2>4, <3>1, <4>1
    <3>2. CASE d.location = "RELATIVE"
      <4>1. within = good /\ \A p : p \in hit <=> p \in good /\ Newer(good, p) = d.place
        BY <3>2
      <4> HIDE DEF good, within, hit
      <4> QED
        BY <2>4, <3>2, <4>1
    <3> QED
      BY <3>1, <3>2
  <2>6. ASSUME NEW p \in 1 .. L
        PROVE  p \in hit <=> c[p] \in Named(d, kept)
    <3> HIDE DEF within, hit
    <3>1. Newer(within, p) = Cardinality(NumbersBeyond(c, within, c[p]))
      BY <2>4, NewerCounts DEF L
    <3>2. NumbersBeyond(c, within, c[p])
            = {n \in Peers : n > c[p] /\ (d.location = "RELATIVE" => n \in kept)}
      BY <2>5 DEF NumbersBeyond
    <3> QED
      BY <2>h, <3>1, <3>2 DEF Named
  <2> HIDE DEF seen, r
  <2>7. \A n \in Named(d, kept) : \E p \in hit : c[p] = n
    <3> TAKE n \in Named(d, kept)
    <3>1. n \in Peers
      BY DEF Named
    <3>2. PICK p \in list : c[p] = n
      BY <2>1, <3>1
    <3> HIDE DEF hit
    <3> QED
      BY <2>1, <2>6, <3>2
  <2>8. \A q \in hit : q \in good
    OBVIOUS
  <2> HIDE DEF hit, good
  <2>9. \A q \in hit : q \in 1 .. L /\ q \in within /\ Newer(within, q) = d.place
    <3> HIDE DEF within
    <3> QED
      BY <2>4, <2>8, <2>h
  <2> HIDE DEF within
  <2>10. PICK p \in hit : TRUE
    BY <1>n
  <2>11. ASSUME NEW q \in hit
         PROVE  q = p
    <3>1. p \in 1 .. L /\ q \in 1 .. L /\ p \in within /\ q \in within
      BY <2>9
    <3>2. Newer(within, p) = d.place /\ Newer(within, q) = d.place
      BY <2>9
    <3>3. /\ Newer(within, p) \in Nat
          /\ q > p => Newer(within, q) < Newer(within, p)
          /\ p > q => Newer(within, p) < Newer(within, q)
      BY <2>4, <3>1, NewerCounts DEF L
    <3> QED
      BY <2>3, <3>1, <3>2, <3>3
  <2>12. p \in 1 .. L
    BY <2>9
  <2>13. hit = {p}
    BY <2>10, <2>11
  <2>14. Max(hit) = p
    <3>1. \A k \in hit : k <= L
      BY <2>3, <2>12, <2>13
    <3>2. hit \in SUBSET Int /\ L \in Int
      BY <2>3, <2>12, <2>13
    <3> QED
      BY <2>13, <3>1, <3>2, MaxOf
  <2>15. Named(d, kept) = {c[p]}
    <3>1. c[p] \in Named(d, kept)
      BY <2>6, <2>10, <2>12
    <3>2. \A n \in Named(d, kept) : n = c[p]
      BY <2>7, <2>13
    <3> QED
      BY <3>1, <3>2
  <2>16. /\ IsMemo(r) /\ r.set /\ r.value = Rec(seen[p]).val
         /\ r.related = {seen[q] : q \in DOMAIN seen}
         /\ \A q \in DOMAIN seen : seen[q] = order[q]
    BY <1>n, <2>14, ReadIs DEF r
  <2>17. DOMAIN seen = {p}
    BY <2>13 DEF seen, Seen
  <2>18. seen[p] = order[p] /\ Rec(order[p]) = history[c[p]]
    BY <2>12, <2>16, <2>17 DEF Located, L
  <2>19. SdiAggr(d, m, ctx.curr, sub) = r
    BY <1>0, <1>n
  <2>20. ValuesOf(Named(d, kept)) = {r.value}
    BY <2>15, <2>16, <2>18 DEF ValuesOf
  <2>21. {Rec(a) : a \in r.related} = {history[n] : n \in Named(d, kept)}
    <3>1. r.related = {order[p]}
      BY <2>16, <2>17, <2>18
    <3> QED
      BY <2>15, <2>18, <3>1
  <2> QED
    BY <2>16, <2>19, <2>20, <2>21 DEF Exact
<1> QED
  BY <1>k, <1>m, <1>n

-----------------------------------------------------------------------------
(***************************************************************************)
(* Dynamic items: a walk over the places U of N, from the last one on,     *)
(* that aggregates the numbers x there.                                    *)
(***************************************************************************)

Walk(A, N, method, U, x) ==
  /\ A \in [0 .. N -> Int] /\ A[0] = 0
  /\ \A k \in 0 .. N - 1 :
       A[k + 1] = IF N - k \in U THEN Aggregate(method, A[k], x[N - k]) ELSE A[k]

LEMMA CountWalk ==
  ASSUME NEW N \in Nat, NEW U \in SUBSET (1 .. N), NEW x \in [1 .. N -> Int],
         NEW A, Walk(A, N, "COUNT", U, x)
  PROVE  A[N] = Cardinality(U)
<1> DEFINE New(k) == {p \in U : p > N - k}
           T == {k \in 0 .. N : A[k] = Cardinality(New(k))}
<1>a. \A p \in U : p \in Int /\ p >= 1 /\ p <= N
  OBVIOUS
<1>1. 0 \in T
  <2>1. \A p \in U : ~ (p > N - 0)
    BY <1>a
  <2>2. New(0) = {}
    BY <2>1
  <2>3. A[0] = Cardinality(New(0))
    BY <2>2, FS_EmptySet DEF Walk
  <2> QED
    BY <2>3
<1>2. ASSUME NEW k \in 0 .. N - 1, k \in T
      PROVE  k + 1 \in T
  <2>1. /\ k + 1 \in 0 .. N /\ A[k] = Cardinality(New(k)) /\ A[k] \in Int
        /\ A[k + 1] = IF N - k \in U THEN A[k] + 1 ELSE A[k]
    BY <1>2 DEF Walk, Aggregate
  <2>2. IsFiniteSet(New(k))
    <3>1. IsFiniteSet(1 .. N)
      BY FS_Interval
    <3>2. New(k) \in SUBSET (1 .. N)
      OBVIOUS
    <3> QED
      BY <3>1, <3>2, FS_Subset
  <2>3. \A p \in U : p > N - (k + 1) <=> p > N - k \/ p = N - k
    BY <1>a
  <2>4. CASE N - k \in U
    <3>1. \A p : p \in New(k + 1) <=> p \in New(k) \/ p = N - k
      BY <2>3, <2>4
    <3>2. New(k + 1) = New(k) \cup {N - k}
      <4> HIDE DEF New
      <4> QED
        BY <3>1
    <3>3. N - k \notin New(k)
      OBVIOUS
    <3> HIDE DEF New
    <3>4. Cardinality(New(k + 1)) = Cardinality(New(k)) + 1
      BY <2>2, <3>2, <3>3, FS_AddElement
    <3> QED
      BY <2>1, <2>4, <3>4
  <2>5. CASE N - k \notin U
    <3>1. New(k + 1) = New(k)
      BY <2>3, <2>5
    <3> HIDE DEF New
    <3> QED
      BY <2>1, <2>5, <3>1
  <2> QED
    BY <2>4, <2>5
<1>3. N \in T
  <2> HIDE DEF T
  <2>1. 0 .. N \subseteq T
    BY <1>1, <1>2, StepsReach
  <2> QED
    BY <2>1
<1>4. New(N) = U
  <2>1. \A p \in U : p > N - N
    BY <1>a
  <2> QED
    BY <2>1
<1> QED
  BY <1>3, <1>4

\* The walk starts from 0: it finds the least number if there is none above it.
Values(x, U) == {x[p] : p \in U}

LEMMA MinWalk ==
  ASSUME NEW N \in Nat, NEW U \in SUBSET (1 .. N), NEW x \in [1 .. N -> Int],
         NEW A, Walk(A, N, "MIN", U, x), \E p \in U : x[p] <= 0
  PROVE  A[N] = Min(Values(x, U))
<1> DEFINE V == {x[p] : p \in U} \cup {0}
           T == {k \in 0 .. N : A[k] \in V /\ A[k] <= 0 /\ \A p \in U : p > N - k => A[k] <= x[p]}
<1>1. 0 \in T
  BY DEF Walk
<1>2. ASSUME NEW k \in 0 .. N - 1, k \in T
      PROVE  k + 1 \in T
  <2>1. /\ k \in 0 .. N /\ k + 1 \in 0 .. N /\ N - k \in 1 .. N
        /\ A[k] \in V /\ A[k] <= 0 /\ A[k] \in Int
        /\ \A p \in U : p > N - k => A[k] <= x[p]
    BY <1>2 DEF Walk
  <2>2. x[N - k] \in Int
    BY <2>1
  <2>3. A[k + 1] = IF N - k \in U /\ x[N - k] < A[k] THEN x[N - k] ELSE A[k]
    BY <2>1 DEF Walk, Aggregate
  <2>4. ASSUME NEW p \in U
        PROVE  x[p] \in Int /\ (p > N - (k + 1) <=> p > N - k \/ p = N - k)
    <3>1. p \in 1 .. N
      OBVIOUS
    <3>2. x[p] \in Int
      BY <3>1
    <3>3. p \in Int /\ N \in Int /\ k \in Int
      BY <2>1, <3>1
    <3> QED
      BY <3>2, <3>3
  <2>5. A[k + 1] \in V /\ A[k + 1] <= 0
    BY <2>1, <2>2, <2>3
  <2>6. ASSUME NEW p \in U, p > N - (k + 1)
        PROVE  A[k + 1] <= x[p]
    <3>1. p = N - k \/ A[k] <= x[p]
      BY <2>1, <2>4, <2>6
    <3>2. x[p] \in Int
      BY <2>4
    <3>3. CASE p = N - k
      BY <2>1, <2>2, <2>3, <3>2, <3>3
    <3>4. CASE A[k] <= x[p]
      BY <2>1, <2>2, <2>3, <3>2, <3>4
    <3> QED
      BY <3>1, <3>3, <3>4
  <2> QED
    BY <2>1, <2>5, <2>6
<1>3. N \in T
  <2> HIDE DEF T
  <2>1. 0 .. N \subseteq T
    BY <1>1, <1>2, StepsReach
  <2> QED
    BY <2>1
<1>4. A[N] \in V /\ \A v \in V : A[N] <= v
  <2>1. A[N] \in V /\ A[N] <= 0 /\ \A p \in U : p > N - N => A[N] <= x[p]
    BY <1>3
  <2>2. \A p \in U : p > N - N
    <3>1. N - N = 0 /\ \A p \in 1 .. N : p > 0
      OBVIOUS
    <3> QED
      BY <3>1
  <2>3. \A p \in U : A[N] <= x[p]
    BY <2>1, <2>2
  <2> QED
    BY <2>1, <2>3
<1>5. A[N] \in Values(x, U)
  <2>1. PICK p \in U : x[p] <= 0
    OBVIOUS
  <2>2. A[N] <= x[p] /\ x[p] \in Int
    BY <1>4
  <2>3. A[N] = 0 => A[N] = x[p]
    BY <2>1, <2>2
  <2> QED
    BY <1>4, <2>3 DEF Values
<1>6. \A v \in Values(x, U) : v \in Int /\ A[N] <= v
  BY <1>4 DEF Values
<1>7. \A v \in Values(x, U) : (\A w \in Values(x, U) : v <= w) => v = A[N]
  BY <1>5, <1>6
<1> QED
  BY <1>5, <1>6, <1>7 DEF Min

LEMMA MaxWalk ==
  ASSUME NEW N \in Nat, NEW U \in SUBSET (1 .. N), NEW x \in [1 .. N -> Int],
         NEW A, Walk(A, N, "MAX", U, x), \E p \in U : x[p] >= 0
  PROVE  A[N] = Max(Values(x, U))
<1> DEFINE V == {x[p] : p \in U} \cup {0}
           T == {k \in 0 .. N : A[k] \in V /\ A[k] >= 0 /\ \A p \in U : p > N - k => A[k] >= x[p]}
<1>1. 0 \in T
  BY DEF Walk
<1>2. ASSUME NEW k \in 0 .. N - 1, k \in T
      PROVE  k + 1 \in T
  <2>1. /\ k \in 0 .. N /\ k + 1 \in 0 .. N /\ N - k \in 1 .. N
        /\ A[k] \in V /\ A[k] >= 0 /\ A[k] \in Int
        /\ \A p \in U : p > N - k => A[k] >= x[p]
    BY <1>2 DEF Walk
  <2>2. x[N - k] \in Int
    BY <2>1
  <2>3. A[k + 1] = IF N - k \in U /\ x[N - k] > A[k] THEN x[N - k] ELSE A[k]
    BY <2>1 DEF Walk, Aggregate
  <2>4. ASSUME NEW p \in U
        PROVE  x[p] \in Int /\ (p > N - (k + 1) <=> p > N - k \/ p = N - k)
    <3>1. p \in 1 .. N
      OBVIOUS
    <3>2. x[p] \in Int
      BY <3>1
    <3>3. p \in Int /\ N \in Int /\ k \in Int
      BY <2>1, <3>1
    <3> QED
      BY <3>2, <3>3
  <2>5. A[k + 1] \in V /\ A[k + 1] >= 0
    BY <2>1, <2>2, <2>3
  <2>6. ASSUME NEW p \in U, p > N - (k + 1)
        PROVE  A[k + 1] >= x[p]
    <3>1. p = N - k \/ A[k] >= x[p]
      BY <2>1, <2>4, <2>6
    <3>2. x[p] \in Int
      BY <2>4
    <3>3. CASE p = N - k
      BY <2>1, <2>2, <2>3, <3>2, <3>3
    <3>4. CASE A[k] >= x[p]
      BY <2>1, <2>2, <2>3, <3>2, <3>4
    <3> QED
      BY <3>1, <3>3, <3>4
  <2> QED
    BY <2>1, <2>5, <2>6
<1>3. N \in T
  <2> HIDE DEF T
  <2>1. 0 .. N \subseteq T
    BY <1>1, <1>2, StepsReach
  <2> QED
    BY <2>1
<1>4. A[N] \in V /\ \A v \in V : A[N] >= v
  <2>1. A[N] \in V /\ A[N] >= 0 /\ \A p \in U : p > N - N => A[N] >= x[p]
    BY <1>3
  <2>2. \A p \in U : p > N - N
    <3>1. N - N = 0 /\ \A p \in 1 .. N : p > 0
      OBVIOUS
    <3> QED
      BY <3>1
  <2>3. \A p \in U : A[N] >= x[p]
    BY <2>1, <2>2
  <2> QED
    BY <2>1, <2>3
<1>5. A[N] \in Values(x, U)
  <2>1. PICK p \in U : x[p] >= 0
    OBVIOUS
  <2>2. A[N] >= x[p] /\ x[p] \in Int
    BY <1>4
  <2>3. A[N] = 0 => A[N] = x[p]
    BY <2>1, <2>2
  <2> QED
    BY <1>4, <2>3 DEF Values
<1>6. \A v \in Values(x, U) : v \in Int /\ A[N] >= v
  BY <1>4 DEF Values
<1>7. \A v \in Values(x, U) : (\A w \in Values(x, U) : v >= w) => v = A[N]
  BY <1>5, <1>6
<1> QED
  BY <1>5, <1>6, <1>7 DEF Max

\* A sum stays where there is nothing to add.
LEMMA SumGap ==
  ASSUME NEW f \in Seq(Int), NEW S, NEW i \in 0 .. Len(f), NEW j \in 0 .. Len(f), i <= j,
         \A n \in S : n \in Int => ~ (i < n /\ n <= j)
  PROVE  Sums(f, S)[j] = Sums(f, S)[i]
<1> DEFINE s == Sums(f, S)
           H == Len(f)
           T == {k \in 0 .. j - i : s[i + k] = s[i]}
<1>1. H \in Nat /\ j - i \in Nat /\ s \in [0 .. H -> Int]
  BY SumsAre
<1>r. \A n \in 1 .. H : s[n] = s[n - 1] + (IF n \in S THEN f[n] ELSE 0)
  BY SumsAre
<1>h. i \in 0 .. H /\ j \in 0 .. H
  OBVIOUS
<1> HIDE DEF s, H
<1>2. 0 \in T
  BY <1>1
<1>3. ASSUME NEW k \in 0 .. (j - i) - 1, k \in T
      PROVE  k + 1 \in T
  <2>0. k \in Int /\ k >= 0 /\ k + 1 <= j - i /\ i \in Int /\ j \in Int /\ i >= 0 /\ j <= H
    BY <1>1, <1>h
  <2>a. PICK n \in Int : n = i + (k + 1)
    BY <2>0
  <2>b. n \in 1 .. H /\ n - 1 = i + k /\ i + k \in 0 .. H /\ k + 1 \in 0 .. j - i /\ i < n /\ n <= j
    BY <1>1, <2>0, <2>a
  <2>1. /\ i + (k + 1) \in 1 .. H /\ i + (k + 1) \notin S /\ (i + (k + 1)) - 1 = i + k
        /\ i + k \in 0 .. H /\ k + 1 \in 0 .. j - i
    BY <2>a, <2>b
  <2>2. s[i + (k + 1)] = s[i + k] + 0 /\ s[i + k] \in Int
    BY <1>1, <1>r, <2>1
  <2> QED
    BY <1>3, <2>1, <2>2
<1>4. j - i \in T
  <2> HIDE DEF T
  <2>1. 0 .. j - i \subseteq T
    BY <1>1, <1>2, <1>3, StepsReach
  <2> QED
    BY <1>1, <2>1
<1>5. i + (j - i) = j
  OBVIOUS
<1> QED
  BY <1>4, <1>5 DEF s

\* The places have the numbers c, in the same order; f sums the same numbers
\* from the first on.
InPlaces(N, x, f, c) ==
  /\ f \in Seq(Int) /\ c \in [1 .. N -> Nat] /\ c[N] = Len(f)
  /\ \A p \in 1 .. N : c[p] \in 1 .. Len(f) /\ f[c[p]] = x[p]
  /\ \A p, q \in 1 .. N : c[p] = c[q] => p = q
  /\ \A p, q \in 1 .. N : p < q <=> c[p] < c[q]

LEMMA SumReach ==
  ASSUME NEW N \in Nat \ {0}, NEW U \in SUBSET (1 .. N), NEW x \in [1 .. N -> Int],
         NEW A, Walk(A, N, "SUM", U, x), NEW f, NEW c, InPlaces(N, x, f, c)
  PROVE  A[N] = Total(f, NumbersAt(c, U))
<1> DEFINE C     == {c[p] : p \in U}
           s     == Sums(f, C)
           H     == Len(f)
           lo(k) == IF k = N THEN 0 ELSE c[N - k]
           T     == {k \in 0 .. N : A[k] + s[lo(k)] = s[H]}
<1>1. /\ H \in Nat
      /\ s \in [0 .. H -> Int] /\ s[0] = 0
  <2> HIDE DEF C
  <2> QED
    BY SumsAre DEF InPlaces
<1>r. \A n \in 1 .. H : s[n] = s[n - 1] + (IF n \in C THEN f[n] ELSE 0)
  <2> HIDE DEF C
  <2> QED
    BY SumsAre DEF InPlaces
<1>2. \A i, j \in 0 .. H : i <= j /\ (\A n \in C : n \in Int => ~ (i < n /\ n <= j)) => s[j] = s[i]
  <2> HIDE DEF C
  <2> QED
    BY SumGap DEF InPlaces
<1>a. \A n \in C : \E p \in U : n = c[p]
  OBVIOUS
<1>b. \A p \in 1 .. N : c[p] \in C <=> p \in U
  BY DEF InPlaces
<1>c. /\ \A p \in 1 .. N : c[p] \in 1 .. H /\ f[c[p]] = x[p] /\ c[p] \in Int
      /\ c[N] = H
  BY DEF InPlaces
<1>d. \A p, q \in 1 .. N : p < q <=> c[p] < c[q]
  BY DEF InPlaces
<1> HIDE DEF s, C, H
<1>3. 0 \in T
  <2>1. lo(0) = H /\ H \in 0 .. H /\ 0 \in 0 .. N
    BY <1>1, <1>c
  <2>2. A[0] = 0 /\ s[H] \in Int
    BY <1>1, <2>1 DEF Walk
  <2> HIDE DEF lo
  <2> QED
    BY <2>1, <2>2
<1>4. ASSUME NEW k \in 0 .. N - 1, k \in T
      PROVE  k + 1 \in T
  <2>1. PICK p \in 1 .. N : p = N - k
    OBVIOUS
  <2>2. lo(k) = c[p] /\ lo(k + 1) = IF p = 1 THEN 0 ELSE c[p - 1]
    <3>1. k # N /\ (k + 1 = N <=> p = 1) /\ N - (k + 1) = p - 1
      BY <2>1
    <3> QED
      BY <2>1, <3>1
  <2>3. PICK i, j : i = lo(k + 1) /\ j = c[p] - 1
    OBVIOUS
  <2>4. j + 1 = c[p] /\ j + 1 \in 1 .. H /\ j \in 0 .. H /\ j \in Int
    <3>1. PICK m \in 1 .. H : m = c[p]
      BY <1>c
    <3>2. j = m - 1
      BY <2>3, <3>1
    <3>3. m \in Int /\ 1 <= m /\ m <= H /\ H \in Int
      BY <1>1
    <3>4. j + 1 = m /\ j \in 0 .. H /\ j \in Int
      BY <3>2, <3>3
    <3> QED
      BY <3>1, <3>4
  <2>5. i \in 0 .. H /\ i \in Int /\ i <= j
    <3>1. CASE p = 1
      <4>1. i = 0
        BY <2>2, <2>3, <3>1
      <4> QED
        BY <1>1, <2>4, <4>1
    <3>2. CASE p # 1
      <4>1. p - 1 \in 1 .. N /\ p - 1 < p
        BY <3>2
      <4>2. i = c[p - 1] /\ c[p - 1] \in 1 .. H /\ c[p - 1] < c[p]
        BY <1>c, <1>d, <2>2, <2>3, <3>2, <4>1
      <4>3. i \in 1 .. H /\ i < j + 1
        BY <2>4, <4>2
      <4> QED
        BY <1>1, <2>4, <4>3
    <3> QED
      BY <3>1, <3>2
  <2>6. ASSUME NEW n \in C, n \in Int
        PROVE  ~ (i < n /\ n <= j)
    <3> SUFFICES ASSUME i < n, n <= j
                 PROVE  FALSE
      OBVIOUS
    <3>1. PICK q \in U : n = c[q]
      BY <1>a
    <3>2. q \in 1 .. N /\ c[q] < c[p]
      BY <2>4, <2>6, <3>1
    <3>3. q < p
      BY <1>d, <3>2
    <3>4. p - 1 \in 1 .. N /\ i = c[p - 1]
      BY <2>2, <2>3, <3>2, <3>3
    <3>5. p - 1 < q
      BY <1>d, <3>1, <3>2, <3>4
    <3> QED
      BY <3>2, <3>3, <3>5
  <2>7. s[j] = s[i]
    BY <1>2, <2>4, <2>5, <2>6
  <2>8. s[j + 1] = s[j] + (IF p \in U THEN x[p] ELSE 0)
    <3>1. (j + 1) - 1 = j /\ (j + 1 \in C <=> p \in U) /\ f[j + 1] = x[p]
      BY <1>b, <1>c, <2>4
    <3> QED
      BY <1>r, <2>4, <3>1
  <2>9. A[k + 1] = IF p \in U THEN A[k] + x[p] ELSE A[k]
    BY <2>1 DEF Walk, Aggregate
  <2>10. A[k] + s[j + 1] = s[H] /\ k + 1 \in 0 .. N
    BY <1>4, <2>2, <2>4
  <2>11. A[k] \in Int /\ x[p] \in Int /\ s[i] \in Int
    <3>1. k \in 0 .. N
      OBVIOUS
    <3> QED
      BY <1>1, <2>5, <3>1 DEF Walk
  <2>12. A[k + 1] + s[i] = s[H]
    <3>1. PICK u, v, w : u = A[k] /\ v = x[p] /\ w = s[i] /\ u \in Int /\ v \in Int /\ w \in Int
      BY <2>11
    <3>2. CASE p \in U
      <4>1. A[k + 1] = u + v /\ s[j + 1] = w + v
        BY <2>7, <2>8, <2>9, <3>1, <3>2
      <4> QED
        BY <2>10, <3>1, <4>1
    <3>3. CASE p \notin U
      <4>1. A[k + 1] = u /\ s[j + 1] = w
        BY <2>7, <2>8, <2>9, <3>1, <3>3
      <4> QED
        BY <2>10, <3>1, <4>1
    <3> QED
      BY <3>2, <3>3
  <2> QED
    BY <2>3, <2>10, <2>12
<1>5. N \in T
  <2> HIDE DEF T
  <2>1. 0 .. N \subseteq T
    BY <1>3, <1>4, StepsReach
  <2> QED
    BY <2>1
<1>6. lo(N) = 0 /\ A[N] \in Int
  BY DEF Walk
<1>7. A[N] = s[H]
  <2>1. A[N] + s[lo(N)] = s[H]
    BY <1>5
  <2> HIDE DEF lo
  <2> QED
    BY <1>1, <1>6, <2>1
<1> QED
  BY <1>7 DEF s, C, H, Total, NumbersAt

SummedBy(A, N, U, x, f, c) ==
  /\ N \in Nat \ {0} /\ U \in SUBSET (1 .. N) /\ x \in [1 .. N -> Int]
  /\ Walk(A, N, "SUM", U, x) /\ InPlaces(N, x, f, c)

LEMMA SumWalk ==
  ASSUME NEW A, NEW N, NEW U, NEW x, NEW f, NEW c, SummedBy(A, N, U, x, f, c)
  PROVE  A[N] = Total(f, NumbersAt(c, U))
BY SumReach DEF SummedBy

\* kr_ddi_aggr_func: the walk over the stored records gives what the events
\* counted define.
LEMMA DdiExact ==
  ASSUME EngineConstants, StoreInv, NEW c, Located(c), NEW i \in Item, Def[i].kind = "DID",
         NEW m, IsMemo(m), ~ m.set, NEW sub, NEW sound, NEW kept,
         sub.set /\ sound => Finished(i, kept) /\ Keeps(c, Def[i], kept, DdiTried(Def[i], ctx.curr), sub)
  PROVE  LET r == DdiAggr(Def[i], m, ctx.curr, sub)
         IN  IsMemo(r) /\ Exact(r, sound, Defined(i, kept), Counted(Def[i], kept))
<1> DEFINE d     == Def[i]
           L     == Len(order)
           H     == Len(history)
           tried == DdiTried(d, ctx.curr)
           used  == {p \in tried : Passes(d.filter, order[p], ctx.curr, sub)}
           seen  == Seen(tried, used, sub)
           C     == Counted(d, kept)
           A     == Aggregates(d.method, seen)
           x     == [p \in 1 .. L |-> Rec(order[p]).val]
           f     == [n \in DOMAIN history |-> history[n].val]
           r     == ReadFrom(m, seen, A[L])
<1>0. DdiAggr(d, m, ctx.curr, sub) = IF ~ sub.set THEN m ELSE r
  BY DEF DdiAggr
<1>k. CASE ~ sub.set
  <2>1. DdiAggr(d, m, ctx.curr, sub) = m
    BY <1>0, <1>k
  <2> QED
    BY <2>1 DEF Exact
<1>m. CASE sub.set /\ ~ (~ r.moved /\ sound)
  <2> HIDE DEF r
  <2>1. DdiAggr(d, m, ctx.curr, sub) = r
    BY <1>0, <1>m
  <2>2. IsMemo(r)
    <3> HIDE DEF A, seen
    <3> QED
      BY ReadIs DEF r
  <2> QED
    BY <1>m, <2>1, <2>2 DEF Exact
<1>n. CASE sub.set /\ ~ r.moved /\ sound
  <2>1. /\ RecList(ctx.curr) \in SUBSET (1 .. L)
        /\ \A p \in 1 .. L : p \in RecList(ctx.curr) <=> c[p] \in Peers
        /\ \A n \in Peers : \E p \in RecList(ctx.curr) : c[p] = n
    BY ListIsPeers
  <2>2. /\ L \in Nat \ {0} /\ H \in Nat /\ DOMAIN history = 1 .. H
        /\ c \in [1 .. L -> Nat] /\ c[L] = H /\ ctx.curr = order[L] /\ Rec(ctx.curr) = Now
        /\ \A p, q \in 1 .. L : order[p] = order[q] => p = q
        /\ \A p, q \in 1 .. L : c[p] = c[q] => p = q
        /\ \A p, q \in 1 .. L : p < q <=> c[p] < c[q]
    BY DEF Located
  <2>3. \A p \in 1 .. L :
          /\ c[p] \in 1 .. H /\ Rec(order[p]) = history[c[p]] /\ history[c[p]].val \in Int
    BY DEF Located
  <2>s. /\ Finished(i, kept)
        /\ \A p \in 1 .. L : c[p] \in kept => order[p][1] = d.datasrc
        /\ \A p \in tried : Passes(d.filter, order[p], ctx.curr, sub) <=> c[p] \in kept
    BY <1>n DEF Keeps
  <2>4. \A p \in 1 .. L : order[p] = ctx.curr <=> c[p] = H
    <3>1. L \in 1 .. L
      BY <2>2
    <3> QED
      BY <2>2, <3>1
  <2>n. L \in Nat /\ L \in Nat \ {0}
    BY <2>2
  <2>t. \A p : p \in tried <=> /\ p \in RecList(ctx.curr) /\ ~(d.current = "EXCLUDE" /\ order[p] = ctx.curr)
                              /\ order[p][1] = d.datasrc
                              /\ Rec(ctx.curr).time - Rec(order[p]).time <= d.window
    BY DEF DdiTried
  <2> HIDE DEF L, H, d, tried
  <2>5. used \in SUBSET (1 .. L)
    <3>1. tried \in SUBSET (1 .. L)
      BY <2>1, <2>t
    <3> QED
      BY <3>1
  <2>6. ASSUME NEW p \in 1 .. L
        PROVE  p \in used <=> c[p] \in C
    <3>1. Rec(ctx.curr).time - Rec(order[p]).time <= d.window <=> Now.time - history[c[p]].time <= d.window
      BY <2>2, <2>3
    <3>2. c[p] \in C <=> /\ c[p] \in Peers /\ c[p] \in kept /\ (d.current = "EXCLUDE" => c[p] # H)
                        /\ Now.time - history[c[p]].time <= d.window
      BY DEF Counted, H
    <3>3. p \in used <=> p \in tried /\ c[p] \in kept
      BY <2>s
    <3> HIDE DEF used, C
    <3> QED
      BY <2>1, <2>s, <2>4, <2>t, <3>1, <3>2, <3>3
  <2>7. C = {c[p] : p \in used}
    <3>1. \A n \in C : \E p \in used : c[p] = n
      <4> TAKE n \in C
      <4>1. n \in Peers
        BY DEF Counted
      <4>2. PICK p \in RecList(ctx.curr) : c[p] = n
        BY <2>1, <4>1
      <4> HIDE DEF used, C
      <4> QED
        BY <2>1, <2>6, <4>2
    <3> HIDE DEF used, C
    <3> QED
      BY <2>5, <2>6, <3>1
  <2>8. x \in [1 .. L -> Int] /\ \A p \in 1 .. L : x[p] = history[c[p]].val /\ x[p] = Rec(order[p]).val
    BY <2>3
  <2> HIDE DEF x
  <2>v. DOMAIN seen = used /\ \A p \in used : seen[p] = order[p]
    <3>1. DOMAIN seen = used
      BY DEF Seen
    <3>2. r.moved <=> \E p \in DOMAIN seen : seen[p] # order[p]
      <4> HIDE DEF seen, A
      <4> QED
        BY ReadIs DEF r
    <3> HIDE DEF seen, r, used
    <3> QED
      BY <1>n, <3>1, <3>2
  <2>w. /\ IsMemo(r) /\ r.set /\ r.value = A[L] /\ r.related = {seen[p] : p \in DOMAIN seen}
    <3> HIDE DEF seen, A
    <3> QED
      BY ReadIs DEF r
  <2> HIDE DEF seen, r
  <2>9. Walk(A, L, d.method, used, x)
    <3> HIDE DEF used
    <3>1. /\ A \in [0 .. L -> Int] /\ A[0] = 0
          /\ \A k \in 1 .. L :
               A[k] = IF L + 1 - k \in DOMAIN seen THEN Aggregate(d.method, A[k - 1], Rec(seen[L + 1 - k]).val) ELSE A[k - 1]
      <4>1. Len(order) \in Nat /\ \A p \in 1 .. Len(order) : p \in DOMAIN seen => Rec(seen[p]).val \in Int
        BY <2>2, <2>3, <2>v DEF L
      <4> QED
        BY <4>1, AggregatesAre DEF L
    <3> HIDE DEF A
    <3>2. ASSUME NEW k \in 0 .. L - 1
          PROVE  A[k + 1] = IF L - k \in used THEN Aggregate(d.method, A[k], x[L - k]) ELSE A[k]
      <4>1. k + 1 \in 1 .. L /\ L + 1 - (k + 1) = L - k /\ (k + 1) - 1 = k /\ L - k \in 1 .. L
        BY <2>2
      <4>2. L - k \in used => x[L - k] = Rec(seen[L - k]).val
        BY <2>8, <2>v, <4>1
      <4>3. A[k + 1] = IF L - k \in DOMAIN seen THEN Aggregate(d.method, A[k], Rec(seen[L - k]).val) ELSE A[k]
        BY <3>1, <4>1
      <4>4. CASE L - k \in used
        BY <2>v, <4>2, <4>3, <4>4
      <4>5. CASE L - k \notin used
        BY <2>v, <4>3, <4>5
      <4> QED
        BY <4>4, <4>5
    <3> QED
      BY <3>1, <3>2 DEF Walk
  <2> HIDE DEF A
  <2>10. history \in Seq(Event) /\ \A n \in 1 .. H : history[n].val \in Int
    <3>1. history \in Seq(Event)
      BY DEF StoreInv, Stored
    <3>2. \A n \in 1 .. H : history[n] \in Event
      BY <3>1 DEF H
    <3> QED
      BY <3>1, <3>2 DEF EngineConstants
  <2>11. f \in Seq(Int) /\ Len(f) = H /\ \A n \in 1 .. H : f[n] = history[n].val
    <3>1. f \in [1 .. H -> Int] /\ \A n \in 1 .. H : f[n] = history[n].val
      BY <2>2, <2>10
    <3> HIDE DEF f
    <3> QED
      BY <2>2, <3>1
  <2> HIDE DEF f
  <2>12. Defined(i, kept) = {A[L]}
    <3> DEFINE vals == {history[n].val : n \in C}
    <3>a. vals = Values(x, used)
      <4>1. \A p \in used : x[p] = history[c[p]].val
        BY <2>5, <2>8
      <4> HIDE DEF used, C
      <4>2. \A v : v \in vals <=> \E p \in used : v = history[c[p]].val
        BY <2>7
      <4> HIDE DEF vals
      <4> QED
        BY <4>1, <4>2 DEF Values
    <3>b. \A n \in C : \E p \in used : x[p] = history[n].val
      <4> HIDE DEF used, C
      <4> QED
        BY <2>5, <2>7, <2>8
    <3>c. /\ d.method \in {"SUM", "COUNT", "MIN", "MAX"}
          /\ d.method = "MIN" => \E p \in used : x[p] <= 0
          /\ d.method = "MAX" => \E p \in used : x[p] >= 0
      <4>1. \/ d.method \in {"SUM", "COUNT"}
            \/ d.method = "MIN" /\ \E n \in C : history[n].val <= 0
            \/ d.method = "MAX" /\ \E n \in C : history[n].val >= 0
        BY <2>s DEF Finished, d
      <4> HIDE DEF used, C
      <4> QED
        BY <3>b, <4>1
    <3>1. CASE d.method = "SUM"
      <4>1. InPlaces(L, x, f, c)
        BY <2>2, <2>3, <2>8, <2>11 DEF InPlaces
      <4>2. A[L] = Total(f, NumbersAt(c, used))
        <5> HIDE DEF used
        <5>1. SummedBy(A, L, used, x, f, c)
          BY <2>n, <2>5, <2>8, <2>9, <3>1, <4>1 DEF SummedBy
        <5> QED
          BY <5>1, SumWalk
      <4>3. Defined(i, kept) = {Total(f, C)}
        BY <3>1 DEF Defined, f, d
      <4> HIDE DEF used, C
      <4> QED
        BY <2>7, <4>2, <4>3 DEF NumbersAt
    <3>2. CASE d.method = "COUNT"
      <4>1. A[L] = Cardinality(used)
        <5> HIDE DEF used
        <5> QED
          BY <2>n, <2>5, <2>8, <2>9, <3>2, CountWalk
      <4>2. Cardinality(NumbersAt(c, used)) = Cardinality(used)
        <5> HIDE DEF used
        <5> QED
          BY <2>2, <2>n, <2>5, CountImage
      <4>3. Defined(i, kept) = {Cardinality(C)}
        BY <3>2 DEF Defined, d
      <4> HIDE DEF used, C
      <4> QED
        BY <2>7, <4>1, <4>2, <4>3 DEF NumbersAt
    <3>3. CASE d.method = "MIN"
      <4>1. A[L] = Min(Values(x, used))
        <5> HIDE DEF used
        <5> QED
          BY <2>n, <2>5, <2>8, <2>9, <3>3, <3>c, MinWalk
      <4>2. Defined(i, kept) = {Min(vals)}
        BY <3>3 DEF Defined, d
      <4> HIDE DEF used, C, vals
      <4> QED
        BY <3>a, <4>1, <4>2
    <3>4. CASE d.method = "MAX"
      <4>1. A[L] = Max(Values(x, used))
        <5> HIDE DEF used
        <5> QED
          BY <2>n, <2>5, <2>8, <2>9, <3>4, <3>c, MaxWalk
      <4>2. Defined(i, kept) = {Max(vals)}
        BY <3>4 DEF Defined, d
      <4> HIDE DEF used, C, vals
      <4> QED
        BY <3>a, <4>1, <4>2
    <3> QED
      BY <3>1, <3>2, <3>3, <3>4, <3>c
  <2>14. DdiAggr(d, m, ctx.curr, sub) = r
    BY <1>0, <1>n
  <2>16. {Rec(a) : a \in r.related} = {history[n] : n \in C}
    <3> HIDE DEF used, C
    <3>1. \A a : a \in r.related <=> \E p \in used : a = order[p]
      BY <2>v, <2>w
    <3>2. \A p \in used : Rec(order[p]) = history[c[p]]
      BY <2>3, <2>5
    <3>3. {Rec(a) : a \in r.related} = {history[c[p]] : p \in used}
      BY <3>1, <3>2
    <3>4. {history[n] : n \in C} = {history[c[p]] : p \in used}
      BY <2>7
    <3> QED
      BY <3>3, <3>4
  <2>17. Exact(r, sound, Defined(i, kept), C)
    <3> HIDE DEF C, used
    <3> QED
      BY <2>12, <2>w, <2>16 DEF Exact
  <2> QED
    BY <2>14, <2>w, <2>17 DEF d
<1> QED
  BY <1>k, <1>m, <1>n DEF d

-----------------------------------------------------------------------------
(***************************************************************************)
(* What a formula asks for, for the current record.                        *)
(***************************************************************************)

Fits(i, m) ==
  /\ IsMemo(m)
  /\ m.set => m.curr = ctx.curr
  /\ Flat(i) => ~ m.moved
  /\ Exact(m, HasMeaning(i), Meant(i), Used(i))

LEMMA ForgetIs ==
  ASSUME NEW m, IsMemo(m)
  PROVE  IsMemo(Forget(m)) /\ ~ Forget(m).set /\ ~ Forget(m).moved /\ Forget(m).related = {}
BY DEF Forget, NewItem, IsMemo

LEMMA HdiExact ==
  ASSUME NEW c, Located(c), NEW i \in Item, Def[i].kind = "HID", IsDef(Def[i]), NEW ok,
         NEW m, IsMemo(m), ~ m.set, ~ m.moved, m.related = {}
  PROVE  LET r == HdiAggr(i, m, ok)
         IN  IsMemo(r) /\ ~ r.moved /\ Exact(r, HasMeaning(i), Meant(i), Used(i))
<1>1. /\ Used(i) = {} /\ Meant(i) = {Flag[i][Now.key]}
      /\ HasMeaning(i) => Def[i].stat = "FLAG"
  BY DEF Used, Meant, Defined, HasMeaning, Finished
<1>2. Rec(ctx.curr) = Now
  BY DEF Located
<1>3. CASE ~ ok
  <2>1. HdiAggr(i, m, ok) = m
    BY <1>3 DEF HdiAggr, HdiAggrDay, HdiAggrMon, HdiAggrFlag, IsDef
  <2> QED
    BY <2>1 DEF Exact
<1>4. CASE ok
  <2> DEFINE v == IF Def[i].stat = "FLAG" THEN Flag[i][Now.key] ELSE 0
             r == [m EXCEPT !.set = TRUE, !.value = v]
  <2>1. HdiAggr(i, m, ok) = r
    BY <1>2, <1>4 DEF HdiAggr, HdiAggrDay, HdiAggrMon, HdiAggrFlag, IsDef
  <2> HIDE DEF v
  <2>2. IsMemo(r) /\ r.value = v /\ r.related = {} /\ ~ r.moved
    BY DEF IsMemo
  <2> HIDE DEF r
  <2>3. {Rec(a) : a \in r.related} = {} /\ {history[n] : n \in Used(i)} = {}
    BY <1>1, <2>2
  <2>4. HasMeaning(i) => Meant(i) = {r.value}
    BY <1>1, <2>2 DEF v
  <2> QED
    BY <2>1, <2>2, <2>3, <2>4 DEF Exact
<1> QED
  BY <1>3, <1>4

\* What the walks try comes from the item's own table.
LEMMA TriedIs ==
  ASSUME NEW c, Located(c), NEW d
  PROVE  /\ SdiTried(d, ctx.curr) \in SUBSET (1 .. Len(order))
         /\ DdiTried(d, ctx.curr) \in SUBSET (1 .. Len(order))
         /\ \A p \in SdiTried(d, ctx.curr) : order[p][1] = d.datasrc
         /\ \A p \in DdiTried(d, ctx.curr) : order[p][1] = d.datasrc
<1>1. RecList(ctx.curr) \in SUBSET (1 .. Len(order))
  BY ListIsPeers
<1> QED
  BY <1>1 DEF SdiTried, DdiTried

\* With the record left where the walk is, no other one is read.
LEMMA NotMoved ==
  ASSUME NEW d, NEW m, ~ m.moved, NEW sub, sub.at = NULL
  PROVE  ~ SdiAggr(d, m, ctx.curr, sub).moved /\ ~ DdiAggr(d, m, ctx.curr, sub).moved
<1>1. ASSUME NEW tried, NEW used, NEW v
      PROVE  ~ ReadFrom(m, Seen(tried, used, sub), v).moved
  <2> DEFINE seen == Seen(tried, used, sub)
  <2>1. \A p \in DOMAIN seen : seen[p] = order[p]
    BY DEF Seen
  <2> HIDE DEF seen
  <2>2. ~ ReadFrom(m, seen, v).moved
    BY <2>1, ReadIs
  <2> QED
    BY <2>2 DEF seen
<1>2. ~ SdiAggr(d, m, ctx.curr, sub).moved
  BY <1>1 DEF SdiAggr
<1>3. ~ DdiAggr(d, m, ctx.curr, sub).moved
  BY <1>1 DEF DdiAggr
<1> QED
  BY <1>2, <1>3

\* What can be said of an item without another in its filter.
LEMMA FlatIs ==
  ASSUME NEW i, Flat(i)
  PROVE  /\ Meant(i) = Defined(i, KeptByField(i))
         /\ Finished(i, KeptByField(i)) <=> HasMeaning(i)
<1>1. CASE Def[i].kind = "HID"
  BY <1>1 DEF Meant, Defined, HasMeaning, Finished, Flat
<1>2. CASE OfField(Def[i].filter)
  <2>1. Kept(i) = KeptByField(i)
    BY <1>2 DEF Kept
  <2> QED
    BY <2>1 DEF Meant, HasMeaning
<1> QED
  BY <1>1, <1>2 DEF Flat

\* An item that is asked for, remembered or computed, with what its filter
\* has found.
KeepsFor(c, i, sub) == Keeps(c, Def[i], Kept(i), Tried(i), sub)

LEMMA GetFits ==
  ASSUME EngineConstants, StoreInv, NEW c, Located(c), NEW i \in Item, Fits(i, memo[i]), NEW ok, NEW sub,
         Flat(i) => sub.at = NULL,
         Def[i].kind # "HID" /\ ~ Remembered(i) /\ Indexed /\ sub.set /\ HasMeaning(i) => KeepsFor(c, i, sub)
  PROVE  Fits(i, Get(i, sub, ok))
<1>1. IsDef(Def[i])
  BY DEF EngineConstants
<1> DEFINE fm == Forget(memo[i])
           Right(r) == IsMemo(r) /\ (Flat(i) => ~ r.moved) /\ Exact(r, HasMeaning(i), Meant(i), Used(i))
<1>2. IsMemo(fm) /\ ~ fm.set /\ ~ fm.moved /\ fm.related = {}
  BY ForgetIs DEF Fits
<1> HIDE DEF fm
<1>3. Right(fm)
  BY <1>2 DEF Exact
<1>5. CASE Remembered(i)
  BY <1>5 DEF Get
<1>6. CASE ~ Remembered(i)
  <2> DEFINE r == Compute(i, sub, ok)
  <2>0. Right(r)
    <3>1. CASE Def[i].kind = "SID"
      <4>1. r = IF Indexed THEN SdiAggr(Def[i], fm, ctx.curr, sub) ELSE fm
        BY <3>1 DEF Compute, SdiCompute, fm
      <4>2. CASE ~ Indexed
        BY <1>3, <4>1, <4>2
      <4>3. CASE Indexed
        <5>1. /\ Meant(i) = ValuesOf(Named(Def[i], Kept(i))) /\ Used(i) = Named(Def[i], Kept(i))
              /\ Def[i].location \in {"ABSOLUTE", "RELATIVE"}
          BY <1>1, <3>1 DEF Meant, Defined, Used, IsDef, ValuesOf
        <5>2. sub.set /\ HasMeaning(i) => Keeps(c, Def[i], Kept(i), SdiTried(Def[i], ctx.curr), sub)
          BY <1>6, <3>1, <4>3 DEF KeepsFor, Tried
        <5> DEFINE w == SdiAggr(Def[i], fm, ctx.curr, sub)
        <5>w. IsMemo(w) /\ Exact(w, HasMeaning(i), Meant(i), Named(Def[i], Kept(i)))
          BY <1>2, <5>1, <5>2, SdiExact
        <5>3. IsMemo(r) /\ Exact(r, HasMeaning(i), Meant(i), Used(i))
          <6> HIDE DEF r, w
          <6>1. r = w
            BY <4>1, <4>3 DEF w
          <6> QED
            BY <5>1, <5>w, <6>1
        <5>4. Flat(i) => ~ r.moved
          BY <1>2, <4>1, <4>3, NotMoved
        <5> QED
          BY <5>3, <5>4
      <4> QED
        BY <4>2, <4>3
    <3>2. CASE Def[i].kind = "DID"
      <4>1. r = IF Indexed THEN DdiAggr(Def[i], fm, ctx.curr, sub) ELSE fm
        BY <3>2 DEF Compute, DdiCompute, fm
      <4>2. CASE ~ Indexed
        BY <1>3, <4>1, <4>2
      <4>3. CASE Indexed
        <5>1. Meant(i) = Defined(i, Kept(i)) /\ Used(i) = Counted(Def[i], Kept(i))
          BY <3>2 DEF Meant, Used
        <5>2. sub.set /\ HasMeaning(i) => Finished(i, Kept(i)) /\ Keeps(c, Def[i], Kept(i), DdiTried(Def[i], ctx.curr), sub)
          BY <1>6, <3>2, <4>3 DEF KeepsFor, Tried, HasMeaning
        <5>3. IsMemo(r) /\ Exact(r, HasMeaning(i), Meant(i), Used(i))
          BY <1>2, <3>2, <4>1, <4>3, <5>1, <5>2, DdiExact
        <5>4. Flat(i) => ~ r.moved
          BY <1>2, <4>1, <4>3, NotMoved
        <5> QED
          BY <5>3, <5>4
      <4> QED
        BY <4>2, <4>3
    <3>3. CASE Def[i].kind = "HID"
      <4>1. r = IF Indexed THEN HdiAggr(i, fm, ok) ELSE fm
        BY <3>3 DEF Compute, HdiCompute, fm
      <4>2. Right(HdiAggr(i, fm, ok))
        BY <1>1, <1>2, <3>3, HdiExact
      <4> QED
        BY <1>3, <4>1, <4>2
    <3> QED
      BY <1>1, <3>1, <3>2, <3>3 DEF IsDef
  <2>1. Get(i, sub, ok) = IF r.set \/ Def[i].kind = "HID" THEN [r EXCEPT !.curr = ctx.curr] ELSE r
    BY <1>6 DEF Get, Noted
  <2> HIDE DEF r
  <2> DEFINE q == [r EXCEPT !.curr = ctx.curr]
  <2>3. /\ IsMemo(q) /\ q.set = r.set /\ q.value = r.value /\ q.related = r.related
        /\ q.moved = r.moved /\ q.curr = ctx.curr
    BY <2>0 DEF IsMemo
  <2> HIDE DEF q
  <2>4. Fits(i, q)
    BY <2>0, <2>3 DEF Fits, Exact
  <2>5. ~ r.set => Fits(i, r)
    BY <2>0 DEF Fits
  <2> QED
    BY <2>1, <2>4, <2>5 DEF q
<1> QED
  BY <1>5, <1>6

\* All items fit, and those that have a value keep it.
MemoFits(mm) == mm = [i \in Item |-> mm[i]] /\ \A i \in Item : Fits(i, mm[i])
Same(mm) == \A i \in Item : memo[i].set => mm[i] = memo[i]

\* What is remembered is not computed again.
LEMMA GetSame ==
  ASSUME NEW i \in Item, Fits(i, memo[i]), memo[i].set, NEW sub, NEW ok
  PROVE  Get(i, sub, ok) = memo[i]
BY DEF Get, Noted, Remembered, Fits

LEMMA GetValueFits ==
  ASSUME EngineConstants, StoreInv, NEW c, Located(c), MemoFits(memo), NEW i \in Item, NEW ok
  PROVE  MemoFits(GetValue(i, ok)) /\ Same(GetValue(i, ok))
<1>0. /\ memo = [k \in Item |-> memo[k]]
      /\ \A k \in Item : Fits(k, memo[k])
  BY DEF MemoFits
<1>d. IsDef(Def[i])
  BY DEF EngineConstants
<1>n. NoSub.at = NULL
  BY DEF NoSub
<1>f. ASSUME NEW k \in Item, Flat(k), Def[k].kind # "HID", NEW sub
      PROVE  KeepsFor(c, k, sub)
  <2>1. OfField(Def[k].filter) /\ Kept(k) = KeptByField(k)
    BY <1>f DEF Flat, Kept
  <2>2. Tried(k) \in SUBSET (1 .. Len(order)) /\ \A p \in Tried(k) : order[p][1] = Def[k].datasrc
    BY TriedIs DEF Tried
  <2>3. Keeps(c, Def[k], KeptByField(k), Tried(k), sub)
    BY <2>1, <2>2, FieldKeeps
  <2> QED
    BY <2>1, <2>3 DEF KeepsFor
<1>1. CASE ~ Nests(i)
  <2> DEFINE m == Get(i, NoSub, ok)
             n == [memo EXCEPT ![i] = m]
  <2>1. GetValue(i, ok) = n
    BY <1>1 DEF GetValue
  <2>2. Def[i].kind # "HID" /\ ~ Remembered(i) /\ Indexed => KeepsFor(c, i, NoSub)
    <3>1. CASE Flat(i)
      BY <1>f, <3>1
    <3>2. CASE ~ Flat(i)
      <4> SUFFICES ASSUME ~ Remembered(i), Indexed
                   PROVE  KeepsFor(c, i, NoSub)
        OBVIOUS
      <4>1. Tried(i) = {}
        BY <1>1, <3>2 DEF Nests
      <4>2. Kept(i) = KeptByItem(i)
        BY <3>2 DEF Flat, Kept
      <4>3. \A p \in 1 .. Len(order) : c[p] \in KeptByItem(i) => order[p][1] = Def[i].datasrc
        BY DEF KeptByItem, Located
      <4> QED
        BY <4>1, <4>2, <4>3 DEF KeepsFor, Keeps
    <3> QED
      BY <3>1, <3>2
  <2>3. Fits(i, m)
    BY <1>0, <1>n, <2>2, GetFits
  <2>4. memo[i].set => m = memo[i]
    BY <1>0, GetSame
  <2> HIDE DEF m
  <2>5. n = [k \in Item |-> n[k]] /\ n[i] = m /\ \A k \in Item : k # i => n[k] = memo[k]
    BY <1>0
  <2> HIDE DEF n
  <2> QED
    BY <1>0, <2>1, <2>3, <2>4, <2>5 DEF MemoFits, Same
<1>2. CASE Nests(i)
  <2> DEFINE j == Def[i].filter.id
             m == Get(j, NoSub, ok)
             q == Get(i, Sub(j, m), ok)
             n == [memo EXCEPT ![j] = m, ![i] = q]
  <2>1. GetValue(i, ok) = n
    BY <1>2 DEF GetValue
  <2>2. ~ Flat(i) /\ ~ OfField(Def[i].filter) /\ Def[i].kind # "HID"
    BY <1>2 DEF Nests, Flat
  <2>3. j \in Item /\ Flat(j)
    BY <1>d, <2>2 DEF IsDef, IsFilter, IsFormula, OfField
  <2>4. j # i
    BY <2>2, <2>3
  <2> HIDE DEF j
  <2>5. Fits(j, m)
    BY <1>0, <1>f, <1>n, <2>3, GetFits
  <2>6. memo[j].set => m = memo[j]
    BY <1>0, <2>3, GetSame
  <2> DEFINE sub == Sub(j, m)
  <2>7. sub.set = m.set /\ sub.value = m.value
    BY DEF Sub
  <2> HIDE DEF m, sub
  <2>8. ASSUME sub.set, HasMeaning(i)
        PROVE  KeepsFor(c, i, sub)
    <3>1. Finished(j, KeptByField(j))
      BY <2>2, <2>8 DEF HasMeaning, j
    <3>2. HasMeaning(j) /\ Meant(j) = Defined(j, KeptByField(j))
      BY <2>3, <3>1, FlatIs
    <3>3. Defined(j, KeptByField(j)) = {sub.value}
      BY <2>3, <2>5, <2>7, <2>8, <3>2 DEF Fits, Exact
    <3>4. Tried(i) \in SUBSET (1 .. Len(order)) /\ \A p \in Tried(i) : order[p][1] = Def[i].datasrc
      BY TriedIs DEF Tried
    <3>5. Keeps(c, Def[i], KeptByItem(i), Tried(i), sub)
      BY <2>2, <3>3, <3>4, ItemKeeps DEF j
    <3>6. Kept(i) = KeptByItem(i)
      BY <2>2 DEF Kept
    <3> QED
      BY <3>5, <3>6 DEF KeepsFor
  <2>9. Fits(i, q)
    BY <1>0, <2>2, <2>8, GetFits DEF sub
  <2>10. memo[i].set => q = memo[i]
    BY <1>0, GetSame
  <2> HIDE DEF q
  <2>11. /\ n = [k \in Item |-> n[k]] /\ n[j] = m /\ n[i] = q
         /\ \A k \in Item : k # i /\ k # j => n[k] = memo[k]
    BY <1>0, <2>3, <2>4
  <2> HIDE DEF n
  <2> QED
    BY <1>0, <2>1, <2>3, <2>5, <2>6, <2>9, <2>10, <2>11 DEF MemoFits, Same
<1> QED
  BY <1>1, <1>2

\* Formula f was found to hold (b) or not, from the items mm.
Told(f, mm, b) ==
  IF f.kind = "CID" THEN Holds(f) <=> b
  ELSE mm[f.id].set /\ (~ mm[f.id].moved /\ HasMeaning(f.id) => (Holds(f) <=> b))

\* kr_calc_eval: the formula holds, does not, or has no value; the items that
\* it leaves are right either way.
LEMMA EvalCalcIs ==
  ASSUME EngineConstants, StoreInv, NEW c, Located(c), MemoFits(memo), NEW f, IsFormula(f), NEW ok
  PROVE  LET e == EvalCalc(f, ok)
         IN  /\ e.ret \in {-1, 0, 1} /\ MemoFits(e.memo) /\ Same(e.memo)
             /\ e.ret = 1 => Told(f, e.memo, TRUE)
             /\ e.ret = 0 => Told(f, e.memo, FALSE)
<1>1. CASE f.kind = "CID"
  <2>1. EvalCalc(f, ok) = [ret |-> IF Rec(ctx.curr).val >= f.least THEN 1 ELSE 0, memo |-> memo]
    BY <1>1 DEF EvalCalc, Truth
  <2>2. Holds(f) <=> Rec(ctx.curr).val >= f.least
    BY <1>1 DEF Holds, Located
  <2> QED
    BY <1>1, <2>1, <2>2 DEF Told, Same
<1>2. CASE f.kind # "CID"
  <2>1. f.kind \in {"SID", "DID", "HID"} /\ f.id \in Item
    BY <1>2 DEF IsFormula
  <2> DEFINE n == GetValue(f.id, ok)
             m == n[f.id]
             h == IF m.set THEN (IF m.value >= f.least THEN 1 ELSE 0) ELSE -1
  <2>2. EvalCalc(f, ok) = [ret |-> h, memo |-> n]
    BY <1>2, <2>1 DEF EvalCalc, Asked, Truth
  <2>3. MemoFits(n) /\ Same(n)
    BY <2>1, GetValueFits
  <2> HIDE DEF n
  <2>4. Fits(f.id, m)
    BY <2>1, <2>3 DEF MemoFits
  <2>5. m.set /\ ~ m.moved /\ HasMeaning(f.id) => (Holds(f) <=> m.value >= f.least)
    <3> HAVE m.set /\ ~ m.moved /\ HasMeaning(f.id)
    <3>1. Meant(f.id) = {m.value}
      BY <2>4 DEF Fits, Exact
    <3> QED
      BY <1>2, <3>1 DEF Holds
  <2>6. EvalCalc(f, ok).ret = h /\ EvalCalc(f, ok).memo = n
    BY <2>2
  <2>7. h = 1 => Told(f, n, TRUE)
    BY <1>2, <2>5 DEF Told
  <2>8. h = 0 => Told(f, n, FALSE)
    BY <1>2, <2>5 DEF Told
  <2> QED
    BY <2>3, <2>6, <2>7, <2>8
<1> QED
  BY <1>1, <1>2

-----------------------------------------------------------------------------
(***************************************************************************)
(* The inductive invariant: the store, what is remembered, and how far the *)
(* search for a group and the walk through its rules are.                  *)
(***************************************************************************)

ShapeInv ==
  /\ DOMAIN ctx = {"at", "curr", "group", "rule", "fired", "weights"}
  /\ result = [g \in DOMAIN Group |-> result[g]]
  /\ \A g \in DOMAIN Group : result[g] = [r \in Rules(g) |-> result[g][r]]
  /\ memo = [i \in Item |-> memo[i]]
  /\ \A i \in Item : IsMemo(memo[i])

MemoInv ==
  IF ctx.at = "idle" THEN \A i \in Item : ~ memo[i].set /\ ~ memo[i].moved
  ELSE /\ Len(order) # 0 /\ ctx.curr = order[Len(order)]
       /\ \A i \in Item : Fits(i, memo[i])

\* No group before g was found to hold.
NoneBefore(g) == \A k \in 1 .. g - 1 : Told(Group[k].calc, memo, FALSE)

GroupInv ==
  ctx.at = "groups" => ctx.group \in 1 .. Len(Group) + 1 /\ NoneBefore(ctx.group)

\* The rules of group g before rule k: those of the table have been evaluated
\* and have fired if they were found to hold.
RulesBefore(g, k) ==
  \A r \in Rules(g) :
    r < k /\ Group[g].rules[r].datasrc = Now.tbl
      => /\ r \in ctx.fired => Told(Group[g].rules[r].calc, memo, TRUE)
         /\ r \notin ctx.fired => Told(Group[g].rules[r].calc, memo, FALSE)
         /\ result[g][r] <=> r \in ctx.fired

RuleInv ==
  ctx.at \in {"rules", "done"} =>
    /\ ctx.group \in 1 .. Len(Group) /\ NoneBefore(ctx.group) /\ Told(Group[ctx.group].calc, memo, TRUE)
    /\ ctx.rule \in 1 .. Len(Group[ctx.group].rules) + 1
    /\ \A r \in ctx.fired : /\ r \in Rules(ctx.group) /\ r < ctx.rule
                           /\ Group[ctx.group].rules[r].datasrc = Now.tbl
    /\ ctx.weights = Sums(Weights(ctx.group), ctx.fired)[ctx.rule - 1]
    /\ RulesBefore(ctx.group, ctx.rule)
    /\ ctx.at = "done" => ctx.rule = Len(Group[ctx.group].rules) + 1

EngineInv == StoreInv /\ ShapeInv /\ MemoInv /\ GroupInv /\ RuleInv

LEMMA GroupFacts ==
  ASSUME EngineConstants
  PROVE  /\ Len(Group) \in Nat /\ DOMAIN Group = 1 .. Len(Group)
         /\ \A g \in DOMAIN Group :
              /\ IsFormula(Group[g].calc)
              /\ Len(Group[g].rules) \in Nat /\ Rules(g) = 1 .. Len(Group[g].rules)
              /\ \A r \in Rules(g) : IsFormula(Group[g].rules[r].calc)
              /\ Weights(g) \in Seq(Int) /\ Len(Weights(g)) = Len(Group[g].rules)
              /\ \A r \in Rules(g) : Weights(g)[r] = Group[g].rules[r].weight
<1>1. \A s : IsSeq(s) => Len(s) \in Nat /\ DOMAIN s = 1 .. Len(s)
  BY DEF IsSeq
<1>2. Len(Group) \in Nat /\ DOMAIN Group = 1 .. Len(Group)
  BY <1>1 DEF EngineConstants
<1>3. ASSUME NEW g \in DOMAIN Group
      PROVE  /\ IsFormula(Group[g].calc)
             /\ Len(Group[g].rules) \in Nat /\ Rules(g) = 1 .. Len(Group[g].rules)
             /\ \A r \in Rules(g) : IsFormula(Group[g].rules[r].calc)
             /\ Weights(g) \in Seq(Int) /\ Len(Weights(g)) = Len(Group[g].rules)
             /\ \A r \in Rules(g) : Weights(g)[r] = Group[g].rules[r].weight
  <2>1. /\ IsFormula(Group[g].calc) /\ IsSeq(Group[g].rules)
        /\ \A r \in DOMAIN Group[g].rules : IsRule(Group[g].rules[r])
    BY DEF EngineConstants
  <2>2. Len(Group[g].rules) \in Nat /\ Rules(g) = 1 .. Len(Group[g].rules)
    BY <1>1, <2>1 DEF Rules
  <2>3. \A r \in Rules(g) : Group[g].rules[r].weight \in Int /\ IsFormula(Group[g].rules[r].calc)
    BY <2>1 DEF IsRule, Rules
  <2>4. PICK n \in Nat : n = Len(Group[g].rules)
    BY <2>2
  <2>5. Weights(g) \in [1 .. n -> Int] /\ \A r \in Rules(g) : Weights(g)[r] = Group[g].rules[r].weight
    BY <2>2, <2>3, <2>4 DEF Weights
  <2>6. Weights(g) \in Seq(Int) /\ Len(Weights(g)) = n
    BY <2>5
  <2> QED
    BY <2>1, <2>2, <2>3, <2>4, <2>5, <2>6
<1> QED
  BY <1>2, <1>3

LEMMA EngineInitInv ==
  ASSUME EngineConstants, EngineInit
  PROVE  EngineInv
<1>1. StoreInv
  <2> DEFINE c == [p \in 1 .. 0 |-> 0]
  <2>1. order = <<>> /\ history = <<>> /\ loc = [t \in Table |-> 1] /\ buff = [a \in Addr |-> <<>>]
    BY DEF EngineInit
  <2>2. Len(order) = 0 /\ Len(history) = 0 /\ order \in Seq(Addr) /\ history \in Seq(Event)
    BY <2>1
  <2>3. IsInjective(order)
    BY <2>1 DEF IsInjective
  <2>4. Rising(c, Len(order), Len(history))
    BY <2>2 DEF Rising
  <2>5. Numbers(c, buff, order, loc, history)
    <3>1. \A p \in 1 .. 0 : FALSE
      OBVIOUS
    <3> HIDE DEF c
    <3> QED
      BY <2>2, <2>4, <3>1 DEF Numbers
  <2>6. loc \in [Table -> Nat] /\ \A t \in Table : loc[t] \in 1 .. Keep[t]
    BY <2>1 DEF EngineConstants
  <2> QED
    BY <2>1, <2>2, <2>3, <2>5, <2>6 DEF StoreInv, Stored
<1>2. ShapeInv
  BY DEF EngineInit, ShapeInv, NoRequest, NewItem, IsMemo
<1>3. MemoInv
  BY DEF EngineInit, MemoInv, NoRequest, NewItem
<1>4. GroupInv /\ RuleInv
  BY DEF EngineInit, GroupInv, RuleInv, NoRequest
<1> QED
  BY <1>1, <1>2, <1>3, <1>4 DEF EngineInv

\* What is meant depends on the events alone.
LEMMA SameEvents ==
  ASSUME history' = history
  PROVE  /\ Now' = Now
         /\ \A i : Meant(i)' = Meant(i) /\ Used(i)' = Used(i) /\ (HasMeaning(i)' <=> HasMeaning(i))
         /\ \A f : Holds(f)' <=> Holds(f)
<1>1. Now' = Now
  BY DEF Now
<1>2. \A n : Later(n)' = Later(n)
  BY DEF Later
<1>3. Held' = Held
  BY <1>2 DEF Held
<1>4. Peers' = Peers
  BY <1>1, <1>3 DEF Peers
<1>5. \A d, K : Named(d, K)' = Named(d, K)
  BY <1>4 DEF Named
<1>6. \A d, K : Counted(d, K)' = Counted(d, K)
  BY <1>1, <1>4 DEF Counted
<1>7. \A i, K : Defined(i, K)' = Defined(i, K)
  BY <1>1, <1>5, <1>6 DEF Defined
<1>8. \A i, K : Finished(i, K)' <=> Finished(i, K)
  BY <1>6 DEF Finished
<1>9. \A i : KeptByField(i)' = KeptByField(i)
  BY <1>1, <1>3 DEF KeptByField
<1>10. \A i : KeptByItem(i)' = KeptByItem(i)
  BY <1>3, <1>7, <1>9 DEF KeptByItem
<1>11. \A i : Kept(i)' = Kept(i)
  BY <1>9, <1>10 DEF Kept
<1>12. \A i : Meant(i)' = Meant(i)
  BY <1>7, <1>11 DEF Meant
<1>13. \A i : Used(i)' = Used(i)
  BY <1>5, <1>6, <1>11 DEF Used
<1>14. \A i : HasMeaning(i)' <=> HasMeaning(i)
  BY <1>8, <1>9, <1>11 DEF HasMeaning
<1>15. \A f : Holds(f)' <=> Holds(f)
  BY <1>1, <1>12 DEF Holds
<1> QED
  BY <1>1, <1>12, <1>13, <1>14, <1>15

\* kr_context_clean leaves nothing to be right or wrong.
LEMMA CleanInv ==
  ASSUME ShapeInv, Clean, StoreInv', result' = result
  PROVE  EngineInv'
<1>1. /\ memo' = [i \in Item |-> Forget(memo[i])] /\ ctx' = NoRequest
  BY DEF Clean
<1>2. \A i \in Item : IsMemo(memo'[i]) /\ ~ memo'[i].set /\ ~ memo'[i].moved
  <2> TAKE i \in Item
  <2>1. IsMemo(memo[i]) /\ memo'[i] = Forget(memo[i])
    BY <1>1 DEF ShapeInv
  <2> QED
    BY <2>1, ForgetIs
<1>3. ShapeInv'
  <2>1. memo' = [i \in Item |-> memo'[i]]
    BY <1>1
  <2>2. DOMAIN ctx' = {"at", "curr", "group", "rule", "fired", "weights"}
    BY <1>1 DEF NoRequest
  <2> QED
    BY <1>2, <2>1, <2>2 DEF ShapeInv, IsMemo
<1>4. ctx'.at = "idle"
  BY <1>1 DEF NoRequest
<1>5. MemoInv' /\ GroupInv' /\ RuleInv'
  BY <1>2, <1>4 DEF MemoInv, GroupInv, RuleInv
<1> QED
  BY <1>3, <1>5 DEF EngineInv

LEMMA SameStore ==
  ASSUME UNCHANGED store, StoreInv
  PROVE  StoreInv'
BY DEF store, StoreInv

LEMMA InsertStep ==
  ASSUME EngineConstants, StoreInv, NEW e \in Event, Insert(e)
  PROVE  StoreInv' /\ Len(order') # 0 /\ order'[Len(order')] = At(e)
<1>1. StoreInv'
  BY InsertStored DEF StoreInv, Insert, At
<1>2. PICK r : r = RemoveFirst(order, At(e))
  OBVIOUS
<1>3. r \in Seq(Addr)
  <2>1. order \in Seq(Addr) /\ IsInjective(order) /\ \E c : Numbers(c, buff, order, loc, history)
    BY DEF StoreInv, Stored
  <2>2. Len(history) \in Nat
    BY DEF StoreInv, Stored
  <2>3. \E d, c : RestOf(order, c, At(e), RemoveFirst(order, At(e)), d, Len(history))
    BY <2>1, <2>2, RestIs DEF Numbers
  <2> QED
    BY <1>2, <2>3 DEF RestOf
<1>4. order' = Append(r, At(e))
  BY <1>2 DEF Insert
<1>5. Len(order') = Len(r) + 1 /\ Len(r) \in Nat /\ order'[Len(r) + 1] = At(e)
  BY <1>3, <1>4
<1> QED
  BY <1>1, <1>5

LEMMA InsertEventInv ==
  ASSUME EngineConstants, EngineInv, NEW e \in Event, InsertEvent(e)
  PROVE  EngineInv'
<1>1. StoreInv'
  BY InsertStep DEF EngineInv, InsertEvent
<1> QED
  BY <1>1, CleanInv DEF EngineInv, InsertEvent

LEMMA DetectEventInv ==
  ASSUME EngineConstants, EngineInv, NEW e \in Event, DetectEvent(e)
  PROVE  EngineInv'
<1>1. StoreInv' /\ Len(order') # 0 /\ order'[Len(order')] = At(e)
  BY InsertStep DEF EngineInv, DetectEvent
<1>2. /\ ctx' = [NoRequest EXCEPT !.at = "groups", !.curr = At(e), !.group = 1]
      /\ memo' = memo /\ result' = result
      /\ \A i \in Item : ~ memo[i].set /\ ~ memo[i].moved
  BY DEF DetectEvent, EngineInv, MemoInv
<1>3. /\ ctx'.at = "groups" /\ ctx'.curr = At(e) /\ ctx'.group = 1
      /\ DOMAIN ctx' = {"at", "curr", "group", "rule", "fired", "weights"}
  BY <1>2 DEF NoRequest
<1>4. ShapeInv'
  BY <1>2, <1>3 DEF EngineInv, ShapeInv, IsMemo
<1>5. MemoInv'
  <2>1. \A i \in Item : IsMemo(memo[i]) /\ ~ memo[i].set /\ (Flat(i) => ~ memo[i].moved)
    BY <1>2 DEF EngineInv, ShapeInv
  <2>2. \A i \in Item : Fits(i, memo[i])'
    BY <1>2, <2>1 DEF Fits, Exact, IsMemo
  <2> QED
    BY <1>1, <1>3, <2>2 DEF MemoInv
<1>6. GroupInv'
  <2>1. 1 \in 1 .. Len(Group) + 1
    BY GroupFacts
  <2>2. NoneBefore(1)'
    BY DEF NoneBefore
  <2> QED
    BY <1>3, <2>1, <2>2 DEF GroupInv
<1>7. RuleInv'
  BY <1>3 DEF RuleInv
<1> QED
  BY <1>1, <1>4, <1>5, <1>6, <1>7 DEF EngineInv

LEMMA IdleInv ==
  ASSUME EngineInv, InsertFails \/ Unhandled \/ Reply \/ (\E q \in Ask : Info(q))
  PROVE  EngineInv'
<1>1. Clean /\ UNCHANGED store /\ result' = result
  BY DEF InsertFails, Unhandled, Reply, Info
<1> QED
  BY <1>1, SameStore, CleanInv DEF EngineInv

\* A detection that fails ends as a question does.
LEMMA FailInv ==
  ASSUME EngineInv, NEW f, MemoFits(f.memo), Fail(f), result' = result
  PROVE  EngineInv'
<1>1. /\ memo' = [i \in Item |-> Forget(f.memo[i])] /\ ctx' = NoRequest /\ UNCHANGED store
  BY DEF Fail
<1>2. \A i \in Item : IsMemo(memo'[i]) /\ ~ memo'[i].set /\ ~ memo'[i].moved
  <2> TAKE i \in Item
  <2>1. IsMemo(f.memo[i]) /\ memo'[i] = Forget(f.memo[i])
    BY <1>1 DEF MemoFits, Fits
  <2> QED
    BY <2>1, ForgetIs
<1>3. ShapeInv'
  <2>1. memo' = [i \in Item |-> memo'[i]]
    BY <1>1
  <2>2. DOMAIN ctx' = {"at", "curr", "group", "rule", "fired", "weights"}
    BY <1>1 DEF NoRequest
  <2> QED
    BY <1>2, <2>1, <2>2 DEF EngineInv, ShapeInv, IsMemo
<1>4. ctx'.at = "idle"
  BY <1>1 DEF NoRequest
<1>5. MemoInv' /\ GroupInv' /\ RuleInv'
  BY <1>2, <1>4 DEF MemoInv, GroupInv, RuleInv
<1> QED
  BY <1>1, <1>3, <1>5, SameStore DEF EngineInv

\* What an evaluation leaves is right in the next state too.
LEMMA FitsStay ==
  ASSUME UNCHANGED store, NEW mm, MemoFits(mm), memo' = mm, ctx'.curr = ctx.curr
  PROVE  /\ memo' = [i \in Item |-> memo'[i]]
         /\ \A i \in Item : IsMemo(memo'[i]) /\ Fits(i, memo[i])'
<1>1. history' = history /\ buff' = buff
  BY DEF store
<1>2. \A i : Meant(i)' = Meant(i) /\ Used(i)' = Used(i) /\ (HasMeaning(i)' <=> HasMeaning(i))
  BY <1>1, SameEvents
<1>3. ASSUME NEW i \in Item
      PROVE  IsMemo(memo'[i]) /\ Fits(i, memo[i])'
  <2>1. /\ IsMemo(mm[i]) /\ (mm[i].set => mm[i].curr = ctx.curr) /\ (Flat(i) => ~ mm[i].moved)
        /\ Exact(mm[i], HasMeaning(i), Meant(i), Used(i))
    BY DEF MemoFits, Fits
  <2>2. memo'[i] = mm[i]
    OBVIOUS
  <2>3. \A a : Rec(a)' = Rec(a)
    BY <1>1 DEF Rec
  <2>4. {Rec(a)' : a \in mm[i].related} = {Rec(a) : a \in mm[i].related}
    BY <2>3
  <2>5. {history'[n] : n \in Used(i)'} = {history[n] : n \in Used(i)}
    BY <1>1, <1>2
  <2>6. Fits(i, memo[i])'
          <=> /\ IsMemo(memo'[i])
              /\ memo'[i].set => memo'[i].curr = ctx'.curr
              /\ Flat(i) => ~ memo'[i].moved
              /\ memo'[i].set /\ ~ memo'[i].moved /\ HasMeaning(i)'
                   => /\ Meant(i)' = {memo'[i].value}
                      /\ {Rec(a)' : a \in memo'[i].related} = {history'[n] : n \in Used(i)'}
    BY DEF Fits, Exact, IsMemo, Flat
  <2>7. mm[i].set /\ ~ mm[i].moved /\ HasMeaning(i)
          => /\ Meant(i)' = {mm[i].value}
             /\ {Rec(a)' : a \in mm[i].related} = {history'[n] : n \in Used(i)'}
    <3> HAVE mm[i].set /\ ~ mm[i].moved /\ HasMeaning(i)
    <3>1. Meant(i) = {mm[i].value} /\ {Rec(a) : a \in mm[i].related} = {history[n] : n \in Used(i)}
      BY <2>1 DEF Exact
    <3> QED
      BY <1>2, <2>4, <2>5, <3>1
  <2> QED
    BY <1>2, <2>1, <2>2, <2>6, <2>7
<1> QED
  BY <1>3 DEF MemoFits

\* So is what has been found of a formula.
LEMMA ToldStays ==
  ASSUME UNCHANGED store, NEW mm, Same(mm), memo' = mm,
         NEW f, IsFormula(f), NEW b, Told(f, memo, b)
  PROVE  Told(f, mm, b) /\ Told(f, memo, b)'
<1>1. history' = history
  BY DEF store
<1>2. (Holds(f)' <=> Holds(f)) /\ \A i : HasMeaning(i)' <=> HasMeaning(i)
  BY <1>1, SameEvents
<1>3. CASE f.kind = "CID"
  BY <1>2, <1>3 DEF Told
<1>4. CASE f.kind # "CID"
  <2>1. f.id \in Item
    BY <1>4 DEF IsFormula
  <2>2. memo[f.id].set /\ mm[f.id] = memo[f.id]
    BY <1>4, <2>1 DEF Told, Same
  <2> QED
    BY <1>2, <1>4, <2>2 DEF Told
<1> QED
  BY <1>3, <1>4

LEMMA ToldNext ==
  ASSUME UNCHANGED store, NEW f, NEW mm, memo' = mm, NEW b, Told(f, mm, b)
  PROVE  Told(f, memo, b)'
<1>1. history' = history
  BY DEF store
<1>2. (Holds(f)' <=> Holds(f)) /\ \A i : HasMeaning(i)' <=> HasMeaning(i)
  BY <1>1, SameEvents
<1> QED
  BY <1>2 DEF Told

\* The groups and rules that were dealt with before the step.
LEMMA BehindStays ==
  ASSUME EngineConstants, UNCHANGED store, NEW mm, Same(mm), memo' = mm
  PROVE  /\ \A g \in 1 .. Len(Group) + 1 : NoneBefore(g) => NoneBefore(g)'
         /\ \A g \in DOMAIN Group : \A r \in Rules(g), b \in BOOLEAN :
              Told(Group[g].rules[r].calc, memo, b) => Told(Group[g].rules[r].calc, memo, b)'
         /\ \A g \in DOMAIN Group, b \in BOOLEAN : Told(Group[g].calc, memo, b) => Told(Group[g].calc, memo, b)'
<1>1. /\ Len(Group) \in Nat /\ DOMAIN Group = 1 .. Len(Group)
      /\ \A g \in DOMAIN Group : IsFormula(Group[g].calc) /\ \A r \in Rules(g) : IsFormula(Group[g].rules[r].calc)
  BY GroupFacts
<1>2. \A g \in DOMAIN Group, b \in BOOLEAN : Told(Group[g].calc, memo, b) => Told(Group[g].calc, memo, b)'
  <2> TAKE g \in DOMAIN Group, b \in BOOLEAN
  <2> HAVE Told(Group[g].calc, memo, b)
  <2>1. IsFormula(Group[g].calc)
    BY <1>1
  <2> QED
    BY <2>1, ToldStays
<1>3. \A g \in DOMAIN Group : \A r \in Rules(g), b \in BOOLEAN :
        Told(Group[g].rules[r].calc, memo, b) => Told(Group[g].rules[r].calc, memo, b)'
  <2> TAKE g \in DOMAIN Group
  <2> TAKE r \in Rules(g), b \in BOOLEAN
  <2> HAVE Told(Group[g].rules[r].calc, memo, b)
  <2>1. IsFormula(Group[g].rules[r].calc)
    BY <1>1
  <2> QED
    BY <2>1, ToldStays
<1>4. ASSUME NEW g \in 1 .. Len(Group) + 1, NoneBefore(g)
      PROVE  NoneBefore(g)'
  <2>1. \A k \in 1 .. g - 1 : k \in DOMAIN Group
    BY <1>1
  <2>2. \A k \in 1 .. g - 1 : Told(Group[k].calc, memo, FALSE)'
    BY <1>2, <1>4, <2>1 DEF NoneBefore
  <2> QED
    BY <2>2 DEF NoneBefore
<1> QED
  BY <1>2, <1>3, <1>4

\* The items of a request in progress.
LEMMA ServedFits ==
  ASSUME EngineConstants, EngineInv, ctx.at # "idle"
  PROVE  MemoFits(memo) /\ Same(memo) /\ \E c : Located(c)
<1>1. MemoFits(memo) /\ Same(memo)
  BY DEF EngineInv, ShapeInv, MemoInv, MemoFits, Same
<1>2. \E c : Located(c)
  BY LastIsNow DEF EngineInv, MemoInv
<1> QED
  BY <1>1, <1>2

LEMMA MatchGroupInv ==
  ASSUME EngineConstants, EngineInv, NEW ok, MatchGroup(ok)
  PROVE  EngineInv'
<1>0. PICK n : n = ctx.group
  OBVIOUS
<1>01. PICK calc : calc = Group[n].calc
  OBVIOUS
<1> DEFINE e == EvalCalc(calc, ok)
<1>1. ctx.at = "groups" /\ n \in DOMAIN Group /\ result' = result
  BY <1>0 DEF MatchGroup
<1>2. /\ Len(Group) \in Nat /\ DOMAIN Group = 1 .. Len(Group) /\ IsFormula(calc)
      /\ Len(Group[n].rules) \in Nat /\ Rules(n) = 1 .. Len(Group[n].rules) /\ Weights(n) \in Seq(Int)
  BY <1>01, <1>1, GroupFacts
<1>3. PICK c : Located(c)
  BY <1>1, ServedFits
<1>4. /\ e.ret \in {-1, 0, 1} /\ MemoFits(e.memo) /\ Same(e.memo)
      /\ e.ret = 1 => Told(calc, e.memo, TRUE)
      /\ e.ret = 0 => Told(calc, e.memo, FALSE)
  BY <1>1, <1>2, <1>3, ServedFits, EvalCalcIs DEF EngineInv
<1>5. IF e.ret < 0 THEN Fail(e)
      ELSE /\ memo' = e.memo
           /\ ctx' = IF e.ret = 1 THEN [ctx EXCEPT !.at = "rules", !.rule = 1, !.fired = {}, !.weights = 0]
                     ELSE [ctx EXCEPT !.group = @ + 1]
           /\ UNCHANGED <<store, reply, log>>
  BY <1>0, <1>01 DEF MatchGroup, GroupEvaluated
<1> HIDE DEF e
<1>6. CASE e.ret = -1
  <2>1. Fail(e)
    BY <1>5, <1>6
  <2> QED
    BY <1>1, <1>4, <2>1, FailInv
<1>7. CASE e.ret # -1
  <2>1. /\ e.ret \in {0, 1} /\ memo' = e.memo /\ UNCHANGED store
        /\ ctx' = IF e.ret = 1 THEN [ctx EXCEPT !.at = "rules", !.rule = 1, !.fired = {}, !.weights = 0]
                  ELSE [ctx EXCEPT !.group = @ + 1]
    BY <1>4, <1>5, <1>7
  <2>2. DOMAIN ctx = {"at", "curr", "group", "rule", "fired", "weights"}
    BY DEF EngineInv, ShapeInv
  <2>3. /\ DOMAIN ctx' = {"at", "curr", "group", "rule", "fired", "weights"}
        /\ ctx'.curr = ctx.curr
        /\ e.ret = 1 => ctx'.at = "rules" /\ ctx'.rule = 1 /\ ctx'.fired = {} /\ ctx'.weights = 0 /\ ctx'.group = n
        /\ e.ret # 1 => ctx'.at = "groups" /\ ctx'.group = n + 1
    BY <1>0, <1>1, <2>1, <2>2
  <2>4. history' = history /\ order' = order
    BY <2>1 DEF store
  <2>5. /\ memo' = [i \in Item |-> memo'[i]]
        /\ \A i \in Item : IsMemo(memo'[i]) /\ Fits(i, memo[i])'
    BY <1>4, <2>1, <2>3, FitsStay
  <2>6. ShapeInv'
    BY <1>1, <2>3, <2>5 DEF EngineInv, ShapeInv, IsMemo
  <2>7. MemoInv'
    BY <1>1, <2>1, <2>3, <2>4, <2>5 DEF EngineInv, MemoInv
  <2>8. n \in 1 .. Len(Group) /\ n \in 1 .. Len(Group) + 1 /\ NoneBefore(n)
    BY <1>0, <1>1, <1>2 DEF EngineInv, GroupInv
  <2>9. NoneBefore(n)'
    BY <1>4, <2>1, <2>8, BehindStays
  <2>10. GroupInv'
    <3> SUFFICES ASSUME ctx'.at = "groups"
                 PROVE  ctx'.group \in 1 .. Len(Group) + 1 /\ NoneBefore(ctx.group)'
      BY DEF GroupInv
    <3>1. ctx'.group = n + 1 /\ e.ret = 0
      BY <2>1, <2>3
    <3>2. n + 1 \in 1 .. Len(Group) + 1
      BY <1>2, <2>8
    <3>3. Told(calc, memo, FALSE)'
      BY <1>4, <2>1, <3>1, ToldNext
    <3>4. \A k \in 1 .. (n + 1) - 1 : k \in 1 .. n - 1 \/ k = n
      BY <1>2, <2>8
    <3>5. \A k \in 1 .. n - 1 : Told(Group[k].calc, memo, FALSE)'
      BY <2>9 DEF NoneBefore
    <3>6. Told(Group[n].calc, memo, FALSE)'
      BY <1>01, <3>3
    <3>7. \A k \in 1 .. ctx'.group - 1 : Told(Group[k].calc, memo, FALSE)'
      BY <3>1, <3>4, <3>5, <3>6
    <3> QED
      BY <3>1, <3>2, <3>7 DEF NoneBefore
  <2>11. RuleInv'
    <3> SUFFICES ASSUME ctx'.at \in {"rules", "done"}
                 PROVE  RuleInv'
      BY DEF RuleInv
    <3>1. /\ e.ret = 1 /\ ctx'.at = "rules"
          /\ ctx'.rule = 1 /\ ctx'.fired = {} /\ ctx'.weights = 0 /\ ctx'.group = n
      BY <2>1, <2>3
    <3>2. 1 \in 1 .. Len(Group[n].rules) + 1 /\ \A r \in Rules(n) : ~ (r < 1)
      BY <1>2
    <3>0. Told(calc, memo, TRUE)'
      BY <1>4, <2>1, <3>1, ToldNext
    <3>3. Told(Group[n].calc, memo, TRUE)'
      BY <1>01, <3>0
    <3>4. Sums(Weights(n), {})[1 - 1] = 0
      BY <1>2, SumsAre
    <3>5. NoneBefore(ctx.group)' /\ Told(Group[ctx.group].calc, memo, TRUE)'
      BY <2>9, <3>1, <3>3
    <3>6. RulesBefore(ctx.group, ctx.rule)'
      BY <3>1, <3>2 DEF RulesBefore
    <3> QED
      BY <2>8, <3>1, <3>2, <3>4, <3>5, <3>6 DEF RuleInv
  <2>12. StoreInv'
    BY <2>1, SameStore DEF EngineInv
  <2> QED
    BY <2>6, <2>7, <2>10, <2>11, <2>12 DEF EngineInv
<1> QED
  BY <1>4, <1>6, <1>7

\* The walk through the rules goes on behind rule k, which has fired or not.
LEMMA RuleBehind ==
  ASSUME EngineConstants, NEW n \in DOMAIN Group, NEW k \in Rules(n), NEW old, NEW new,
         \A r \in old : r \in Rules(n) /\ r < k,
         \A r : r # k => (r \in old <=> r \in new)
  PROVE  /\ Sums(Weights(n), new)[(k + 1) - 1]
              = Sums(Weights(n), old)[k - 1] + (IF k \in new THEN Group[n].rules[k].weight ELSE 0)
         /\ Sums(Weights(n), old)[k - 1] \in Int
         /\ k + 1 \in 1 .. Len(Group[n].rules) + 1
         /\ \A r \in Rules(n) : r < k + 1 <=> r < k \/ r = k
<1> DEFINE w == Weights(n)
           l == Len(Group[n].rules)
<1>1. /\ l \in Nat /\ Rules(n) = 1 .. l /\ w \in Seq(Int) /\ Len(w) = l
      /\ w[k] = Group[n].rules[k].weight
  BY GroupFacts
<1> HIDE DEF w, l
<1>2. k \in 1 .. l /\ k \in Nat /\ k - 1 \in 0 .. l /\ (k + 1) - 1 = k
  BY <1>1
<1>3. \A r \in Rules(n) : r < k + 1 <=> r < k \/ r = k
  BY <1>1, <1>2
<1>4. \A r \in 1 .. k - 1 : r \in new <=> r \in old
  BY <1>2
<1>5. Sums(w, new)[k - 1] = Sums(w, old)[k - 1]
  BY <1>1, <1>2, <1>4, SumsLocal
<1>6. /\ Sums(w, new) \in [0 .. l -> Int] /\ Sums(w, old) \in [0 .. l -> Int]
      /\ Sums(w, new)[k] = Sums(w, new)[k - 1] + (IF k \in new THEN w[k] ELSE 0)
  BY <1>1, <1>2, SumsAre
<1>7. Sums(w, old)[k - 1] \in Int
  BY <1>2, <1>6
<1>8. k + 1 \in 1 .. l + 1
  BY <1>1, <1>2
<1> QED
  BY <1>1, <1>2, <1>3, <1>5, <1>6, <1>7, <1>8 DEF w, l

\* The rule at hand has been passed over, or evaluated (b: it has fired).
RuleDone(mm, b) ==
  /\ UNCHANGED store /\ memo' = mm /\ DOMAIN ctx' = DOMAIN ctx
  /\ ctx'.at = "rules" /\ ctx'.curr = ctx.curr /\ ctx'.group = ctx.group /\ ctx'.rule = ctx.rule + 1
  /\ ctx'.fired = IF b THEN ctx.fired \cup {ctx.rule} ELSE ctx.fired
  /\ ctx'.weights = IF b THEN ctx.weights + Rule.weight ELSE ctx.weights
  /\ result' = [g \in DOMAIN Group |-> result'[g]]
  /\ \A g \in DOMAIN Group : result'[g] = [r \in Rules(g) |-> result'[g][r]]
  /\ \A r \in Rules(ctx.group) : r # ctx.rule => result'[ctx.group][r] = result[ctx.group][r]

LEMMA RuleDoneInv ==
  ASSUME EngineConstants, EngineInv, ctx.at = "rules", ctx.rule \in Rules(ctx.group),
         NEW mm, MemoFits(mm), Same(mm), NEW b \in BOOLEAN, RuleDone(mm, b),
         b => Rule.datasrc = Now.tbl,
         Rule.datasrc = Now.tbl => Told(Rule.calc, mm, b) /\ (result'[ctx.group][ctx.rule] <=> b)
  PROVE  EngineInv'
<1>0. PICK n : n = ctx.group
  OBVIOUS
<1>01. PICK k : k = ctx.rule
  OBVIOUS
<1>1. k \in Rules(n) /\ n \in DOMAIN Group /\ n \in 1 .. Len(Group) /\ n \in 1 .. Len(Group) + 1 /\ Rule = Group[n].rules[k]
  BY <1>0, <1>01, GroupFacts DEF EngineInv, RuleInv, Rule
<1>2. /\ NoneBefore(n) /\ Told(Group[n].calc, memo, TRUE)
      /\ \A r \in ctx.fired : r \in Rules(n) /\ r < k /\ Group[n].rules[r].datasrc = Now.tbl
      /\ ctx.weights = Sums(Weights(n), ctx.fired)[k - 1]
      /\ RulesBefore(n, k)
  BY <1>0, <1>01 DEF EngineInv, RuleInv
<1>3. /\ memo' = mm /\ UNCHANGED store /\ DOMAIN ctx' = DOMAIN ctx
      /\ ctx'.at = "rules" /\ ctx'.curr = ctx.curr /\ ctx'.group = n /\ ctx'.rule = k + 1
  BY <1>0, <1>01 DEF RuleDone
<1>4. /\ \A r : r # k => (r \in ctx.fired <=> r \in ctx'.fired)
      /\ k \in ctx'.fired <=> b
  <2>1. k \notin ctx.fired
    <3>1. k \in Nat
      BY <1>1, GroupFacts
    <3> QED
      BY <1>2, <3>1
  <2> QED
    BY <1>01, <2>1 DEF RuleDone
<1>5. /\ Sums(Weights(n), ctx'.fired)[(k + 1) - 1]
           = Sums(Weights(n), ctx.fired)[k - 1] + (IF k \in ctx'.fired THEN Group[n].rules[k].weight ELSE 0)
      /\ Sums(Weights(n), ctx.fired)[k - 1] \in Int
      /\ k + 1 \in 1 .. Len(Group[n].rules) + 1
      /\ \A r \in Rules(n) : r < k + 1 <=> r < k \/ r = k
  BY <1>1, <1>2, <1>4, RuleBehind
<1>6. history' = history /\ order' = order
  BY <1>3 DEF store
<1>7. Now' = Now
  BY <1>6, SameEvents
<1>8. /\ memo' = [i \in Item |-> memo'[i]]
      /\ \A i \in Item : IsMemo(memo'[i]) /\ Fits(i, memo[i])'
  BY <1>3, FitsStay
<1>9. /\ NoneBefore(n)' /\ Told(Group[n].calc, memo, TRUE)'
      /\ \A r \in Rules(n), c \in BOOLEAN :
           Told(Group[n].rules[r].calc, memo, c) => Told(Group[n].rules[r].calc, memo, c)'
  BY <1>1, <1>2, <1>3, BehindStays
<1>10. Rule.datasrc = Now.tbl => Told(Group[n].rules[k].calc, memo, b)'
  BY <1>1, <1>3, ToldNext
<1>11. ShapeInv'
  BY <1>3, <1>8 DEF EngineInv, ShapeInv, IsMemo, RuleDone
<1>12. MemoInv'
  BY <1>3, <1>6, <1>8 DEF EngineInv, MemoInv
<1>13. GroupInv'
  BY <1>3 DEF GroupInv
<1>14. ASSUME NEW r \in Rules(n), r < k + 1, Group[n].rules[r].datasrc = Now.tbl
       PROVE  /\ r \in ctx'.fired => Told(Group[n].rules[r].calc, memo, TRUE)'
              /\ r \notin ctx'.fired => Told(Group[n].rules[r].calc, memo, FALSE)'
              /\ result'[n][r] <=> r \in ctx'.fired
  <2>1. CASE r = k
    <3>1. /\ b => Told(Group[n].rules[k].calc, memo, TRUE)'
          /\ ~ b => Told(Group[n].rules[k].calc, memo, FALSE)'
      BY <1>1, <1>10, <1>14, <2>1
    <3> QED
      BY <1>0, <1>01, <1>1, <1>4, <1>14, <2>1, <3>1
  <2>2. CASE r # k
    <3>1. r < k
      BY <1>5, <1>14, <2>2
    <3>2. /\ r \in ctx.fired => Told(Group[n].rules[r].calc, memo, TRUE)
          /\ r \notin ctx.fired => Told(Group[n].rules[r].calc, memo, FALSE)
          /\ result[n][r] <=> r \in ctx.fired
      BY <1>2, <1>14, <3>1 DEF RulesBefore
    <3>3. result'[n][r] = result[n][r]
      BY <1>0, <1>01, <2>2 DEF RuleDone
    <3>4. TRUE \in BOOLEAN /\ FALSE \in BOOLEAN
      OBVIOUS
    <3> QED
      BY <1>4, <1>9, <2>2, <3>2, <3>3, <3>4
  <2> QED
    BY <2>1, <2>2
<1>15. RulesBefore(ctx.group, ctx.rule)'
  BY <1>3, <1>7, <1>14 DEF RulesBefore
<1>16. \A r \in ctx'.fired : r \in Rules(n) /\ r < k + 1 /\ Group[n].rules[r].datasrc = Now.tbl
  <2> TAKE r \in ctx'.fired
  <2>1. CASE r = k
    BY <1>1, <1>4, <1>5, <2>1
  <2>2. CASE r # k
    BY <1>2, <1>4, <1>5, <2>2
  <2> QED
    BY <2>1, <2>2
<1>17. ctx'.weights = Sums(Weights(n), ctx'.fired)[(k + 1) - 1]
  BY <1>01, <1>1, <1>2, <1>4, <1>5 DEF RuleDone
<1>18. NoneBefore(ctx.group)' /\ Told(Group[ctx.group].calc, memo, TRUE)'
  BY <1>3, <1>9
<1>19. RuleInv'
  BY <1>1, <1>3, <1>5, <1>7, <1>15, <1>16, <1>17, <1>18 DEF RuleInv
<1>20. StoreInv'
  BY <1>3, SameStore DEF EngineInv
<1> QED
  BY <1>11, <1>12, <1>13, <1>19, <1>20 DEF EngineInv

LEMMA DetectRuleInv ==
  ASSUME EngineConstants, EngineInv, NEW ok, DetectRule(ok)
  PROVE  EngineInv'
<1> DEFINE e == EvalCalc(Rule.calc, ok)
           n == ctx.group
           k == ctx.rule
<1>1. ctx.at = "rules" /\ k \in Rules(n)
  BY DEF DetectRule
<1>2. n \in DOMAIN Group /\ Rule = Group[n].rules[k]
  BY <1>1, GroupFacts DEF EngineInv, RuleInv, Rule
<1>3. IsFormula(Rule.calc)
  BY <1>1, <1>2, GroupFacts
<1>4. MemoFits(memo) /\ Same(memo) /\ \E c : Located(c)
  BY <1>1, ServedFits
<1>5. ctx.curr[1] = Now.tbl
  BY <1>4 DEF Located
<1>6. DOMAIN ctx = {"at", "curr", "group", "rule", "fired", "weights"}
  BY DEF EngineInv, ShapeInv
<1>7. /\ result = [g \in DOMAIN Group |-> result[g]]
      /\ \A g \in DOMAIN Group : result[g] = [r \in Rules(g) |-> result[g][r]]
  BY DEF EngineInv, ShapeInv
<1>8. CASE Rule.datasrc # ctx.curr[1]
  <2>1. ctx' = [ctx EXCEPT !.rule = @ + 1] /\ UNCHANGED <<store, memo, result, reply, log>>
    BY <1>8 DEF DetectRule
  <2>2. Rule.datasrc # Now.tbl
    BY <1>5, <1>8
  <2>3. /\ ctx'.at = "rules" /\ ctx'.curr = ctx.curr /\ ctx'.group = n /\ ctx'.rule = k + 1
        /\ DOMAIN ctx' = DOMAIN ctx /\ ctx'.fired = ctx.fired /\ ctx'.weights = ctx.weights
    BY <1>1, <1>6, <2>1
  <2>4. RuleDone(memo, FALSE)
    BY <1>7, <2>1, <2>3 DEF RuleDone
  <2> QED
    BY <1>1, <1>4, <2>2, <2>4, RuleDoneInv
<1>9. CASE Rule.datasrc = ctx.curr[1]
  <2>1. /\ e.ret \in {-1, 0, 1} /\ MemoFits(e.memo) /\ Same(e.memo)
        /\ e.ret = 1 => Told(Rule.calc, e.memo, TRUE)
        /\ e.ret = 0 => Told(Rule.calc, e.memo, FALSE)
    BY <1>3, <1>4, EvalCalcIs DEF EngineInv
  <2>2. IF e.ret < 0 THEN Fail(e) /\ UNCHANGED result
        ELSE /\ memo' = e.memo
             /\ result' = [result EXCEPT ![n][k] = (e.ret = 1)]
             /\ ctx' = [ctx EXCEPT !.rule = @ + 1,
                          !.fired = IF e.ret = 1 THEN @ \cup {k} ELSE @,
                          !.weights = IF e.ret = 1 THEN @ + Rule.weight ELSE @]
             /\ UNCHANGED <<store, reply, log>>
    BY <1>9 DEF DetectRule, RuleEvaluated
  <2> HIDE DEF e
  <2>3. CASE e.ret = -1
    <3>1. Fail(e) /\ result' = result
      BY <2>2, <2>3
    <3> QED
      BY <2>1, <3>1, FailInv
  <2>4. CASE e.ret # -1
    <3>1. /\ memo' = e.memo /\ UNCHANGED store
          /\ result' = [result EXCEPT ![n][k] = (e.ret = 1)]
          /\ ctx' = [ctx EXCEPT !.rule = @ + 1,
                       !.fired = IF e.ret = 1 THEN @ \cup {k} ELSE @,
                       !.weights = IF e.ret = 1 THEN @ + Rule.weight ELSE @]
      BY <2>1, <2>2, <2>4
    <3>2. /\ ctx'.at = "rules" /\ ctx'.curr = ctx.curr /\ ctx'.group = n /\ ctx'.rule = k + 1
          /\ DOMAIN ctx' = DOMAIN ctx
          /\ ctx'.fired = (IF e.ret = 1 THEN ctx.fired \cup {k} ELSE ctx.fired)
          /\ ctx'.weights = (IF e.ret = 1 THEN ctx.weights + Rule.weight ELSE ctx.weights)
      BY <1>1, <1>6, <3>1
    <3>3. /\ result' = [g \in DOMAIN Group |-> result'[g]]
          /\ \A g \in DOMAIN Group : result'[g] = [r \in Rules(g) |-> result'[g][r]]
          /\ \A r \in Rules(n) : r # k => result'[n][r] = result[n][r]
          /\ result'[n][k] = (e.ret = 1)
      BY <1>1, <1>2, <1>7, <3>1
    <3>4. PICK b \in BOOLEAN : b <=> e.ret = 1
      OBVIOUS
    <3>5. RuleDone(e.memo, b)
      BY <3>1, <3>2, <3>3, <3>4 DEF RuleDone
    <3>6. Told(Rule.calc, e.memo, b)
      <4>1. CASE b
        BY <2>1, <3>4, <4>1
      <4>2. CASE ~ b
        BY <2>1, <2>4, <3>4, <4>2
      <4> QED
        BY <4>1, <4>2
    <3>7. result'[n][k] <=> b
      BY <3>3, <3>4
    <3> QED
      BY <1>1, <1>5, <1>9, <2>1, <3>5, <3>6, <3>7, RuleDoneInv
  <2> QED
    BY <2>3, <2>4
<1> QED
  BY <1>8, <1>9

\* What has been found stays so as long as the items do.
LEMMA FoundStays ==
  ASSUME EngineConstants, EngineInv, UNCHANGED store, memo' = memo, result' = result,
         ctx.at # "idle", DOMAIN ctx' = DOMAIN ctx, ctx'.curr = ctx.curr, ctx'.at # "idle",
         ctx'.group = ctx.group, ctx'.rule = ctx.rule,
         ctx'.fired = ctx.fired, ctx'.weights = ctx.weights
  PROVE  /\ StoreInv' /\ ShapeInv' /\ MemoInv' /\ Now' = Now
         /\ \A g \in 1 .. Len(Group) + 1 : NoneBefore(g) => NoneBefore(g)'
         /\ \A g \in DOMAIN Group :
              /\ Told(Group[g].calc, memo, TRUE) => Told(Group[g].calc, memo, TRUE)'
              /\ \A k : RulesBefore(g, k) => RulesBefore(g, k)'
<1>1. MemoFits(memo) /\ Same(memo)
  BY ServedFits
<1>2. history' = history /\ order' = order
  BY DEF store
<1>3. Now' = Now
  BY <1>2, SameEvents
<1>4. /\ memo' = [i \in Item |-> memo'[i]]
      /\ \A i \in Item : IsMemo(memo'[i]) /\ Fits(i, memo[i])'
  BY <1>1, FitsStay
<1>5. ShapeInv'
  BY <1>4 DEF EngineInv, ShapeInv, IsMemo
<1>6. MemoInv'
  BY <1>2, <1>4 DEF EngineInv, MemoInv
<1>7. StoreInv'
  BY SameStore DEF EngineInv
<1>8. TRUE \in BOOLEAN /\ FALSE \in BOOLEAN
  OBVIOUS
<1>9. \A g \in 1 .. Len(Group) + 1 : NoneBefore(g) => NoneBefore(g)'
  BY <1>1, BehindStays
<1>10. ASSUME NEW g \in DOMAIN Group
       PROVE  /\ Told(Group[g].calc, memo, TRUE) => Told(Group[g].calc, memo, TRUE)'
              /\ \A k : RulesBefore(g, k) => RulesBefore(g, k)'
  <2>1. /\ \A b \in BOOLEAN : Told(Group[g].calc, memo, b) => Told(Group[g].calc, memo, b)'
        /\ \A r \in Rules(g), b \in BOOLEAN :
             Told(Group[g].rules[r].calc, memo, b) => Told(Group[g].rules[r].calc, memo, b)'
    BY <1>1, BehindStays
  <2>2. ASSUME NEW k, RulesBefore(g, k)
        PROVE  RulesBefore(g, k)'
    BY <1>3, <1>8, <2>1, <2>2 DEF RulesBefore
  <2> QED
    BY <1>8, <2>1, <2>2
<1> QED
  BY <1>3, <1>5, <1>6, <1>7, <1>9, <1>10

LEMMA DumpInv ==
  ASSUME EngineConstants, EngineInv, Dump \/ DumpNoGroup
  PROVE  EngineInv'
<1>1. /\ UNCHANGED store /\ memo' = memo /\ result' = result /\ ctx.at \in {"groups", "rules"}
      /\ \/ ctx' = [ctx EXCEPT !.at = "done"] /\ ctx.at = "rules" /\ ctx.rule \notin Rules(ctx.group)
         \/ ctx' = [ctx EXCEPT !.at = "trap"]
  BY DEF Dump, DumpNoGroup
<1>2. DOMAIN ctx = {"at", "curr", "group", "rule", "fired", "weights"}
  BY DEF EngineInv, ShapeInv
<1>3. /\ DOMAIN ctx' = DOMAIN ctx /\ ctx'.curr = ctx.curr /\ ctx'.group = ctx.group
      /\ ctx'.rule = ctx.rule /\ ctx'.fired = ctx.fired /\ ctx'.weights = ctx.weights
      /\ ctx'.at \in {"done", "trap"}
      /\ ctx'.at = "done" => ctx.at = "rules" /\ ctx.rule \notin Rules(ctx.group)
  BY <1>1, <1>2
<1>4. /\ StoreInv' /\ ShapeInv' /\ MemoInv' /\ Now' = Now
      /\ \A g \in 1 .. Len(Group) + 1 : NoneBefore(g) => NoneBefore(g)'
      /\ \A g \in DOMAIN Group :
           /\ Told(Group[g].calc, memo, TRUE) => Told(Group[g].calc, memo, TRUE)'
           /\ \A k : RulesBefore(g, k) => RulesBefore(g, k)'
  BY <1>1, <1>3, FoundStays
<1>5. GroupInv'
  BY <1>3 DEF GroupInv
<1>6. RuleInv'
  <2> SUFFICES ASSUME ctx'.at = "done"
               PROVE  RuleInv'
    BY <1>3 DEF RuleInv
  <2>0. PICK n : n = ctx.group
    OBVIOUS
  <2>1. ctx.at = "rules" /\ ctx.rule \notin Rules(ctx.group)
    BY <1>3
  <2>2. /\ ctx.group \in 1 .. Len(Group) /\ NoneBefore(ctx.group) /\ Told(Group[ctx.group].calc, memo, TRUE)
        /\ ctx.rule \in 1 .. Len(Group[ctx.group].rules) + 1
        /\ RulesBefore(ctx.group, ctx.rule)
    BY <2>1 DEF EngineInv, RuleInv
  <2>3. ctx.rule = Len(Group[ctx.group].rules) + 1
    <3>1. ctx.group \in DOMAIN Group
      BY <2>2, GroupFacts
    <3>2. Rules(ctx.group) = 1 .. Len(Group[ctx.group].rules) /\ Len(Group[ctx.group].rules) \in Nat
      BY <3>1, GroupFacts
    <3>3. PICK l \in Nat : l = Len(Group[ctx.group].rules)
      BY <3>2
    <3>4. PICK k \in 1 .. l + 1 : k = ctx.rule
      BY <2>2, <3>3
    <3>5. k \notin 1 .. l
      BY <2>1, <3>2, <3>3, <3>4
    <3>6. k = l + 1
      BY <3>5
    <3> QED
      BY <3>3, <3>4, <3>6
  <2>4. n \in DOMAIN Group /\ n \in 1 .. Len(Group) + 1
    BY <2>0, <2>2, GroupFacts
  <2>5. NoneBefore(ctx.group)' /\ Told(Group[ctx.group].calc, memo, TRUE)' /\ RulesBefore(ctx.group, ctx.rule)'
    BY <1>3, <1>4, <2>0, <2>2, <2>4
  <2> QED
    BY <1>1, <1>3, <1>4, <2>1, <2>3, <2>5 DEF EngineInv, RuleInv
<1> QED
  BY <1>4, <1>5, <1>6 DEF EngineInv

LEMMA EngineStep ==
  ASSUME EngineConstants, EngineInv, [EngineNext]_engineVars
  PROVE  EngineInv'
<1>1. CASE EngineNext
  <2>1. ASSUME NEW e \in Event, InsertEvent(e) \/ DetectEvent(e)
        PROVE  EngineInv'
    BY <2>1, InsertEventInv, DetectEventInv
  <2>2. ASSUME NEW ok \in BOOLEAN, MatchGroup(ok) \/ DetectRule(ok)
        PROVE  EngineInv'
    BY <2>2, MatchGroupInv, DetectRuleInv
  <2>3. CASE Dump \/ DumpNoGroup
    BY <2>3, DumpInv
  <2>4. CASE Reply \/ InsertFails \/ Unhandled \/ (\E q \in Ask : Info(q))
    BY <2>4, IdleInv
  <2> QED
    BY <1>1, <2>1, <2>2, <2>3, <2>4 DEF EngineNext
<1>2. CASE UNCHANGED engineVars
  <2>1. /\ UNCHANGED store /\ memo' = memo /\ ctx' = ctx /\ result' = result
    BY <1>2 DEF engineVars, store
  <2>2. CASE ctx.at = "idle"
    <3>1. StoreInv'
      BY <2>1, SameStore DEF EngineInv
    <3>2. ShapeInv' /\ MemoInv'
      BY <2>1, <2>2 DEF EngineInv, ShapeInv, MemoInv, IsMemo
    <3>3. GroupInv' /\ RuleInv'
      BY <2>1, <2>2 DEF GroupInv, RuleInv
    <3> QED
      BY <3>1, <3>2, <3>3 DEF EngineInv
  <2>3. CASE ctx.at # "idle"
    <3>1. /\ StoreInv' /\ ShapeInv' /\ MemoInv' /\ Now' = Now
          /\ \A g \in 1 .. Len(Group) + 1 : NoneBefore(g) => NoneBefore(g)'
          /\ \A g \in DOMAIN Group :
               /\ Told(Group[g].calc, memo, TRUE) => Told(Group[g].calc, memo, TRUE)'
               /\ \A k : RulesBefore(g, k) => RulesBefore(g, k)'
      BY <2>1, <2>3, FoundStays
    <3>2. GroupInv'
      <4> SUFFICES ASSUME ctx.at = "groups"
                   PROVE  GroupInv'
        BY <2>1 DEF GroupInv
      <4>1. ctx.group \in 1 .. Len(Group) + 1 /\ NoneBefore(ctx.group)
        BY DEF EngineInv, GroupInv
      <4>2. NoneBefore(ctx.group)'
        BY <2>1, <3>1, <4>1
      <4> QED
        BY <2>1, <4>1, <4>2 DEF GroupInv
    <3>3. RuleInv'
      <4> SUFFICES ASSUME ctx.at \in {"rules", "done"}
                   PROVE  RuleInv'
        BY <2>1 DEF RuleInv
      <4>1. /\ ctx.group \in 1 .. Len(Group) /\ NoneBefore(ctx.group) /\ Told(Group[ctx.group].calc, memo, TRUE)
            /\ RulesBefore(ctx.group, ctx.rule)
        BY DEF EngineInv, RuleInv
      <4>2. ctx.group \in DOMAIN Group /\ ctx.group \in 1 .. Len(Group) + 1
        BY <4>1, GroupFacts
      <4>3. NoneBefore(ctx.group)' /\ Told(Group[ctx.group].calc, memo, TRUE)' /\ RulesBefore(ctx.group, ctx.rule)'
        BY <2>1, <3>1, <4>1, <4>2
      <4> QED
        BY <2>1, <3>1, <4>1, <4>3 DEF EngineInv, RuleInv
    <3> QED
      BY <3>1, <3>2, <3>3 DEF EngineInv
  <2> QED
    BY <2>2, <2>3
<1> QED
  BY <1>1, <1>2

LEMMA EngineInvReply ==
  ASSUME EngineConstants, EngineInv
  PROVE  ReplyExact
<1> SUFFICES ASSUME ctx.at = "done"
             PROVE  ReplyExact
  BY DEF ReplyExact
<1> DEFINE n == ctx.group
           l == Len(Group[n].rules)
<1>1. /\ n \in 1 .. Len(Group) /\ NoneBefore(n) /\ Told(Group[n].calc, memo, TRUE)
      /\ \A r \in ctx.fired : r \in Rules(n) /\ Group[n].rules[r].datasrc = Now.tbl
      /\ ctx.weights = Sums(Weights(n), ctx.fired)[(l + 1) - 1]
      /\ RulesBefore(n, l + 1)
  BY DEF EngineInv, RuleInv
<1>2. n \in DOMAIN Group /\ l \in Nat /\ Rules(n) = 1 .. l /\ Len(Weights(n)) = l
  BY <1>1, GroupFacts
<1>3. (l + 1) - 1 = l /\ \A r \in Rules(n) : r < l + 1
  BY <1>2
<1>4. ctx.weights = Total(Weights(n), ctx.fired)
  BY <1>1, <1>2, <1>3 DEF Total
<1>5. ASSUME NEW f, SoundFormula(f)
      PROVE  /\ Told(f, memo, TRUE) => Holds(f)
             /\ Told(f, memo, FALSE) => ~ Holds(f)
  BY <1>5 DEF Told, SoundFormula, Sound
<1>6. ASSUME NEW g \in 1 .. n, SoundFormula(Group[g].calc)
      PROVE  Holds(Group[g].calc) <=> g = n
  <2>1. n \in Nat /\ (g = n \/ g \in 1 .. n - 1) /\ (g \in 1 .. n - 1 => g # n)
    BY <1>1, GroupFacts
  <2>2. CASE g = n
    BY <1>1, <1>5, <1>6, <2>2
  <2>3. CASE g \in 1 .. n - 1
    <3>1. Told(Group[g].calc, memo, FALSE)
      BY <1>1, <2>3 DEF NoneBefore
    <3> QED
      BY <1>5, <1>6, <2>1, <2>3, <3>1
  <2> QED
    BY <2>1, <2>2, <2>3
<1>7. ASSUME NEW r \in Rules(n), Group[n].rules[r].datasrc = Now.tbl => SoundFormula(Group[n].rules[r].calc)
      PROVE  /\ r \in ctx.fired <=> Due(n, r)
             /\ Group[n].rules[r].datasrc = Now.tbl => (result[n][r] <=> Due(n, r))
  <2>1. CASE Group[n].rules[r].datasrc # Now.tbl
    BY <1>1, <2>1 DEF Due
  <2>2. CASE Group[n].rules[r].datasrc = Now.tbl
    <3>1. /\ r \in ctx.fired => Told(Group[n].rules[r].calc, memo, TRUE)
          /\ r \notin ctx.fired => Told(Group[n].rules[r].calc, memo, FALSE)
          /\ result[n][r] <=> r \in ctx.fired
      BY <1>1, <1>3, <2>2 DEF RulesBefore
    <3>2. r \in ctx.fired <=> Holds(Group[n].rules[r].calc)
      BY <1>5, <1>7, <2>2, <3>1
    <3> QED
      BY <2>2, <3>1, <3>2 DEF Due
  <2> QED
    BY <2>1, <2>2
<1>8. \A i \in {j \in Item : memo[j].set /\ Sound(j)} :
        Meant(i) = {memo[i].value} /\ {Rec(a) : a \in memo[i].related} = {history[k] : k \in Used(i)}
  BY DEF EngineInv, MemoInv, Fits, Exact, Sound
<1> QED
  BY <1>4, <1>6, <1>7, <1>8 DEF ReplyExact

\* Whatever is stored, asked and remembered before, and wherever the ring of a
\* table is, a reply of success has the first group that holds, the rules of it
\* that hold and their weights, and items that are right: said of the items
\* that have a value as their definition means it, and of the formulas that ask
\* for those (kr_engine_detect, kr_sdi_get_value, kr_ddi_get_value,
\* kr_hdi_get_value, kr_context_clean).
THEOREM ReplyIsExact == EngineSpec => []ReplyExact
<1>1. EngineInit => EngineInv
  BY EngineAssumption, EngineInitInv
<1>2. EngineInv /\ [EngineNext]_engineVars => EngineInv'
  BY EngineAssumption, EngineStep
<1>3. EngineInv => ReplyExact
  BY EngineAssumption, EngineInvReply
<1> QED
  BY <1>1, <1>2, <1>3, PTL DEF EngineSpec

=============================================================================
