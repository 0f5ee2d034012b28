------------------------- MODULE KrComponentProofs -------------------------
(***************************************************************************)
(* Proofs about the components that run by themselves: the event loop      *)
(* (KrEvent), the cache (KrCache), the loaders of definitions (KrLoad) and *)
(* the start of the engine (KrStartup), for any descriptors, delays,        *)
(* sizes, databases and bounds that satisfy the assumptions of KrParts.    *)
(***************************************************************************)
EXTENDS KrParts, FiniteSetTheorems, KrListProofs

-----------------------------------------------------------------------------
(***************************************************************************)
(* The event loop.                                                         *)
(***************************************************************************)

\* The loop is created for a number of descriptors.
LEMMA SetSize ==
  ASSUME EventConstants
  PROVE  \E setsize \in Nat : Fd = 0 .. setsize - 1
<1>1. IsFiniteSet(Fd) /\ Fd = 0 .. Cardinality(Fd) - 1
  BY DEF EventConstants
<1>2. Cardinality(Fd) \in Nat
  BY <1>1, FS_CardinalityType
<1> QED
  BY <1>1, <1>2

Time == [sec : Nat, ms : 0 .. SEC - 1]

Timer == [id : Int, when : Time]

Loop == [mask : [Fd -> SUBSET E!Kinds], proc : [Fd -> [E!Kinds -> Proc \cup {0}]],
         interest : [Fd -> SUBSET E!Kinds], maxfd : Int,
         timers : Seq(Timer), nextId : Int, stop : BOOLEAN]

\* What InterestExact says, of loop s.
Exact(s) ==
  /\ s.interest = s.mask
  /\ s.maxfd = Max({-1} \cup {fd \in Fd : s.mask[fd] # {}})
  /\ \A fd \in Fd : \A k \in s.mask[fd] : s.proc[fd][k] # 0

\* The descriptors with an event are below the size of the loop, so there is
\* a highest.
LEMMA HighestFd ==
  ASSUME EventConstants, NEW S \in SUBSET Fd
  PROVE  /\ Max({-1} \cup S) \in {-1} \cup S
         /\ \A fd \in {-1} \cup S : fd <= Max({-1} \cup S)
         /\ \A n \in {-1} \cup S : (\A fd \in {-1} \cup S : fd <= n) => Max({-1} \cup S) = n
<1>1. PICK setsize \in Nat : Fd = 0 .. setsize - 1
  BY SetSize
<1>2. PICK T : T = {-1} \cup S
  OBVIOUS
<1>3. T \in SUBSET Int /\ T # {} /\ \A fd \in T : fd <= setsize
  BY <1>1, <1>2
<1>4. Max(T) \in T /\ \A fd \in T : fd <= Max(T)
  BY <1>3, MaxOf
<1>5. ASSUME NEW n \in T, \A fd \in T : fd <= n
      PROVE  Max(T) = n
  BY <1>3, <1>5, MaxIs
<1> QED
  BY <1>2, <1>4, <1>5

\* What kr_event_file_create and kr_event_file_delete do to the fields of a
\* loop, one by one.
LEMMA FileCreateFields ==
  ASSUME NEW s \in Loop, NEW fd \in Fd, NEW m, NEW p, NEW r, r = E!FileCreate(s, fd, m, p)
  PROVE  /\ r.mask = [s.mask EXCEPT ![fd] = @ \cup m]
         /\ r.interest = [s.interest EXCEPT ![fd] = s.mask[fd] \cup m]
         /\ r.maxfd = IF fd > s.maxfd THEN fd ELSE s.maxfd
         /\ r.timers = s.timers /\ r.nextId = s.nextId /\ r.stop = s.stop
         /\ r = [mask |-> r.mask, proc |-> r.proc, interest |-> r.interest, maxfd |-> r.maxfd,
                 timers |-> r.timers, nextId |-> r.nextId, stop |-> r.stop]
<1>1. r.mask = [s.mask EXCEPT ![fd] = @ \cup m]
  BY DEF E!FileCreate, Loop
<1>2. r.interest = [s.interest EXCEPT ![fd] = s.mask[fd] \cup m]
  BY DEF E!FileCreate, Loop
<1>4. r.maxfd = IF fd > s.maxfd THEN fd ELSE s.maxfd
  BY DEF E!FileCreate, Loop
<1>5. r.timers = s.timers /\ r.nextId = s.nextId /\ r.stop = s.stop
  BY DEF E!FileCreate, Loop
<1>6. r = [mask |-> r.mask, proc |-> r.proc, interest |-> r.interest, maxfd |-> r.maxfd,
           timers |-> r.timers, nextId |-> r.nextId, stop |-> r.stop]
  BY DEF E!FileCreate, Loop
<1> QED
  BY <1>1, <1>2, <1>4, <1>5, <1>6

LEMMA FileCreateProc ==
  ASSUME NEW s \in Loop, NEW fd \in Fd, NEW m, NEW p, NEW q,
         q = [k \in E!Kinds |-> IF k \in m THEN p ELSE s.proc[fd][k]],
         NEW r, r = E!FileCreate(s, fd, m, p)
  PROVE  r.proc = [s.proc EXCEPT ![fd] = q]
BY DEF E!FileCreate, Loop

LEMMA FileDeleteFields ==
  ASSUME NEW s \in Loop, NEW fd \in Fd, NEW m, s.mask[fd] # {}, NEW r, r = E!FileDelete(s, fd, m)
  PROVE  /\ r.mask = [s.mask EXCEPT ![fd] = @ \ m]
         /\ r.interest = [s.interest EXCEPT ![fd] = s.mask[fd] \ m]
         /\ r.maxfd = IF fd = s.maxfd /\ s.mask[fd] \subseteq m THEN E!HighestBelow(s, fd) ELSE s.maxfd
         /\ r.timers = s.timers /\ r.nextId = s.nextId /\ r.stop = s.stop
         /\ r = [mask |-> r.mask, proc |-> r.proc, interest |-> r.interest, maxfd |-> r.maxfd,
                 timers |-> r.timers, nextId |-> r.nextId, stop |-> r.stop]
<1>1. r.mask = [s.mask EXCEPT ![fd] = @ \ m]
  BY DEF E!FileDelete, Loop
<1>2. r.interest = [s.interest EXCEPT ![fd] = s.mask[fd] \ m]
  BY DEF E!FileDelete, Loop
<1>4. r.maxfd = IF fd = s.maxfd /\ s.mask[fd] \subseteq m THEN E!HighestBelow(s, fd) ELSE s.maxfd
  BY DEF E!FileDelete, Loop
<1>5. r.timers = s.timers /\ r.nextId = s.nextId /\ r.stop = s.stop
  BY DEF E!FileDelete, Loop
<1>6. r = [mask |-> r.mask, proc |-> r.proc, interest |-> r.interest, maxfd |-> r.maxfd,
           timers |-> r.timers, nextId |-> r.nextId, stop |-> r.stop]
  BY DEF E!FileDelete, Loop
<1> QED
  BY <1>1, <1>2, <1>4, <1>5, <1>6

LEMMA FileDeleteProc ==
  ASSUME NEW s \in Loop, NEW fd \in Fd, NEW m, NEW q, s.mask[fd] # {},
         q = [k \in E!Kinds |-> IF k \in m THEN 0 ELSE s.proc[fd][k]],
         NEW r, r = E!FileDelete(s, fd, m)
  PROVE  r.proc = [s.proc EXCEPT ![fd] = q]
BY DEF E!FileDelete, Loop

\* kr_event_file_create keeps the loop in order.
LEMMA FileCreateExact ==
  ASSUME EventConstants, NEW s \in Loop, Exact(s), NEW fd \in Fd, NEW m \in E!Masks, NEW p \in Proc
  PROVE  E!FileCreate(s, fd, m, p) \in Loop /\ Exact(E!FileCreate(s, fd, m, p))
<1>r. PICK r : r = E!FileCreate(s, fd, m, p)
  OBVIOUS
<1>s. PICK S \in SUBSET Fd : S = {f \in Fd : s.mask[f] # {}}
  OBVIOUS
<1>t. PICK T \in SUBSET Fd : T = {f \in Fd : r.mask[f] # {}}
  OBVIOUS
<1>1. fd \in Int /\ s.maxfd \in Int /\ Fd \subseteq Int
  BY SetSize DEF Loop
<1>2. m \in SUBSET E!Kinds /\ m # {}
  BY DEF E!Masks
<1>4. PICK q : q = [k \in E!Kinds |-> IF k \in m THEN p ELSE s.proc[fd][k]]
  OBVIOUS
<1>5. /\ r.mask = [s.mask EXCEPT ![fd] = @ \cup m]
      /\ r.interest = [s.interest EXCEPT ![fd] = s.mask[fd] \cup m]
      /\ r.proc = [s.proc EXCEPT ![fd] = q]
      /\ r.maxfd = IF fd > s.maxfd THEN fd ELSE s.maxfd
      /\ r.timers = s.timers /\ r.nextId = s.nextId /\ r.stop = s.stop
      /\ r = [mask |-> r.mask, proc |-> r.proc, interest |-> r.interest, maxfd |-> r.maxfd,
              timers |-> r.timers, nextId |-> r.nextId, stop |-> r.stop]
  BY <1>4, <1>r, FileCreateFields, FileCreateProc
<1>6. /\ s.mask \in [Fd -> SUBSET E!Kinds] /\ s.interest \in [Fd -> SUBSET E!Kinds]
      /\ s.proc \in [Fd -> [E!Kinds -> Proc \cup {0}]]
      /\ s.timers \in Seq(Timer) /\ s.nextId \in Int /\ s.stop \in BOOLEAN
  BY DEF Loop
<1>7. /\ r.mask \in [Fd -> SUBSET E!Kinds] /\ r.interest \in [Fd -> SUBSET E!Kinds]
      /\ r.proc \in [Fd -> [E!Kinds -> Proc \cup {0}]]
  BY <1>2, <1>4, <1>5, <1>6
<1>8. r \in Loop
  <2>1. r.maxfd \in Int
    BY <1>1, <1>5
  <2> QED
    BY <1>5, <1>6, <1>7, <2>1 DEF Loop
<1>9. r.interest = r.mask
  BY <1>5, <1>6 DEF Exact
<1>10. T = S \cup {fd}
  BY <1>2, <1>5, <1>6, <1>s, <1>t
<1>11. r.maxfd = Max({-1} \cup T)
  <2>1. s.maxfd \in {-1} \cup S /\ \A f \in {-1} \cup S : f <= s.maxfd
    <3>1. s.maxfd = Max({-1} \cup S)
      BY <1>s DEF Exact
    <3> QED
      BY <3>1, HighestFd
  <2>2. r.maxfd \in {-1} \cup T /\ \A f \in {-1} \cup T : f <= r.maxfd
    <3>1. \A f \in {-1} \cup T : f \in {-1} \cup S \/ f = fd
      BY <1>10
    <3>2. {-1} \cup S \subseteq Int /\ {-1} \cup S \subseteq {-1} \cup T /\ fd \in {-1} \cup T
      BY <1>1, <1>10
    <3> QED
      BY <1>1, <1>5, <2>1, <3>1, <3>2
  <2> QED
    BY <2>2, HighestFd
<1>12. \A f \in Fd : \A k \in r.mask[f] : r.proc[f][k] # 0
  BY <1>2, <1>4, <1>5, <1>6 DEF Exact, EventConstants
<1> QED
  BY <1>8, <1>9, <1>11, <1>12, <1>r, <1>t DEF Exact

\* kr_event_file_delete too: the search for the highest descriptor finds it.
LEMMA FileDeleteExact ==
  ASSUME EventConstants, NEW s \in Loop, Exact(s), NEW fd \in Fd, NEW m \in E!Masks
  PROVE  E!FileDelete(s, fd, m) \in Loop /\ Exact(E!FileDelete(s, fd, m))
<1>r. PICK r : r = E!FileDelete(s, fd, m)
  OBVIOUS
<1>s. PICK S \in SUBSET Fd : S = {f \in Fd : s.mask[f] # {}}
  OBVIOUS
<1>t. PICK T \in SUBSET Fd : T = {f \in Fd : r.mask[f] # {}}
  OBVIOUS
<1>b. PICK below \in SUBSET Fd : below = {f \in Fd : f < fd /\ s.mask[f] # {}}
  OBVIOUS
<1>0. CASE s.mask[fd] = {}
  BY <1>0 DEF E!FileDelete
<1>a. CASE s.mask[fd] # {}
  <2>1. fd \in Int /\ s.maxfd \in Int /\ Fd \subseteq Int
    BY SetSize DEF Loop
  <2>2. m \in SUBSET E!Kinds /\ m # {}
    BY DEF E!Masks
  <2>a. PICK q : q = [k \in E!Kinds |-> IF k \in m THEN 0 ELSE s.proc[fd][k]]
    OBVIOUS
  <2>3. /\ r.mask = [s.mask EXCEPT ![fd] = @ \ m]
        /\ r.interest = [s.interest EXCEPT ![fd] = s.mask[fd] \ m]
        /\ r.proc = [s.proc EXCEPT ![fd] = q]
        /\ r.maxfd = IF fd = s.maxfd /\ s.mask[fd] \subseteq m THEN Max({-1} \cup below) ELSE s.maxfd
        /\ r.timers = s.timers /\ r.nextId = s.nextId /\ r.stop = s.stop
        /\ r = [mask |-> r.mask, proc |-> r.proc, interest |-> r.interest, maxfd |-> r.maxfd,
                timers |-> r.timers, nextId |-> r.nextId, stop |-> r.stop]
    <3>1. E!HighestBelow(s, fd) = Max({-1} \cup below)
      BY <1>b DEF E!HighestBelow, E!Max, Max
    <3> QED
      BY <1>a, <1>r, <2>a, <3>1, FileDeleteFields, FileDeleteProc
  <2>4. /\ s.mask \in [Fd -> SUBSET E!Kinds] /\ s.interest \in [Fd -> SUBSET E!Kinds]
        /\ s.proc \in [Fd -> [E!Kinds -> Proc \cup {0}]]
        /\ s.timers \in Seq(Timer) /\ s.nextId \in Int /\ s.stop \in BOOLEAN
    BY DEF Loop
  <2>5. /\ r.mask \in [Fd -> SUBSET E!Kinds] /\ r.interest \in [Fd -> SUBSET E!Kinds]
        /\ r.proc \in [Fd -> [E!Kinds -> Proc \cup {0}]]
    BY <2>2, <2>3, <2>4, <2>a
  <2>6. /\ Max({-1} \cup below) \in {-1} \cup below
        /\ \A f \in {-1} \cup below : f <= Max({-1} \cup below)
    BY HighestFd
  <2>7. r \in Loop
    <3>1. r.maxfd \in Int
      BY <2>1, <2>3, <2>6
    <3> QED
      BY <2>3, <2>4, <2>5, <3>1 DEF Loop
  <2>8. r.interest = r.mask
    BY <2>3, <2>4 DEF Exact
  <2>9. T = IF s.mask[fd] \subseteq m THEN S \ {fd} ELSE S
    BY <1>a, <1>s, <1>t, <2>3, <2>4
  <2>10. r.maxfd = Max({-1} \cup T)
    <3>1. s.maxfd \in {-1} \cup S /\ \A f \in {-1} \cup S : f <= s.maxfd
      <4>1. s.maxfd = Max({-1} \cup S)
        BY <1>s DEF Exact
      <4> QED
        BY <4>1, HighestFd
    <3>2. CASE fd = s.maxfd /\ s.mask[fd] \subseteq m
      <4>1. T = S \ {fd} /\ S \subseteq Int /\ \A f \in S : f <= fd
        BY <2>1, <2>9, <3>1, <3>2
      <4>2. \A f \in S : f # fd <=> f < fd
        BY <2>1, <4>1
      <4>3. below = T
        BY <1>b, <1>s, <4>1, <4>2
      <4> QED
        BY <2>3, <3>2, <4>3
    <3>3. CASE ~(fd = s.maxfd /\ s.mask[fd] \subseteq m)
      <4>1. s.maxfd \in {-1} \cup T /\ \A f \in {-1} \cup T : f <= s.maxfd
        BY <2>9, <3>1, <3>3
      <4> QED
        BY <2>3, <3>3, <4>1, HighestFd
    <3> QED
      BY <3>2, <3>3
  <2>11. \A f \in Fd : \A k \in r.mask[f] : r.proc[f][k] # 0
    BY <2>2, <2>3, <2>4, <2>a DEF Exact
  <2> QED
    BY <1>r, <1>t, <2>7, <2>8, <2>10, <2>11 DEF Exact
<1> QED
  BY <1>0, <1>a

\* kr_event_loop_create
LEMMA LoopCreateExact ==
  ASSUME EventConstants
  PROVE  E!LoopCreate \in Loop /\ Exact(E!LoopCreate)
<1>1. PICK s : s = E!LoopCreate
  OBVIOUS
<1>2. /\ s.mask = [fd \in Fd |-> {}] /\ s.interest = [fd \in Fd |-> {}] /\ s.maxfd = -1
      /\ s.proc = [fd \in Fd |-> [k \in E!Kinds |-> 0]]
  BY <1>1 DEF E!LoopCreate
<1>3. s \in Loop
  <2>1. /\ [fd \in Fd |-> {}] \in [Fd -> SUBSET E!Kinds]
        /\ [fd \in Fd |-> [k \in E!Kinds |-> 0]] \in [Fd -> [E!Kinds -> Proc \cup {0}]]
        /\ <<>> \in Seq(Timer)
    OBVIOUS
  <2> QED
    BY <1>1, <2>1 DEF E!LoopCreate, Loop
<1>4. s.maxfd = Max({-1} \cup {fd \in Fd : s.mask[fd] # {}})
  <2>1. {fd \in Fd : s.mask[fd] # {}} = {}
    BY <1>2
  <2>2. Max({-1} \cup {}) \in {-1} \cup {}
    BY HighestFd
  <2> QED
    BY <1>2, <2>1, <2>2
<1> QED
  BY <1>1, <1>2, <1>3, <1>4 DEF Exact

\* aeAddMillisecondsToNow carries milliseconds over to seconds.
LEMMA FromNowTime ==
  ASSUME EventConstants, NEW t \in Time, NEW d \in Nat
  PROVE  /\ E!FromNow(t, d) \in Time
         /\ \/ t.sec < E!FromNow(t, d).sec
            \/ t.sec = E!FromNow(t, d).sec /\ t.ms <= E!FromNow(t, d).ms
<1>1. SEC \in Nat \ {0} /\ t.sec \in Nat /\ t.ms \in 0 .. SEC - 1
  BY DEF EventConstants, Time
<1>2. d % SEC \in 0 .. SEC - 1 /\ d \div SEC \in Nat
  BY <1>1
<1>3. PICK r, q : r = d % SEC /\ q = d \div SEC
  OBVIOUS
<1> QED
  BY <1>1, <1>2, <1>3 DEF E!FromNow, Time

\* The two ways to compare times agree: by the milliseconds, and seconds first.
LEMMA MillisOrder ==
  ASSUME EventConstants, NEW s \in Time, NEW t \in Time
  PROVE  /\ E!Millis(s) \in Nat
         /\ E!Millis(s) <= E!Millis(t) <=> s.sec < t.sec \/ (s.sec = t.sec /\ s.ms <= t.ms)
<1>1. /\ SEC \in Nat \ {0} /\ s.sec \in Nat /\ s.ms \in 0 .. SEC - 1
      /\ t.sec \in Nat /\ t.ms \in 0 .. SEC - 1
  BY DEF EventConstants, Time
<1>2. ASSUME NEW x \in Nat, NEW y \in Nat, x < y
      PROVE  x * SEC \in Nat /\ y * SEC \in Nat /\ x * SEC + SEC <= y * SEC
  <2>1. PICK k \in Nat : y = x + 1 + k
    <3>1. y - x - 1 \in Nat /\ y = x + 1 + (y - x - 1)
      BY <1>2
    <3> QED
      BY <3>1
  <2>2. y * SEC = x * SEC + SEC + k * SEC
    BY <1>1, <2>1
  <2>3. k * SEC \in Nat /\ x * SEC \in Nat /\ y * SEC \in Nat
    BY <1>1
  <2> QED
    BY <1>1, <2>2, <2>3
<1>3. s.sec * SEC \in Nat /\ t.sec * SEC \in Nat
  BY <1>1
<1>4. E!Millis(s) = s.sec * SEC + s.ms /\ E!Millis(t) = t.sec * SEC + t.ms
  BY DEF E!Millis
<1>5. CASE s.sec < t.sec
  BY <1>1, <1>2, <1>3, <1>4, <1>5
<1>6. CASE t.sec < s.sec
  BY <1>1, <1>2, <1>3, <1>4, <1>6
<1>7. CASE s.sec = t.sec
  BY <1>1, <1>3, <1>4, <1>7
<1> QED
  BY <1>1, <1>5, <1>6, <1>7

\* kr_event_time_delete leaves a list of timers.
Remaining(ts, id) == E!RemoveFirstMatch(ts, LAMBDA te : te.id = id)

LEMMA TimeDeleteTimers ==
  ASSUME NEW ts \in Seq(Timer), NEW id
  PROVE  Remaining(ts, id) \in Seq(Timer)
<1> DEFINE I == {i \in 1 .. Len(ts) : ts[i].id = id}
<1>1. CASE I = {}
  <2>1. Remaining(ts, id) = ts
    BY <1>1 DEF Remaining, E!RemoveFirstMatch
  <2> QED
    BY <2>1
<1>2. CASE I # {}
  <2>1. Min(I) \in 1 .. Len(ts)
    <3>1. I \in SUBSET Nat
      OBVIOUS
    <3> HIDE DEF I
    <3>2. Min(I) \in I
      BY <1>2, <3>1, MinOf
    <3> QED
      BY <3>2 DEF I
  <2>2. Remaining(ts, id) = RemoveAt(ts, Min(I))
    BY <1>2 DEF Remaining, E!RemoveFirstMatch, E!SelectInSeq, E!RemoveAt, RemoveAt, E!Min, Min
  <2> HIDE DEF I
  <2>3. Removed(RemoveAt(ts, Min(I)), Timer, ts, Min(I))
    BY <2>1, RemoveAtPositions
  <2> QED
    BY <2>2, <2>3 DEF Removed
<1> QED
  BY <1>1, <1>2

\* kr_event_time_delete leaves the file events alone.
LEMMA TimeDeleteExact ==
  ASSUME NEW s \in Loop, Exact(s), NEW id, NEW r, r = E!TimeDelete(s, id)
  PROVE  r \in Loop /\ Exact(r)
<1>1. s.timers \in Seq(Timer)
  BY DEF Loop
<1>2. Remaining(s.timers, id) \in Seq(Timer)
  BY <1>1, TimeDeleteTimers
<1>3. r = [s EXCEPT !.timers = Remaining(@, id)]
  BY DEF E!TimeDelete, Remaining
<1> QED
  BY <1>2, <1>3 DEF Loop, Exact

\* Whatever a handler calls keeps the loop in order.
LEMMA AfterCallExact ==
  ASSUME EventConstants, NEW s \in Loop, Exact(s), clock \in Time, NEW own, NEW r \in E!AfterCall(s, own)
  PROVE  r \in Loop /\ Exact(r)
<1>0. s.timers \in Seq(Timer) /\ s.nextId \in Int /\ s.stop \in BOOLEAN
  BY DEF Loop
<1>1. CASE r = s
  BY <1>1
<1>2. CASE r = [s EXCEPT !.stop = TRUE]
  BY <1>2 DEF Loop, Exact
<1>3. ASSUME NEW fd \in Fd, NEW m \in E!Masks, NEW p \in Proc, r = E!FileCreate(s, fd, m, p)
      PROVE  r \in Loop /\ Exact(r)
  BY <1>3, FileCreateExact
<1>4. ASSUME NEW fd \in Fd, NEW m \in E!Masks, r = E!FileDelete(s, fd, m)
      PROVE  r \in Loop /\ Exact(r)
  BY <1>4, FileDeleteExact
<1>5. ASSUME NEW d \in Delay, r = E!TimeCreate(s, d)
      PROVE  r \in Loop /\ Exact(r)
  <2>1. E!FromNow(clock, d) \in Time
    BY FromNowTime DEF EventConstants
  <2>2. PICK te : te = [id |-> s.nextId, when |-> E!FromNow(clock, d)]
    OBVIOUS
  <2>3. te \in Timer
    BY <1>0, <2>1, <2>2 DEF Timer
  <2>4. <<te>> \o s.timers \in Seq(Timer)
    BY <1>0, <2>3
  <2>5. r = [s EXCEPT !.timers = <<te>> \o @, !.nextId = @ + 1]
    BY <1>5, <2>2 DEF E!TimeCreate
  <2>6. s.nextId + 1 \in Int
    BY <1>0
  <2> QED
    BY <2>4, <2>5, <2>6 DEF Loop, Exact
<1>6. ASSUME NEW id, r = E!TimeDelete(s, id)
      PROVE  r \in Loop /\ Exact(r)
  BY <1>6, TimeDeleteExact
<1> QED
  BY <1>1, <1>2, <1>3, <1>4, <1>5, <1>6 DEF E!AfterCall

\* The handler of a timer returns a delay, which puts the timer off.
LEMMA PutOffExact ==
  ASSUME EventConstants, NEW s \in Loop, Exact(s), NEW id, NEW t \in Time, NEW r,
         r = [s EXCEPT !.timers = [i \in DOMAIN @ |->
                IF @[i].id = id THEN [@[i] EXCEPT !.when = t] ELSE @[i]]]
  PROVE  r \in Loop /\ Exact(r)
<1>1. PICK ts : ts = [i \in DOMAIN s.timers |->
                        IF s.timers[i].id = id THEN [s.timers[i] EXCEPT !.when = t] ELSE s.timers[i]]
  OBVIOUS
<1>2. s.timers \in Seq(Timer)
  BY DEF Loop
<1>3. ts \in Seq(Timer)
  <2>1. Len(s.timers) \in Nat /\ DOMAIN s.timers = 1 .. Len(s.timers) /\ \A i \in 1 .. Len(s.timers) : s.timers[i] \in Timer
    BY <1>2
  <2>2. \A te \in Timer : [te EXCEPT !.when = t] \in Timer
    BY DEF Timer
  <2>3. \A i \in 1 .. Len(s.timers) : ts[i] \in Timer
    BY <1>1, <2>1, <2>2
  <2>4. ts = [i \in 1 .. Len(s.timers) |-> ts[i]]
    BY <1>1, <2>1
  <2> QED
    BY ONLY <2>1, <2>3, <2>4
<1>4. r = [s EXCEPT !.timers = ts]
  BY <1>1
<1> QED
  BY <1>3, <1>4 DEF Loop, Exact

\* aeSearchNearestTimer returns a timer of the list.
LEMMA NearestTimer ==
  ASSUME EventConstants, el \in Loop, el.timers # <<>>
  PROVE  E!Nearest.when \in Time
<1>1. PICK ts \in Seq(Timer) : ts = el.timers /\ ts # <<>>
  BY DEF Loop
<1>2. Len(ts) \in Nat /\ DOMAIN ts = 1 .. Len(ts) /\ 1 \in DOMAIN ts
  BY <1>1
<1>3. \A i \in DOMAIN ts : ts[i] \in Timer /\ ts[i].when \in Time /\ E!Millis(ts[i].when) \in Nat
  <2> TAKE i \in DOMAIN ts
  <2>1. ts[i] \in Timer
    BY <1>1, <1>2
  <2>2. ts[i].when \in Time
    BY <2>1 DEF Timer
  <2> QED
    BY <2>1, <2>2, MillisOrder
<1> DEFINE M == {E!Millis(ts[i].when) : i \in DOMAIN ts}
           I == {i \in DOMAIN ts : E!Millis(ts[i].when) = Min(M)}
<1>4. Min(M) \in M
  <2>1. M \in SUBSET Nat /\ M # {}
    BY <1>2, <1>3
  <2> HIDE DEF M
  <2> QED
    BY <2>1, MinOf
<1>5. Min(I) \in I
  <2>1. I \in SUBSET Nat /\ I # {}
    <3>1. PICK i \in DOMAIN ts : Min(M) = E!Millis(ts[i].when)
      BY <1>4
    <3>2. i \in I
      BY <3>1
    <3>3. I \subseteq DOMAIN ts /\ DOMAIN ts \subseteq Nat
      BY <1>2
    <3> HIDE DEF I
    <3> QED
      BY <3>2, <3>3
  <2> HIDE DEF I
  <2> QED
    BY <2>1, MinOf
<1>6. E!Nearest = ts[Min(I)]
  BY <1>1 DEF E!Nearest, E!Min, Min
<1>7. Min(I) \in DOMAIN ts
  BY <1>5
<1> HIDE DEF I
<1> QED
  BY <1>3, <1>6, <1>7

\* The wait for a timer that is not overdue ends when it is due; the wait for
\* an overdue one is shorter than a second.
LEMMA PollTimeoutBound ==
  ASSUME EventConstants, clock \in Time, NEW when \in Time
  PROVE  LET due  == E!Millis(when) - E!Millis(clock)
             left == E!Millis(E!PollTimeout(when))
         IN  /\ left \in Nat
             /\ due \in Int
             /\ due >= 0 => left = due
             /\ due < 0 => left < SEC
<1>1. /\ SEC \in Nat \ {0} /\ when.sec \in Nat /\ when.ms \in 0 .. SEC - 1
      /\ clock.sec \in Nat /\ clock.ms \in 0 .. SEC - 1
  BY DEF EventConstants, Time
<1> DEFINE borrow == when.ms < clock.ms
           sec == when.sec - clock.sec - (IF borrow THEN 1 ELSE 0)
           ms  == IF borrow THEN when.ms + SEC - clock.ms ELSE when.ms - clock.ms
           due == E!Millis(when) - E!Millis(clock)
<1>2. sec \in Int /\ ms \in 0 .. SEC - 1
  BY <1>1
<1>3. due = sec * SEC + ms
  <2>1. due = (when.sec * SEC + when.ms) - (clock.sec * SEC + clock.ms)
    BY DEF E!Millis
  <2>2. CASE borrow
    <3>1. sec * SEC = when.sec * SEC - clock.sec * SEC - SEC
      BY <1>1, <2>2
    <3>2. when.sec * SEC \in Int /\ clock.sec * SEC \in Int
      BY <1>1
    <3> QED
      BY <1>1, <2>1, <2>2, <3>1, <3>2
  <2>3. CASE ~borrow
    <3>1. sec * SEC = when.sec * SEC - clock.sec * SEC
      BY <1>1, <2>3
    <3>2. when.sec * SEC \in Int /\ clock.sec * SEC \in Int
      BY <1>1
    <3> QED
      BY <1>1, <2>1, <2>3, <3>1, <3>2
  <2> QED
    BY <2>2, <2>3
<1>4. E!PollTimeout(when) = [sec |-> IF sec >= 0 THEN sec ELSE 0, ms |-> ms]
  <2>1. ASSUME NEW n \in Int
        PROVE  E!Max({n, 0}) = IF n >= 0 THEN n ELSE 0
    <3>1. E!Max({n, 0}) = Max({n, 0})
      BY DEF E!Max, Max
    <3>2. CASE n >= 0
      <4>1. \A m \in {n, 0} : m <= n
        BY <2>1, <3>2
      <4> QED
        BY <3>1, <3>2, <4>1, MaxIs
    <3>3. CASE ~(n >= 0)
      <4>1. \A m \in {n, 0} : m <= 0
        BY <2>1, <3>3
      <4> QED
        BY <3>1, <3>3, <4>1, MaxIs
    <3> QED
      BY <3>2, <3>3
  <2>2. E!PollTimeout(when) = [sec |-> E!Max({sec, 0}), ms |-> E!Max({ms, 0})]
    BY DEF E!PollTimeout
  <2> HIDE DEF sec, ms
  <2> QED
    BY <1>2, <2>1, <2>2
<1> HIDE DEF due, sec, ms
<1>5. E!Millis(E!PollTimeout(when)) = (IF sec >= 0 THEN sec ELSE 0) * SEC + ms
  BY <1>4 DEF E!Millis
<1>6. CASE sec >= 0
  <2>1. sec * SEC \in Nat
    BY <1>1, <1>2, <1>6
  <2> QED
    BY <1>1, <1>2, <1>3, <1>5, <1>6, <2>1 DEF due
<1>7. CASE sec < 0
  <2>1. PICK k \in Nat : sec = -1 - k
    <3>1. -1 - sec \in Nat /\ sec = -1 - (-1 - sec)
      BY <1>2, <1>7
    <3> QED
      BY <3>1
  <2>2. sec * SEC = -SEC - k * SEC /\ k * SEC \in Nat
    BY <1>1, <2>1
  <2>3. due \in Int /\ due < 0
    BY <1>1, <1>2, <1>3, <2>2
  <2>4. E!Millis(E!PollTimeout(when)) = ms
    BY <1>1, <1>2, <1>5, <1>7
  <2> QED
    BY <1>1, <1>2, <2>3, <2>4 DEF due
<1> QED
  BY <1>2, <1>6, <1>7

\* A pass over the timers: the timers behind the cursor lie after its
\* beginning, but for those it does not serve; at the end, all do.
PassInv ==
  /\ E!Millis(passAt) <= E!Millis(clock)
  /\ cursor \in 0 .. Len(el.timers)
  /\ \A i \in DOMAIN el.timers :
       (cursor = 0 \/ i < cursor) /\ el.timers[i].id <= maxId
          => E!Millis(el.timers[i].when) > E!Millis(passAt)

\* The inductive invariant of the event loop.
EventInv ==
  /\ el \in Loop /\ Exact(el)
  /\ clock \in Time /\ passAt \in Time /\ maxId \in Int
  /\ E!SleepsBounded
  /\ pc = "time" => PassInv

LEMMA EventInitInv ==
  ASSUME EventConstants, E!EventInit
  PROVE  EventInv
<1>1. el \in Loop /\ Exact(el)
  BY LoopCreateExact DEF E!EventInit
<1>2. clock \in Time /\ passAt \in Time /\ maxId \in Int /\ pc # "time"
  BY DEF E!EventInit, E!NoTimer, EventConstants, Time
<1>3. E!SleepsBounded
  <2>1. PICK Z : Z = {0}
    OBVIOUS
  <2>2. Max(Z) = 0
    BY <2>1, MaxIs
  <2>3. slept.due = 0 /\ slept.timeout = 0 /\ {slept.due, 0} = Z
    BY <2>1 DEF E!EventInit
  <2>4. E!Max(Z) = 0
    BY <2>2 DEF E!Max, Max
  <2> QED
    BY <2>3, <2>4 DEF E!SleepsBounded
<1> QED
  BY <1>1, <1>2, <1>3 DEF EventInv

\* A tick of time does not go back.
LEMMA TickTime ==
  ASSUME EventConstants, clock \in Time, NEW d \in Nat, E!Tick(d)
  PROVE  clock' \in Time /\ E!Millis(clock) <= E!Millis(clock')
<1>1. clock' = E!FromNow(clock, d)
  BY DEF E!Tick
<1>2. PICK t \in Time : t = clock'
  BY <1>1, FromNowTime
<1>3. clock.sec < t.sec \/ (clock.sec = t.sec /\ clock.ms <= t.ms)
  BY <1>1, <1>2, FromNowTime
<1>4. E!Millis(clock) <= E!Millis(t)
  BY <1>3, MillisOrder
<1> QED
  BY <1>2, <1>4

\* The handlers of file events leave everything but the loop and the time.
LEMMA HandlerInv ==
  ASSUME EventConstants, EventInv, pc' # "time", UNCHANGED <<maxId, slept, passAt>>,
         \/ UNCHANGED <<el, clock>>
         \/ el' \in E!AfterCall(el, E!NoTimer) /\ (UNCHANGED clock \/ \E d \in {0, 1} : E!Tick(d))
  PROVE  EventInv'
<1>1. el' \in Loop /\ Exact(el')
  BY AfterCallExact DEF EventInv
<1>2. clock' \in Time
  BY TickTime DEF EventInv
<1>3. passAt' \in Time /\ maxId' \in Int
  BY DEF EventInv
<1>4. E!SleepsBounded'
  BY DEF EventInv, E!SleepsBounded
<1>5. Exact(el)'
  BY <1>1 DEF Exact
<1> QED
  BY <1>1, <1>2, <1>3, <1>4, <1>5 DEF EventInv

\* The wait of kr_event_process.
LEMMA PollInv ==
  ASSUME EventConstants, EventInv, E!Poll
  PROVE  EventInv'
<1>0. el' = el /\ maxId' = maxId /\ passAt' = passAt /\ pc' = "file"
  BY DEF E!Poll
<1>1. clock' \in Time /\ E!SleepsBounded'
  <2>1. CASE UNCHANGED <<clock, slept>>
    BY <2>1 DEF EventInv, E!SleepsBounded
  <2>2. CASE /\ el.timers # <<>>
             /\ slept' = [due |-> E!Millis(E!Nearest.when) - E!Millis(clock),
                          timeout |-> E!Millis(E!PollTimeout(E!Nearest.when))]
             /\ E!Tick(E!Millis(E!PollTimeout(E!Nearest.when)))
    <3>1. clock \in Time /\ el \in Loop
      BY DEF EventInv
    <3>2. PICK when \in Time : when = E!Nearest.when
      BY <2>2, <3>1, NearestTimer
    <3>3. PICK due, left : due = E!Millis(when) - E!Millis(clock) /\ left = E!Millis(E!PollTimeout(when))
      OBVIOUS
    <3>4. left \in Nat /\ due \in Int /\ (due >= 0 => left = due) /\ (due < 0 => left < SEC)
      BY <3>1, <3>3, PollTimeoutBound
    <3>5. slept'.due = due /\ slept'.timeout = left /\ E!Tick(left)
      BY <2>2, <3>2, <3>3
    <3>6. clock' \in Time
      BY <3>1, <3>4, <3>5, TickTime
    <3>7. E!SleepsBounded'
      <4>1. CASE due < 0
        BY <3>4, <3>5, <4>1 DEF E!SleepsBounded
      <4>2. CASE due >= 0
        <5>1. PICK D : D = {due, 0}
          OBVIOUS
        <5>2. Max(D) = due
          <6>1. D \in SUBSET Int /\ due \in D /\ \A x \in D : x <= due
            BY <3>4, <4>2, <5>1
          <6> QED
            BY <6>1, MaxIs
        <5>3. E!Max(D) = Max(D)
          BY DEF E!Max, Max
        <5> QED
          BY <3>4, <3>5, <4>2, <5>1, <5>2, <5>3 DEF E!SleepsBounded
      <4> QED
        BY <3>4, <4>1, <4>2
    <3> QED
      BY <3>6, <3>7
  <2> QED
    BY <2>1, <2>2 DEF E!Poll
<1>2. Exact(el)'
  BY <1>0 DEF EventInv, Exact
<1> QED
  BY <1>0, <1>1, <1>2 DEF EventInv

\* processTimeEvents begins a pass.
LEMMA BeginTimersInv ==
  ASSUME EventConstants, EventInv, E!BeginTimers
  PROVE  EventInv'
<1>0. el' = el /\ clock' = clock /\ slept' = slept /\ passAt' = clock /\ maxId' = el.nextId - 1 /\ cursor' = E!First(el)
  BY DEF E!BeginTimers
<1>1. el.timers \in Seq(Timer) /\ el.nextId \in Int /\ clock \in Time
  BY DEF EventInv, Loop
<1>2. E!Millis(clock) \in Nat
  BY <1>1, MillisOrder
<1>3. Len(el.timers) \in Nat /\ DOMAIN el.timers = 1 .. Len(el.timers) /\ (el.timers = <<>> <=> Len(el.timers) = 0)
  BY <1>1
<1>4. PassInv'
  BY <1>0, <1>2, <1>3 DEF PassInv, E!First
<1>5. Exact(el)' /\ E!SleepsBounded'
  BY <1>0 DEF EventInv, Exact, E!SleepsBounded
<1> QED
  BY <1>0, <1>1, <1>4, <1>5 DEF EventInv

\* A timer that is passed over is a new one, or is not due now and was not
\* when the pass began.
LEMMA PassTimerInv ==
  ASSUME EventConstants, EventInv, E!PassTimer
  PROVE  EventInv'
<1>0. /\ el' = el /\ clock' = clock /\ slept' = slept /\ passAt' = passAt /\ maxId' = maxId
      /\ pc = "time" /\ cursor # 0
      /\ cursor' = IF cursor < Len(el.timers) THEN cursor + 1 ELSE 0
  BY DEF E!PassTimer
<1>1. el.timers \in Seq(Timer) /\ clock \in Time /\ passAt \in Time /\ maxId \in Int /\ PassInv
  BY <1>0 DEF EventInv, Loop
<1>2. Len(el.timers) \in Nat /\ DOMAIN el.timers = 1 .. Len(el.timers) /\ cursor \in 1 .. Len(el.timers)
  BY <1>0, <1>1 DEF PassInv
<1>3. PICK te \in Timer : te = el.timers[cursor]
  BY <1>1, <1>2
<1>4. te.when \in Time /\ te.id \in Int
  BY <1>3 DEF Timer
<1>5. E!Millis(te.when) \in Nat /\ E!Millis(passAt) \in Nat /\ E!Millis(clock) \in Nat
  BY <1>1, <1>4, MillisOrder
<1>6. te.id <= maxId => E!Millis(te.when) > E!Millis(passAt)
  <2>1. SUFFICES ASSUME te.id <= maxId PROVE E!Millis(te.when) > E!Millis(passAt)
    OBVIOUS
  <2>2. ~E!Due(te)
    BY <1>3, <2>1 DEF E!PassTimer, E!Fires
  <2>3. ~(te.when.sec < clock.sec \/ (te.when.sec = clock.sec /\ te.when.ms <= clock.ms))
    BY <1>1, <1>4, <2>2 DEF E!Due, Time, EventConstants
  <2>4. ~(E!Millis(te.when) <= E!Millis(clock))
    BY <1>1, <1>4, <2>3, MillisOrder
  <2> QED
    BY <1>1, <1>5, <2>4 DEF PassInv
<1>7. PassInv'
  <2>1. cursor' \in 0 .. Len(el.timers)
    BY <1>0, <1>2
  <2>2. \A i \in DOMAIN el.timers : cursor' = 0 \/ i < cursor' => i < cursor \/ i = cursor
    BY <1>0, <1>2
  <2>3. \A i \in DOMAIN el.timers :
          (cursor' = 0 \/ i < cursor') /\ el.timers[i].id <= maxId
             => E!Millis(el.timers[i].when) > E!Millis(passAt)
    BY <1>1, <1>3, <1>6, <2>2 DEF PassInv
  <2> QED
    BY <1>0, <1>1, <2>1, <2>3 DEF PassInv
<1>8. Exact(el)' /\ E!SleepsBounded'
  BY <1>0 DEF EventInv, Exact, E!SleepsBounded
<1> QED
  BY <1>0, <1>1, <1>7, <1>8 DEF EventInv

\* A timer that fires: the pass starts again at the head of what is left.
LEMMA FireTimerInv ==
  ASSUME EventConstants, EventInv, E!FireTimer
  PROVE  EventInv'
<1>0. /\ slept' = slept /\ passAt' = passAt /\ maxId' = maxId /\ pc = "time"
      /\ cursor' = E!First(el')
  BY DEF E!FireTimer
<1>1. el \in Loop /\ Exact(el) /\ clock \in Time /\ passAt \in Time /\ maxId \in Int /\ PassInv
  BY <1>0 DEF EventInv
<1>2. clock' \in Time /\ E!Millis(clock) <= E!Millis(clock')
  <2>1. PICK d \in {0, 1} : E!Tick(d)
    BY DEF E!FireTimer
  <2> QED
    BY <1>1, <2>1, TickTime
<1>3. el' \in Loop /\ Exact(el')
  <2>1. PICK id, s :
          /\ s \in E!AfterCall(el, id)
          /\ \/ el' = E!TimeDelete(s, id)
             \/ \E again \in Delay :
                  el' = [s EXCEPT !.timers = [i \in DOMAIN @ |->
                           IF @[i].id = id THEN [@[i] EXCEPT !.when = E!FromNow(clock', again)] ELSE @[i]]]
    BY DEF E!FireTimer
  <2>2. s \in Loop /\ Exact(s)
    BY <1>1, <2>1, AfterCallExact
  <2>3. CASE el' = E!TimeDelete(s, id)
    BY <2>2, <2>3, TimeDeleteExact
  <2>4. ASSUME NEW again \in Delay,
               el' = [s EXCEPT !.timers = [i \in DOMAIN @ |->
                        IF @[i].id = id THEN [@[i] EXCEPT !.when = E!FromNow(clock', again)] ELSE @[i]]]
        PROVE  el' \in Loop /\ Exact(el')
    <3>1. PICK c \in Time : c = clock'
      BY <1>2
    <3>2. PICK t \in Time : t = E!FromNow(c, again)
      BY FromNowTime DEF EventConstants
    <3>3. el' = [s EXCEPT !.timers = [i \in DOMAIN @ |->
                   IF @[i].id = id THEN [@[i] EXCEPT !.when = t] ELSE @[i]]]
      BY <2>4, <3>1, <3>2
    <3> QED
      BY <2>2, <3>3, PutOffExact
  <2> QED
    BY <2>1, <2>3, <2>4
<1>4. PassInv'
  <2>1. el'.timers \in Seq(Timer)
    BY <1>3 DEF Loop
  <2>2. Len(el'.timers) \in Nat /\ DOMAIN el'.timers = 1 .. Len(el'.timers) /\ (el'.timers = <<>> <=> Len(el'.timers) = 0)
    BY <2>1
  <2>3. E!Millis(passAt)' <= E!Millis(clock)'
    <3>1. PICK c \in Time : c = clock'
      BY <1>2
    <3>2. E!Millis(passAt) \in Nat /\ E!Millis(clock) \in Nat /\ E!Millis(c) \in Nat
      BY <1>1, MillisOrder
    <3>3. E!Millis(passAt) <= E!Millis(clock) /\ E!Millis(clock) <= E!Millis(c)
      BY <1>1, <1>2, <3>1 DEF PassInv
    <3>4. E!Millis(passAt) <= E!Millis(c)
      BY <3>2, <3>3
    <3> QED
      BY <1>0, <3>1, <3>4
  <2>4. cursor' \in 0 .. Len(el'.timers)
    BY <1>0, <2>2 DEF E!First
  <2>5. \A i \in DOMAIN el'.timers : ~(cursor' = 0 \/ i < cursor')
    BY <1>0, <2>2 DEF E!First
  <2> QED
    BY <2>3, <2>4, <2>5 DEF PassInv
<1>5. E!SleepsBounded'
  BY <1>0 DEF EventInv, E!SleepsBounded
<1>6. Exact(el)'
  BY <1>3 DEF Exact
<1> QED
  BY <1>0, <1>1, <1>2, <1>3, <1>4, <1>5, <1>6 DEF EventInv

\* Every step of the event loop keeps EventInv.
LEMMA EventStepInv ==
  ASSUME EventConstants, EventInv, [E!EventNext]_(E!eventVars)
  PROVE  EventInv'
<1>2. CASE E!SetUp
  BY <1>2, HandlerInv DEF E!SetUp
<1>3. CASE E!Poll
  BY <1>3, PollInv
<1>4. CASE E!ReadEvent
  <2>1. pc' # "time" /\ UNCHANGED <<maxId, slept, passAt>>
    BY <1>4 DEF E!ReadEvent
  <2>2. \/ UNCHANGED <<el, clock>>
        \/ el' \in E!AfterCall(el, E!NoTimer) /\ \E d \in {0, 1} : E!Tick(d)
    BY <1>4 DEF E!ReadEvent
  <2> QED
    BY <2>1, <2>2, HandlerInv
<1>5. CASE E!WriteEvent
  <2>1. pc' # "time" /\ UNCHANGED <<maxId, slept, passAt>>
    BY <1>5 DEF E!WriteEvent
  <2>2. \/ UNCHANGED <<el, clock>>
        \/ el' \in E!AfterCall(el, E!NoTimer) /\ \E d \in {0, 1} : E!Tick(d)
    BY <1>5 DEF E!WriteEvent
  <2> QED
    BY <2>1, <2>2, HandlerInv
<1>6. CASE E!BeginTimers
  BY <1>6, BeginTimersInv
<1>7. CASE E!PassTimer
  BY <1>7, PassTimerInv
<1>8. CASE E!FireTimer
  BY <1>8, FireTimerInv
<1>9. CASE E!EndTurn
  <2>1. pc' # "time" /\ UNCHANGED <<el, clock, maxId, slept, passAt>>
    BY <1>9 DEF E!EndTurn
  <2> QED
    BY <2>1, HandlerInv
<1>10. CASE UNCHANGED E!eventVars
  <2>1. UNCHANGED <<el, clock, pc, cursor, maxId, slept, passAt>>
    BY <1>10 DEF E!eventVars
  <2> QED
    BY <2>1 DEF EventInv, PassInv, Exact, E!SleepsBounded, E!Millis
<1> QED
  BY <1>2, <1>3, <1>4, <1>5, <1>6, <1>7, <1>8, <1>9, <1>10 DEF E!EventNext

-----------------------------------------------------------------------------
(***************************************************************************)
(* The cache.                                                              *)
(***************************************************************************)

Node == [id : 1 .. MaxNode, key : CacheKey]

\* List l and hash table h hold the same nodes, each key and each node once.
Chained(l, h) ==
  /\ l \in Seq(Node)
  /\ h \in [CacheKey -> 0 .. MaxNode]
  /\ \A i, j \in 1 .. Len(l) : l[i].key = l[j].key => i = j
  /\ \A i, j \in 1 .. Len(l) : l[i].id = l[j].id => i = j
  /\ \A i \in 1 .. Len(l) : h[l[i].key] = l[i].id
  /\ \A k \in CacheKey : h[k] # 0 => \E i \in 1 .. Len(l) : l[i].key = k

LEMMA NodesOf ==
  ASSUME NEW l, NEW h, Chained(l, h)
  PROVE  /\ Len(l) \in Nat /\ DOMAIN l = 1 .. Len(l)
         /\ \A i \in 1 .. Len(l) : /\ l[i] \in Node /\ l[i].id \in 1 .. MaxNode /\ l[i].key \in CacheKey
                                   /\ l[i] = [id |-> l[i].id, key |-> l[i].key]
<1>1. l \in Seq(Node)
  BY DEF Chained
<1>2. Len(l) \in Nat /\ DOMAIN l = 1 .. Len(l) /\ \A i \in 1 .. Len(l) : l[i] \in Node
  BY <1>1
<1>3. \A n \in Node : n.id \in 1 .. MaxNode /\ n.key \in CacheKey /\ n = [id |-> n.id, key |-> n.key]
  BY DEF Node
<1> QED
  BY <1>2, <1>3

\* kr_hashtable_size of the hash table is the length of the list.
LEMMA SizeIsLength ==
  ASSUME NEW l, NEW h, Chained(l, h)
  PROVE  X!Size(h) = Len(l)
<1>1. Len(l) \in Nat /\ \A i \in 1 .. Len(l) : l[i].id \in 1 .. MaxNode /\ l[i].key \in CacheKey
  BY NodesOf
<1>2. PICK S : S = {k \in CacheKey : h[k] # 0}
  OBVIOUS
<1>3. PICK f : f = [i \in 1 .. Len(l) |-> l[i].key]
  OBVIOUS
<1>4. \A i \in 1 .. Len(l) : l[i].key \in S
  BY <1>1, <1>2 DEF Chained
<1>5. \A k \in S : \E i \in 1 .. Len(l) : l[i].key = k
  BY <1>2 DEF Chained
<1>6. f \in [1 .. Len(l) -> S]
  BY <1>3, <1>4
<1>7. f \in Injection(1 .. Len(l), S)
  BY <1>3, <1>6 DEF Injection, IsInjective, Chained
<1>8. f \in Surjection(1 .. Len(l), S)
  BY <1>3, <1>5, <1>6 DEF Surjection
<1>9. Cardinality(S) = Len(l)
  BY <1>1, <1>7, <1>8, FS_CountingElements DEF ExistsBijection, Bijection
<1> QED
  BY <1>2, <1>9 DEF X!Size, X!Cardinality, Cardinality, X!IsFiniteSet, IsFiniteSet

\* kr_cache_evict_n_oldest leaves the front of the list, and the keys of it.
LEMMA EvictChained ==
  ASSUME CacheConstants, NEW l, NEW h, Chained(l, h), NEW n \in Nat, NEW e, e = X!EvictNOldest(l, h, n)
  PROVE  /\ Chained(e.list, e.hash)
         /\ Len(e.list) = IF n <= Len(l) THEN Len(l) - n ELSE 0
         /\ \A i \in 1 .. Len(e.list) : e.list[i] = l[i]
         /\ \A k \in CacheKey : e.hash[k] \in {0, h[k]}
<1>1. /\ Len(l) \in Nat /\ DOMAIN l = 1 .. Len(l)
      /\ \A i \in 1 .. Len(l) : l[i] \in Node /\ l[i].id \in 1 .. MaxNode /\ l[i].key \in CacheKey
  BY NodesOf
<1>2. PICK gone \in Nat : gone = X!Min({n, Len(l)}) /\ gone = (IF n <= Len(l) THEN n ELSE Len(l))
  <2>1. PICK T : T = {n, Len(l)}
    OBVIOUS
  <2>2. Min(T) \in T /\ \A m \in T : Min(T) <= m
    BY <1>1, <2>1, MinOf
  <2>3. X!Min(T) = Min(T)
    BY DEF X!Min, Min
  <2>4. Min(T) \in Nat /\ Min(T) = (IF n <= Len(l) THEN n ELSE Len(l))
    BY <1>1, <2>1, <2>2
  <2> QED
    BY <2>1, <2>3, <2>4
<1>3. PICK m \in Nat : m = Len(l) - gone /\ m <= Len(l)
  BY <1>1, <1>2
<1>4. PICK dead : dead = SubSeq(l, m + 1, Len(l))
  OBVIOUS
<1>5. PICK left : left = SubSeq(l, 1, m)
  OBVIOUS
<1>6. e.list = left /\ e.hash = [k \in CacheKey |-> IF \E i \in DOMAIN dead : dead[i].key = k THEN 0 ELSE h[k]]
  <2>1. Len(l) - gone + 1 = m + 1
    BY <1>3
  <2> QED
    BY <1>2, <1>3, <1>4, <1>5, <2>1 DEF X!EvictNOldest
<1>7. left \in Seq(Node) /\ Len(left) = m /\ \A i \in 1 .. m : left[i] = l[i]
  <2>1. \A i \in 1 .. m : l[i] \in Node
    BY <1>1, <1>3
  <2>2. /\ SubSeq(l, 1, m) \in Seq(Node) /\ Len(SubSeq(l, 1, m)) = (IF 1 <= m THEN m - 1 + 1 ELSE 0)
        /\ \A i \in 1 .. m - 1 + 1 : SubSeq(l, 1, m)[i] = l[1 + i - 1]
    BY <2>1, SubSeqProperties
  <2>3. m - 1 + 1 = m /\ \A i \in 1 .. m : 1 + i - 1 = i
    OBVIOUS
  <2> QED
    BY <1>5, <2>2, <2>3
<1>8. dead \in Seq(Node) /\ Len(dead) = Len(l) - m /\ \A i \in 1 .. Len(l) - m : dead[i] = l[m + i]
  <2>1. \A i \in m + 1 .. Len(l) : l[i] \in Node
    BY <1>1, <1>3
  <2>2. /\ SubSeq(l, m + 1, Len(l)) \in Seq(Node)
        /\ Len(SubSeq(l, m + 1, Len(l))) = (IF m + 1 <= Len(l) THEN Len(l) - (m + 1) + 1 ELSE 0)
        /\ \A i \in 1 .. Len(l) - (m + 1) + 1 : SubSeq(l, m + 1, Len(l))[i] = l[(m + 1) + i - 1]
    BY <1>1, <2>1, SubSeqProperties
  <2>3. Len(l) - (m + 1) + 1 = Len(l) - m /\ \A i \in 1 .. Len(l) - m : (m + 1) + i - 1 = m + i
    BY <1>1
  <2> QED
    BY <1>1, <1>3, <1>4, <2>2, <2>3
<1>9. \A k : (\E i \in DOMAIN dead : dead[i].key = k) <=> \E i \in 1 .. Len(l) : i > m /\ l[i].key = k
  <2>1. DOMAIN dead = 1 .. Len(l) - m
    BY <1>8
  <2>2. \A i \in 1 .. Len(l) : i > m => i - m \in DOMAIN dead /\ dead[i - m] = l[i]
    <3>1. \A i \in 1 .. Len(l) : i > m => i - m \in 1 .. Len(l) - m /\ m + (i - m) = i
      BY <1>1
    <3> QED
      BY <1>8, <2>1, <3>1
  <2>3. \A i \in DOMAIN dead : m + i \in 1 .. Len(l) /\ m + i > m /\ dead[i] = l[m + i]
    <3>1. \A i \in 1 .. Len(l) - m : m + i \in 1 .. Len(l) /\ m + i > m
      BY <1>1, <1>3
    <3> QED
      BY <1>8, <2>1, <3>1
  <2> QED
    BY <2>2, <2>3
<1>10. \A k \in CacheKey : e.hash[k] = IF \E i \in 1 .. Len(l) : i > m /\ l[i].key = k THEN 0 ELSE h[k]
  BY <1>6, <1>9
<1>11. e.hash \in [CacheKey -> 0 .. MaxNode]
  <2>1. \A k \in CacheKey : 0 \in 0 .. MaxNode /\ h[k] \in 0 .. MaxNode
    BY DEF Chained, CacheConstants
  <2> QED
    BY <1>6, <2>1
<1>12. \A i \in 1 .. m : i \in 1 .. Len(l)
  BY <1>1, <1>3
<1>13. \A i \in 1 .. m : e.hash[left[i].key] = left[i].id
  <2> TAKE i \in 1 .. m
  <2>1. ~\E j \in 1 .. Len(l) : j > m /\ l[j].key = l[i].key
    BY <1>12 DEF Chained
  <2> QED
    BY <1>1, <1>7, <1>10, <1>12, <2>1, SMTT(40) DEF Chained
<1>14. \A k \in CacheKey : e.hash[k] # 0 => \E i \in 1 .. m : left[i].key = k
  <2> TAKE k \in CacheKey
  <2> HAVE e.hash[k] # 0
  <2>1. h[k] # 0 /\ ~\E i \in 1 .. Len(l) : i > m /\ l[i].key = k
    BY <1>10
  <2>2. PICK i \in 1 .. Len(l) : l[i].key = k
    BY <2>1 DEF Chained
  <2>3. i \in 1 .. m
    BY <1>1, <2>1, <2>2
  <2> QED
    BY <1>7, <2>2, <2>3
<1>15. \A i, j \in 1 .. m : (left[i].key = left[j].key => i = j) /\ (left[i].id = left[j].id => i = j)
  BY <1>7, <1>12 DEF Chained
<1>16. Chained(left, e.hash)
  BY <1>7, <1>11, <1>13, <1>14, <1>15 DEF Chained
<1>17. m = IF n <= Len(l) THEN Len(l) - n ELSE 0
  BY <1>1, <1>2, <1>3
<1> QED
  BY <1>6, <1>7, <1>10, <1>16, <1>17

\* A node put before list l: kr_list_add_head.
LEMMA PushPositions ==
  ASSUME NEW S, NEW l \in Seq(S), NEW n \in S, NEW r, r = <<n>> \o l
  PROVE  /\ r \in Seq(S) /\ Len(r) = Len(l) + 1
         /\ r[1] = n /\ \A i \in 2 .. Len(l) + 1 : r[i] = l[i - 1]
<1>1. PICK one : one = <<n>>
  OBVIOUS
<1>2. one \in Seq(S) /\ Len(one) = 1 /\ one[1] = n
  BY <1>1
<1>3. /\ r \in Seq(S) /\ Len(r) = Len(one) + Len(l)
      /\ \A j \in 1 .. Len(one) : r[j] = one[j]
      /\ \A j \in 1 .. Len(l) : r[Len(one) + j] = l[j]
  BY <1>1, <1>2, JoinPositions
<1>4. \A i \in 2 .. Len(l) + 1 : i - 1 \in 1 .. Len(l) /\ Len(one) + (i - 1) = i
  BY <1>2
<1>5. \A i \in 2 .. Len(l) + 1 : r[i] = l[i - 1]
  BY <1>3, <1>4
<1> QED
  BY <1>2, <1>3, <1>5

\* kr_cache_set puts a new node for a new key at the head.
LEMMA PushChained ==
  ASSUME NEW l, NEW h, Chained(l, h), NEW k \in CacheKey, h[k] = 0, NEW id \in 1 .. MaxNode,
         \A i \in 1 .. Len(l) : l[i].id # id,
         NEW r, r = <<[id |-> id, key |-> k]>> \o l
  PROVE  Chained(r, [h EXCEPT ![k] = id])
<1>1. /\ Len(l) \in Nat
      /\ \A i \in 1 .. Len(l) : l[i] \in Node /\ l[i].id \in 1 .. MaxNode /\ l[i].key \in CacheKey
  BY NodesOf
<1>2. PICK n \in Node : n = [id |-> id, key |-> k]
  BY DEF Node
<1>3. n.id = id /\ n.key = k
  BY <1>2
<1>4. /\ r \in Seq(Node) /\ Len(r) = Len(l) + 1
      /\ r[1] = n /\ \A i \in 2 .. Len(l) + 1 : r[i] = l[i - 1]
  <2>1. l \in Seq(Node)
    BY DEF Chained
  <2> QED
    BY <1>2, <2>1, PushPositions
<1>5. \A i \in 1 .. Len(l) : l[i].key # k
  BY <1>1 DEF Chained
<1>6. \A i \in 1 .. Len(r) : i = 1 \/ (i \in 2 .. Len(l) + 1 /\ i - 1 \in 1 .. Len(l))
  BY <1>1, <1>4
<1>7. \A i, j \in 1 .. Len(r) : (r[i].key = r[j].key => i = j) /\ (r[i].id = r[j].id => i = j)
  <2> TAKE i, j \in 1 .. Len(r)
  <2>1. CASE i = 1 /\ j = 1
    BY <2>1
  <2>2. CASE i = 1 /\ j # 1
    BY <1>3, <1>4, <1>5, <1>6, <2>2
  <2>3. CASE i # 1 /\ j = 1
    BY <1>3, <1>4, <1>5, <1>6, <2>3
  <2>4. CASE i # 1 /\ j # 1
    <3>1. i - 1 \in 1 .. Len(l) /\ j - 1 \in 1 .. Len(l) /\ r[i] = l[i - 1] /\ r[j] = l[j - 1]
      BY <1>4, <1>6, <2>4
    <3>2. (r[i].key = r[j].key => i - 1 = j - 1) /\ (r[i].id = r[j].id => i - 1 = j - 1)
      BY <3>1, SMTT(40) DEF Chained
    <3>3. i \in Int /\ j \in Int
      OBVIOUS
    <3> QED
      BY <3>2, <3>3
  <2> QED
    BY <2>1, <2>2, <2>3, <2>4
<1>8. PICK g : g = [h EXCEPT ![k] = id]
  OBVIOUS
<1>9. g \in [CacheKey -> 0 .. MaxNode] /\ g[k] = id /\ \A c \in CacheKey : c # k => g[c] = h[c]
  <2>1. h \in [CacheKey -> 0 .. MaxNode] /\ id \in 0 .. MaxNode
    BY DEF Chained
  <2> QED
    BY <1>8, <2>1
<1>10. \A i \in 1 .. Len(r) : g[r[i].key] = r[i].id
  <2> TAKE i \in 1 .. Len(r)
  <2>1. CASE i = 1
    BY <1>3, <1>4, <1>9, <2>1
  <2>2. CASE i # 1
    <3>1. PICK m \in 1 .. Len(l) : r[i] = l[m]
      BY <1>4, <1>6, <2>2
    <3>2. l[m].key \in CacheKey /\ l[m].key # k
      BY <1>1, <1>5
    <3>3. h[l[m].key] = l[m].id
      BY DEF Chained
    <3> QED
      BY <1>9, <3>1, <3>2, <3>3
  <2> QED
    BY <2>1, <2>2
<1>11. \A c \in CacheKey : g[c] # 0 => \E i \in 1 .. Len(r) : r[i].key = c
  <2> TAKE c \in CacheKey
  <2> HAVE g[c] # 0
  <2>1. CASE c = k
    <3>1. 1 \in 1 .. Len(r)
      BY <1>1, <1>4
    <3> QED
      BY <1>3, <1>4, <2>1, <3>1
  <2>2. CASE c # k
    <3>1. PICK i \in 1 .. Len(l) : l[i].key = c
      BY <1>9, <2>2 DEF Chained
    <3>2. i + 1 \in 1 .. Len(r) /\ i + 1 \in 2 .. Len(l) + 1 /\ (i + 1) - 1 = i
      BY <1>1, <1>4
    <3> QED
      BY <1>4, <3>1, <3>2
  <2> QED
    BY <2>1, <2>2
<1> QED
  BY <1>4, <1>7, <1>8, <1>9, <1>10, <1>11 DEF Chained

\* List r is list l with its element at i moved to the head.
Moved(r, S, l, i) ==
  /\ r \in Seq(S) /\ Len(r) = Len(l)
  /\ r[1] = l[i]
  /\ \A j \in 2 .. i : r[j] = l[j - 1]
  /\ \A j \in i + 1 .. Len(l) : r[j] = l[j]

LEMMA MovePositions ==
  ASSUME NEW S, NEW l \in Seq(S), NEW i \in 1 .. Len(l), NEW r, r = <<l[i]>> \o RemoveAt(l, i)
  PROVE  Moved(r, S, l, i)
<1>0. Len(l) \in Nat /\ l[i] \in S
  OBVIOUS
<1>1. PICK q : q = RemoveAt(l, i)
  OBVIOUS
<1>2. /\ q \in Seq(S)
      /\ Len(q) = Len(l) - 1
      /\ \A j \in 1 .. i - 1 : q[j] = l[j]
      /\ \A j \in i .. Len(l) - 1 : q[j] = l[j + 1]
  BY <1>1, RemoveAtPositions DEF Removed
<1>3. /\ r \in Seq(S) /\ Len(r) = Len(q) + 1
      /\ r[1] = l[i] /\ \A j \in 2 .. Len(q) + 1 : r[j] = q[j - 1]
  BY <1>0, <1>1, <1>2, PushPositions
<1>4. \A j \in 2 .. i : j \in 2 .. Len(q) + 1 /\ j - 1 \in 1 .. i - 1
  BY <1>0, <1>2
<1>5. \A j \in i + 1 .. Len(l) : j \in 2 .. Len(q) + 1 /\ j - 1 \in i .. Len(l) - 1 /\ (j - 1) + 1 = j
  BY <1>0, <1>2
<1>6. Len(r) = Len(l)
  BY <1>0, <1>2, <1>3
<1>7. \A j \in 2 .. i : r[j] = l[j - 1]
  BY <1>2, <1>3, <1>4
<1>8. \A j \in i + 1 .. Len(l) : r[j] = l[j]
  BY <1>2, <1>3, <1>5
<1> QED
  BY <1>3, <1>6, <1>7, <1>8 DEF Moved

\* Where the elements of the new list were: a permutation of the places.
From(i, j) == IF j = 1 THEN i ELSE IF j <= i THEN j - 1 ELSE j

LEMMA FromIsPermutation ==
  ASSUME NEW S, NEW l \in Seq(S), NEW i \in 1 .. Len(l), NEW r, Moved(r, S, l, i)
  PROVE  /\ \A j \in 1 .. Len(l) : From(i, j) \in 1 .. Len(l) /\ r[j] = l[From(i, j)]
         /\ \A j, m \in 1 .. Len(l) : From(i, j) = From(i, m) => j = m
         /\ \A m \in 1 .. Len(l) : \E j \in 1 .. Len(l) : From(i, j) = m
<1>0. Len(l) \in Nat
  OBVIOUS
<1>1. ASSUME NEW j \in 1 .. Len(l)
      PROVE  From(i, j) \in 1 .. Len(l) /\ r[j] = l[From(i, j)]
  <2>1. CASE j = 1
    BY <2>1 DEF From, Moved
  <2>2. CASE j # 1 /\ j <= i
    <3>1. j \in 2 .. i
      BY <2>2
    <3> QED
      BY <1>0, <2>2, <3>1 DEF From, Moved
  <2>3. CASE j > i
    <3>1. j \in i + 1 .. Len(l) /\ j # 1 /\ ~(j <= i)
      BY <2>3
    <3> QED
      BY <3>1 DEF From, Moved
  <2> QED
    BY <2>1, <2>2, <2>3
<1>2. \A j, m \in 1 .. Len(l) : From(i, j) = From(i, m) => j = m
  BY <1>0 DEF From
<1>3. ASSUME NEW m \in 1 .. Len(l)
      PROVE  \E j \in 1 .. Len(l) : From(i, j) = m
  <2>1. CASE m = i
    <3>1. 1 \in 1 .. Len(l) /\ From(i, 1) = m
      BY <1>0, <2>1 DEF From
    <3> QED
      BY <3>1
  <2>2. CASE m < i
    <3>1. m + 1 \in 1 .. Len(l) /\ From(i, m + 1) = m
      BY <1>0, <2>2 DEF From
    <3> QED
      BY <3>1
  <2>3. CASE m > i
    <3>1. From(i, m) = m
      BY <1>0, <2>3 DEF From
    <3> QED
      BY <3>1
  <2> QED
    BY <2>1, <2>2, <2>3
<1> QED
  BY <1>1, <1>2, <1>3

\* kr_list_move_head loses no node.
LEMMA MoveChained ==
  ASSUME NEW l, NEW h, Chained(l, h), NEW i \in 1 .. Len(l), NEW r, Moved(r, Node, l, i)
  PROVE  Chained(r, h)
<1>0. l \in Seq(Node) /\ Len(r) = Len(l) /\ r \in Seq(Node)
  BY DEF Chained, Moved
<1>1. /\ \A j \in 1 .. Len(l) : From(i, j) \in 1 .. Len(l) /\ r[j] = l[From(i, j)]
      /\ \A j, m \in 1 .. Len(l) : From(i, j) = From(i, m) => j = m
      /\ \A m \in 1 .. Len(l) : \E j \in 1 .. Len(l) : From(i, j) = m
  BY <1>0, FromIsPermutation
<1>2. \A j, m \in 1 .. Len(l) : (r[j].key = r[m].key => j = m) /\ (r[j].id = r[m].id => j = m)
  <2> TAKE j, m \in 1 .. Len(l)
  <2>1. PICK a \in 1 .. Len(l) : a = From(i, j) /\ r[j] = l[a]
    BY <1>1
  <2>2. PICK b \in 1 .. Len(l) : b = From(i, m) /\ r[m] = l[b]
    BY <1>1
  <2>3. (l[a].key = l[b].key => a = b) /\ (l[a].id = l[b].id => a = b)
    BY DEF Chained
  <2> QED
    BY <1>1, <2>1, <2>2, <2>3
<1>3. \A j \in 1 .. Len(l) : h[r[j].key] = r[j].id
  <2> TAKE j \in 1 .. Len(l)
  <2>1. PICK a \in 1 .. Len(l) : r[j] = l[a]
    BY <1>1
  <2> QED
    BY <2>1 DEF Chained
<1>4. \A k \in CacheKey : h[k] # 0 => \E j \in 1 .. Len(l) : r[j].key = k
  <2> TAKE k \in CacheKey
  <2> HAVE h[k] # 0
  <2>1. PICK m \in 1 .. Len(l) : l[m].key = k
    BY DEF Chained
  <2>2. PICK j \in 1 .. Len(l) : From(i, j) = m
    BY <1>1
  <2> QED
    BY <1>1, <2>1, <2>2
<1> QED
  BY <1>0, <1>2, <1>3, <1>4 DEF Chained

\* A key that is used comes first in the order of use; p is where it was,
\* or the place after the last.
Touched(r, k, p) ==
  /\ r \in Seq(CacheKey) /\ IsInjective(r)
  /\ Len(r) = IF p <= Len(recent) THEN Len(recent) ELSE Len(recent) + 1
  /\ p <= Len(recent) => recent[p] = k
  /\ r[1] = k
  /\ \A j \in 2 .. p : r[j] = recent[j - 1]
  /\ \A j \in p + 1 .. Len(recent) : r[j] = recent[j]

LEMMA TouchOrder ==
  ASSUME recent \in Seq(CacheKey), IsInjective(recent), NEW k \in CacheKey, NEW r, r = X!Touch(k)
  PROVE  \E p \in 1 .. Len(recent) + 1 : Touched(r, k, p)
<1>0. /\ Len(recent) \in Nat
      /\ \A i, j \in 1 .. Len(recent) : recent[i] = recent[j] => i = j
      /\ ToSet(recent) = {recent[i] : i \in 1 .. Len(recent)}
  BY SetOfList
<1>1. r = <<k>> \o RemoveFirst(recent, k)
  BY DEF X!Touch, X!RemoveFirst, RemoveFirst, X!RemoveAt, RemoveAt, X!SelectInSeq, SelectInSeq, X!Min, Min
<1>2. CASE k \in ToSet(recent)
  <2>1. PICK p \in 1 .. Len(recent) : recent[p] = k /\ RemoveFirst(recent, k) = RemoveAt(recent, p)
    BY <1>2, RemoveFirstAt
  <2>2. Moved(r, CacheKey, recent, p)
    BY <1>1, <2>1, MovePositions
  <2>3. IsInjective(r)
    <3>1. /\ \A j \in 1 .. Len(recent) : From(p, j) \in 1 .. Len(recent) /\ r[j] = recent[From(p, j)]
          /\ \A j, m \in 1 .. Len(recent) : From(p, j) = From(p, m) => j = m
      BY <2>2, FromIsPermutation, SMTT(40)
    <3>2. \A j, m \in 1 .. Len(recent) : r[j] = r[m] => j = m
      <4> TAKE j, m \in 1 .. Len(recent)
      <4>1. PICK a \in 1 .. Len(recent) : a = From(p, j) /\ r[j] = recent[a]
        BY <3>1
      <4>2. PICK b \in 1 .. Len(recent) : b = From(p, m) /\ r[m] = recent[b]
        BY <3>1
      <4> QED
        BY <1>0, <3>1, <4>1, <4>2
    <3>3. r \in Seq(CacheKey) /\ Len(r) = Len(recent)
      BY <2>2 DEF Moved
    <3> QED
      BY <3>2, <3>3, SetOfList
  <2>4. p <= Len(recent) /\ p \in 1 .. Len(recent) + 1
    BY <1>0
  <2>5. Touched(r, k, p)
    BY <2>1, <2>2, <2>3, <2>4 DEF Touched, Moved
  <2> QED
    BY <2>4, <2>5
<1>3. CASE k \notin ToSet(recent)
  <2>1. r = <<k>> \o recent
    BY <1>0, <1>1, <1>3 DEF RemoveFirst
  <2>2. /\ r \in Seq(CacheKey) /\ Len(r) = Len(recent) + 1
        /\ r[1] = k /\ \A i \in 2 .. Len(recent) + 1 : r[i] = recent[i - 1]
    BY <2>1, PushPositions
  <2>3. \A i, j \in 1 .. Len(r) : r[i] = r[j] => i = j
    <3> TAKE i, j \in 1 .. Len(r)
    <3>1. \A m \in 1 .. Len(r) : m # 1 => m \in 2 .. Len(recent) + 1 /\ m - 1 \in 1 .. Len(recent)
      BY <1>0, <2>2
    <3>2. \A m \in 1 .. Len(r) : m # 1 => r[m] = recent[m - 1] /\ recent[m - 1] # k
      BY <1>0, <1>3, <2>2, <3>1
    <3>3. CASE i = 1 \/ j = 1
      BY <2>2, <3>2, <3>3
    <3>4. CASE i # 1 /\ j # 1
      <4>1. r[i] = r[j] => i - 1 = j - 1
        BY <1>0, <3>1, <3>2, <3>4
      <4>2. i \in Int /\ j \in Int
        OBVIOUS
      <4> QED
        BY <4>1, <4>2
    <3> QED
      BY <3>3, <3>4
  <2>4. IsInjective(r)
    BY <2>2, <2>3, SetOfList
  <2>5. Len(recent) + 1 \in 1 .. Len(recent) + 1 /\ ~(Len(recent) + 1 <= Len(recent))
        /\ (Len(recent) + 1) + 1 .. Len(recent) = {}
    BY <1>0
  <2>6. Touched(r, k, Len(recent) + 1)
    BY <2>2, <2>4, <2>5 DEF Touched
  <2> QED
    BY <2>5, <2>6
<1> QED
  BY <1>2, <1>3

\* The list holds the keys used last, in that order.
Latest(l, r) == Len(l) <= Len(r) /\ \A i \in 1 .. Len(l) : l[i].key = r[i]

Ask == [key : CacheKey, item : HdiId, table : 0 .. MaxNode, own : BOOLEAN]

Val == [for : CacheKey \cup {0}, own : BOOLEAN]

Ctx == [record : CurrRec, field : IndexId \cup {0}, done : SUBSET HdiId]

\* Every value in the table of a node whose item was looked up by its own
\* field was computed for the node's key.
Computed(l, t) == \A i \in 1 .. Len(l) : \A h \in HdiId : t[l[i].id][h].own => t[l[i].id][h].for = l[i].key

\* The cache itself; what a worker got for its key is what the hash table has
\* for it.
StoreInv ==
  /\ Chained(list, hash)
  /\ max_size \in SizeSet /\ Len(list) <= max_size
  /\ recent \in Seq(CacheKey) /\ IsInjective(recent)
  /\ Latest(list, recent)
  /\ table \in [1 .. MaxNode -> [HdiId -> Val]]
  /\ Computed(list, table)
  /\ asking \in [Asker -> Seq(Ask)]
  /\ \A w \in Asker : asking[w] # <<>> => hash[asking[w][1].key] = asking[w][1].table

\* pKeyValue is NULL or points to a field that the record has.
Pointed(c) == c = <<>> \/ (c \in Seq(Ctx) /\ (c[1].field # 0 => c[1].record[c[1].field] \in CacheKey))

\* A worker whose lookup went by the field of the item's index has the key of
\* that field.
AskInv ==
  /\ context \in [Asker -> Seq(Ctx)]
  /\ \A w \in Asker : Pointed(context[w])
  /\ \A w \in Asker : asking[w] # <<>> =>
       /\ context[w] # <<>>
       /\ asking[w][1].own => asking[w][1].key = context[w][1].record[IndexOf[asking[w][1].item]]

\* The inductive invariant of the cache.
CacheInv == StoreInv /\ AskInv

\* No value at all.
LEMMA UnsetIsValue == X!Unset \in Val /\ ~X!Unset.own
  BY DEF Val, X!Unset

LEMMA CacheInitInv ==
  ASSUME CacheConstants, X!CacheInit
  PROVE  CacheInv
<1>1. /\ list = <<>> /\ hash = [k \in CacheKey |-> 0] /\ table = [n \in 1 .. MaxNode |-> X!NoTable]
      /\ max_size \in SizeSet /\ asking = [w \in Asker |-> <<>>] /\ recent = <<>>
  BY DEF X!CacheInit
<1>2. Len(list) = 0 /\ list \in Seq(Node) /\ recent \in Seq(CacheKey) /\ Len(recent) = 0 /\ 1 .. 0 = {}
  BY <1>1
<1>3. 0 \in 0 .. MaxNode /\ SizeSet \subseteq Nat
  BY DEF CacheConstants
<1>4. hash \in [CacheKey -> 0 .. MaxNode] /\ \A k \in CacheKey : hash[k] = 0
  BY <1>1, <1>3
<1>5. Chained(list, hash)
  BY <1>2, <1>4 DEF Chained
<1>6. IsInjective(recent)
  BY <1>2, SetOfList
<1>7. table \in [1 .. MaxNode -> [HdiId -> Val]]
  BY <1>1, UnsetIsValue DEF X!NoTable
<1>8. asking \in [Asker -> Seq(Ask)] /\ \A w \in Asker : asking[w] = <<>>
  BY <1>1
<1>9. context \in [Asker -> Seq(Ctx)] /\ \A w \in Asker : context[w] = <<>>
  BY DEF X!CacheInit
<1> QED
  BY <1>1, <1>2, <1>3, <1>5, <1>6, <1>7, <1>8, <1>9 DEF CacheInv, StoreInv, AskInv, Pointed, Latest, Computed

\* The tables of the nodes that stay are kept, the others are blank.
LEMMA KeptTables ==
  ASSUME table \in [1 .. MaxNode -> [HdiId -> Val]],
         NEW l \in Seq(Node), Computed(l, table), NEW t, t = X!Kept(l)
  PROVE  /\ t \in [1 .. MaxNode -> [HdiId -> Val]]
         /\ Computed(l, t)
         /\ \A n \in 1 .. MaxNode : (\A i \in 1 .. Len(l) : l[i].id # n) => t[n] = X!NoTable
<1>1. DOMAIN l = 1 .. Len(l) /\ \A i \in 1 .. Len(l) : l[i].id \in 1 .. MaxNode
  <2>1. DOMAIN l = 1 .. Len(l) /\ \A i \in 1 .. Len(l) : l[i] \in Node
    OBVIOUS
  <2> QED
    BY <2>1 DEF Node
<1>2. X!NoTable \in [HdiId -> Val]
  BY UnsetIsValue DEF X!NoTable
<1>3. t = [n \in 1 .. MaxNode |-> IF \E i \in 1 .. Len(l) : l[i].id = n THEN table[n] ELSE X!NoTable]
  BY <1>1 DEF X!Kept
<1>4. t \in [1 .. MaxNode -> [HdiId -> Val]]
  BY <1>2, <1>3
<1>5. \A i \in 1 .. Len(l) : t[l[i].id] = table[l[i].id]
  BY <1>1, <1>3
<1> QED
  BY <1>3, <1>4, <1>5 DEF Computed

\* kr_cache_set_max_size evicts from the tail.
LEMMA SetMaxSizeInv ==
  ASSUME CacheConstants, StoreInv, NEW n \in SizeSet, X!SetMaxSize(n)
  PROVE  StoreInv'
<1>0. /\ \A w \in Asker : asking[w] = <<>>
      /\ max_size' = n /\ asking' = asking /\ recent' = recent
  BY DEF X!SetMaxSize
<1>1. /\ Chained(list, hash) /\ max_size \in SizeSet /\ Len(list) <= max_size
      /\ recent \in Seq(CacheKey) /\ IsInjective(recent) /\ Latest(list, recent)
      /\ table \in [1 .. MaxNode -> [HdiId -> Val]] /\ Computed(list, table)
      /\ asking \in [Asker -> Seq(Ask)]
  BY DEF StoreInv
<1>2. n \in Nat /\ max_size \in Nat /\ Len(list) \in Nat /\ Len(recent) \in Nat
  BY <1>1, NodesOf DEF CacheConstants
<1>3. CASE ~(max_size > n)
  <2>1. list' = list /\ hash' = hash /\ table' = table
    BY <1>3 DEF X!SetMaxSize
  <2>2. Len(list) <= n
    BY <1>1, <1>2, <1>3
  <2> QED
    BY <1>0, <1>1, <2>1, <2>2 DEF StoreInv
<1>4. CASE max_size > n
  <2>1. PICK e : e = X!EvictNOldest(list, hash, max_size - n)
    OBVIOUS
  <2>2. list' = e.list /\ hash' = e.hash /\ table' = X!Kept(e.list)
    BY <1>4, <2>1 DEF X!SetMaxSize
  <2>3. max_size - n \in Nat
    BY <1>2, <1>4
  <2>4. /\ Chained(e.list, e.hash)
        /\ Len(e.list) = IF max_size - n <= Len(list) THEN Len(list) - (max_size - n) ELSE 0
        /\ \A i \in 1 .. Len(e.list) : e.list[i] = list[i]
    BY <1>1, <2>1, <2>3, EvictChained
  <2>5. Len(e.list) <= n /\ Len(e.list) <= Len(list) /\ Len(e.list) \in Nat
    BY <1>1, <1>2, <1>4, <2>4
  <2>6. \A i \in 1 .. Len(e.list) : i \in 1 .. Len(list)
    BY <1>2, <2>5
  <2>7. Latest(e.list, recent)
    BY <1>1, <1>2, <2>4, <2>5, <2>6, SMTT(40) DEF Latest
  <2>8. Computed(e.list, table) /\ e.list \in Seq(Node)
    BY <1>1, <2>4, <2>6 DEF Computed, Chained
  <2>9. /\ X!Kept(e.list) \in [1 .. MaxNode -> [HdiId -> Val]]
        /\ Computed(e.list, X!Kept(e.list))
    BY <1>1, <2>8, KeptTables
  <2> QED
    BY <1>0, <1>1, <2>2, <2>4, <2>5, <2>7, <2>9 DEF StoreInv
<1> QED
  BY <1>3, <1>4

\* What a worker asks for is the item, under the key pKeyValue points to.
LEMMA RequestIsAsk ==
  ASSUME NEW w \in Asker, NEW h \in HdiId, NEW k \in CacheKey, k = X!Key(w), NEW id \in 0 .. MaxNode
  PROVE  /\ X!Request(w, h, id) \in Ask
         /\ X!Request(w, h, id).key = k /\ X!Request(w, h, id).table = id /\ X!Request(w, h, id).item = h
         /\ X!Request(w, h, id).own <=> context[w][1].field = IndexOf[h]
  BY DEF X!Request, X!Key, Ask

\* kr_cache_get on a hit: the node and the key come first.
LEMMA CacheHitInv ==
  ASSUME CacheConstants, StoreInv, NEW w \in Asker, NEW h \in HdiId, X!CacheHit(w, h),
         NEW k \in CacheKey, k = X!Key(w)
  PROVE  StoreInv'
<1>0. /\ hash[k] # 0 /\ list' = X!MoveHead(list, hash[k])
      /\ asking' = [asking EXCEPT ![w] = <<X!Request(w, h, hash[k])>>]
      /\ recent' = X!Touch(k) /\ hash' = hash /\ table' = table /\ max_size' = max_size
  BY DEF X!CacheHit
<1>1. /\ Chained(list, hash) /\ max_size \in SizeSet /\ Len(list) <= max_size
      /\ recent \in Seq(CacheKey) /\ IsInjective(recent) /\ Latest(list, recent)
      /\ table \in [1 .. MaxNode -> [HdiId -> Val]] /\ Computed(list, table)
      /\ asking \in [Asker -> Seq(Ask)]
  BY DEF StoreInv
<1>2. /\ Len(list) \in Nat /\ Len(recent) \in Nat /\ list \in Seq(Node)
      /\ \A j \in 1 .. Len(list) : list[j].id \in 1 .. MaxNode /\ list[j].key \in CacheKey
  <2>1. list \in Seq(Node)
    BY <1>1 DEF Chained
  <2>2. /\ Len(list) \in Nat
        /\ \A j \in 1 .. Len(list) : list[j].id \in 1 .. MaxNode /\ list[j].key \in CacheKey
    BY <1>1, NodesOf
  <2>3. Len(recent) \in Nat
    BY <1>1
  <2> QED
    BY <2>1, <2>2, <2>3
<1>3. PICK i \in 1 .. Len(list) : list[i].key = k /\ list[i].id = hash[k]
  <2>1. PICK i \in 1 .. Len(list) : list[i].key = k
    BY <1>0, <1>1 DEF Chained
  <2>2. hash[list[i].key] = list[i].id
    BY <1>1 DEF Chained
  <2> QED
    BY <2>1, <2>2
<1>4. X!SelectInSeq(list, LAMBDA n : n.id = hash[k]) = i
  <2>1. {j \in 1 .. Len(list) : list[j].id = hash[k]} = {i}
    BY <1>1, <1>3 DEF Chained
  <2>2. X!Min({i}) = i
    BY DEF X!Min
  <2> QED
    BY <2>1, <2>2 DEF X!SelectInSeq
<1>5. list' = <<list[i]>> \o RemoveAt(list, i)
  BY <1>0, <1>4 DEF X!MoveHead, X!RemoveAt, RemoveAt
<1>6. Moved(list', Node, list, i)
  BY <1>2, <1>5, MovePositions
<1>7. Chained(list', hash) /\ Len(list') = Len(list)
  BY <1>1, <1>6, MoveChained DEF Moved
<1>8. PICK p \in 1 .. Len(recent) + 1 : Touched(recent', k, p)
  BY <1>0, <1>1, TouchOrder
<1>9. p = i
  <2>1. i \in 1 .. Len(recent) /\ recent[i] = k
    BY <1>1, <1>2, <1>3 DEF Latest
  <2>2. CASE p <= Len(recent)
    <3>1. p \in 1 .. Len(recent) /\ recent[p] = k
      BY <1>2, <1>8, <2>2 DEF Touched
    <3> QED
      BY <1>1, <2>1, <3>1, SetOfList
  <2>3. CASE ~(p <= Len(recent))
    <3>1. i + 1 \in 2 .. p /\ (i + 1) - 1 = i
      BY <1>2, <2>1, <2>3
    <3>2. recent'[i + 1] = k /\ recent'[1] = k /\ Len(recent') = Len(recent) + 1
      BY <1>8, <2>1, <2>3, <3>1 DEF Touched
    <3>3. i + 1 \in 1 .. Len(recent') /\ 1 \in 1 .. Len(recent')
      BY <1>2, <2>1, <3>2
    <3>4. recent' \in Seq(CacheKey) /\ IsInjective(recent')
      BY <1>8 DEF Touched
    <3>5. i + 1 = 1
      BY <3>2, <3>3, <3>4, SetOfList
    <3> QED
      BY <1>2, <3>5
  <2> QED
    BY <2>2, <2>3
<1>10. Latest(list', recent')
  <2>1. Len(list') <= Len(recent')
    BY <1>1, <1>2, <1>7, <1>8 DEF Touched, Latest
  <2>2. ASSUME NEW j \in 1 .. Len(list)
        PROVE  list'[j].key = recent'[j]
    <3>1. CASE j = 1
      BY <1>3, <1>6, <1>8, <3>1 DEF Moved, Touched
    <3>2. CASE j # 1 /\ j <= i
      <4>1. j \in 2 .. i /\ j - 1 \in 1 .. Len(list)
        BY <1>2, <3>2
      <4>2. list'[j] = list[j - 1] /\ recent'[j] = recent[j - 1]
        BY <1>6, <1>8, <1>9, <4>1 DEF Moved, Touched
      <4> QED
        BY <1>1, <4>1, <4>2 DEF Latest
    <3>3. CASE j > i
      <4>1. j \in i + 1 .. Len(list) /\ j \in i + 1 .. Len(recent)
        BY <1>1, <1>2, <3>3 DEF Latest
      <4>2. list'[j] = list[j] /\ recent'[j] = recent[j]
        BY <1>6, <1>8, <1>9, <4>1 DEF Moved, Touched
      <4> QED
        BY <1>1, <4>2 DEF Latest
    <3> QED
      BY <3>1, <3>2, <3>3
  <2> QED
    BY <1>7, <2>1, <2>2 DEF Latest
<1>11. Computed(list', table)
  <2>1. \A j \in 1 .. Len(list) : From(i, j) \in 1 .. Len(list) /\ list'[j] = list[From(i, j)]
    BY <1>2, <1>6, FromIsPermutation
  <2> QED
    BY <1>1, <1>7, <2>1 DEF Computed
<1>12. /\ asking' \in [Asker -> Seq(Ask)]
       /\ \A v \in Asker : asking'[v] # <<>> => hash[asking'[v][1].key] = asking'[v][1].table
  <2>1. \A v \in Asker : v = w
    BY DEF CacheConstants
  <2>2. PICK a \in Ask : a = X!Request(w, h, hash[k]) /\ a.key = k /\ a.table = hash[k]
    <3>1. hash[k] \in 0 .. MaxNode
      BY <1>1 DEF Chained
    <3> QED
      BY <3>1, RequestIsAsk
  <2>3. <<a>> \in Seq(Ask) /\ <<a>>[1] = a /\ a.key = k /\ a.table = hash[k]
    BY <2>2
  <2>4. asking' = [asking EXCEPT ![w] = <<a>>]
    BY <1>0, <2>2
  <2>5. asking' \in [Asker -> Seq(Ask)] /\ asking'[w] = <<a>>
    BY <1>1, <2>3, <2>4
  <2> QED
    BY <2>1, <2>3, <2>5
<1>13. recent' \in Seq(CacheKey) /\ IsInjective(recent')
  BY <1>8 DEF Touched
<1>14. IsInjective(recent)'
  BY <1>13 DEF IsInjective
<1> QED
  BY <1>0, <1>1, <1>7, <1>10, <1>11, <1>12, <1>13, <1>14 DEF StoreInv

\* A miss only remembers what to put into the cache.
LEMMA CacheMissInv ==
  ASSUME CacheConstants, StoreInv, NEW w \in Asker, NEW h \in HdiId, X!CacheMiss(w, h),
         NEW k \in CacheKey, k = X!Key(w)
  PROVE  StoreInv'
<1>0. /\ hash[k] = 0
      /\ asking' = [asking EXCEPT ![w] = <<X!Request(w, h, 0)>>]
      /\ UNCHANGED <<list, hash, table, max_size, recent>>
  BY DEF X!CacheMiss
<1>1. asking \in [Asker -> Seq(Ask)] /\ \A v \in Asker : v = w
  BY DEF StoreInv, CacheConstants
<1>2. PICK a \in Ask : a = X!Request(w, h, 0) /\ a.key = k /\ a.table = 0
  <2>1. 0 \in 0 .. MaxNode
    BY DEF CacheConstants
  <2> QED
    BY <2>1, RequestIsAsk
<1>3. <<a>> \in Seq(Ask) /\ <<a>>[1] = a /\ a.key = k /\ a.table = 0
  BY <1>2
<1>4. asking' = [asking EXCEPT ![w] = <<a>>]
  BY <1>0, <1>2
<1>5. asking' \in [Asker -> Seq(Ask)] /\ asking'[w] = <<a>>
  BY <1>1, <1>3, <1>4
<1>6. \A v \in Asker : asking'[v] # <<>> => hash[asking'[v][1].key] = asking'[v][1].table
  BY <1>0, <1>1, <1>3, <1>5
<1> QED
  BY <1>0, <1>5, <1>6 DEF StoreInv

\* There is a node that is not in the list.
LEMMA FreshNode ==
  ASSUME MaxNode \in Nat, NEW l \in Seq(Node), Len(l) < MaxNode,
         NEW id, id = X!Min((1 .. MaxNode) \ {l[i].id : i \in DOMAIN l})
  PROVE  id \in 1 .. MaxNode /\ \A i \in 1 .. Len(l) : l[i].id # id
<1>1. DOMAIN l = 1 .. Len(l) /\ Len(l) \in Nat /\ \A i \in 1 .. Len(l) : l[i].id \in 1 .. MaxNode
  <2>1. DOMAIN l = 1 .. Len(l) /\ Len(l) \in Nat /\ \A i \in 1 .. Len(l) : l[i] \in Node
    OBVIOUS
  <2> QED
    BY <2>1 DEF Node
<1>2. PICK f : f = [i \in 1 .. Len(l) |-> l[i].id]
  OBVIOUS
<1>3. PICK T : T = (1 .. MaxNode) \ {l[i].id : i \in DOMAIN l}
  OBVIOUS
<1>4. T # {}
  <2> SUFFICES ASSUME T = {} PROVE FALSE
    OBVIOUS
  <2>1. \A n \in 1 .. MaxNode : \E i \in 1 .. Len(l) : f[i] = n
    BY <1>1, <1>2, <1>3
  <2>2. f \in Surjection(1 .. Len(l), 1 .. MaxNode)
    BY <1>1, <1>2, <2>1 DEF Surjection
  <2>3. Cardinality(1 .. MaxNode) <= Len(l)
    BY <1>1, <2>2, FS_SurjCardinalityBound DEF ExistsSurjection
  <2>4. Cardinality(1 .. MaxNode) = MaxNode
    <3>1. Cardinality(1 .. MaxNode) = IF 1 > MaxNode THEN 0 ELSE MaxNode - 1 + 1
      BY FS_Interval
    <3> QED
      BY <3>1
  <2> QED
    BY <1>1, <2>3, <2>4
<1>5. Min(T) \in T
  <2>1. T \in SUBSET Nat
    BY <1>3
  <2> QED
    BY <1>4, <2>1, MinOf
<1>6. id = Min(T)
  BY <1>3 DEF X!Min, Min
<1> QED
  BY <1>1, <1>3, <1>5, <1>6

\* kr_cache_set: room is made from the tail, the new node comes first.
LEMMA CacheSetInv ==
  ASSUME CacheConstants, StoreInv, NEW w \in Asker, X!CacheSet(w)
  PROVE  StoreInv'
<1>1. /\ Chained(list, hash) /\ max_size \in SizeSet /\ Len(list) <= max_size
      /\ recent \in Seq(CacheKey) /\ IsInjective(recent) /\ Latest(list, recent)
      /\ table \in [1 .. MaxNode -> [HdiId -> Val]] /\ Computed(list, table)
      /\ asking \in [Asker -> Seq(Ask)]
  BY DEF StoreInv
<1>k. PICK k : k = asking[w][1].key
  OBVIOUS
<1>n. PICK n : n = IF X!Size(hash) - max_size >= 0 THEN X!Size(hash) - max_size + 1 ELSE 0
  OBVIOUS
<1>e. PICK e : e = X!EvictNOldest(list, hash, n)
  OBVIOUS
<1>i. PICK id : id = X!Min((1 .. MaxNode) \ {e.list[i].id : i \in DOMAIN e.list})
  OBVIOUS
<1>2. /\ asking[w] # <<>> /\ asking[w][1].table = 0
      /\ list' = <<[id |-> id, key |-> k]>> \o e.list
      /\ hash' = [e.hash EXCEPT ![k] = id]
      /\ table' = X!Kept(e.list)
      /\ asking' = [asking EXCEPT ![w][1].table = id]
      /\ recent' = X!Touch(k)
      /\ max_size' = max_size
  BY <1>k, <1>n, <1>e, <1>i, SMTT(40) DEF X!CacheSet
<1>3. PICK ask \in Seq(Ask) : ask = asking[w] /\ ask # <<>>
  BY <1>1, <1>2
<1>4. ask[1] \in Ask /\ 1 \in 1 .. Len(ask) /\ Len(ask) \in Nat
  BY <1>3
<1>5. k \in CacheKey /\ hash[k] = 0
  <2>1. k \in CacheKey
    BY <1>k, <1>3, <1>4 DEF Ask
  <2>2. hash[k] = 0
    BY <1>k, <1>2 DEF StoreInv
  <2> QED
    BY <2>1, <2>2
<1>6. /\ max_size \in 1 .. MaxNode /\ Len(list) \in Nat /\ Len(recent) \in Nat /\ MaxNode \in Nat
      /\ X!Size(hash) = Len(list)
  <2>1. Len(list) \in Nat
    BY <1>1, NodesOf
  <2>2. X!Size(hash) = Len(list)
    BY <1>1, SizeIsLength
  <2>3. max_size \in 1 .. MaxNode /\ Len(recent) \in Nat /\ MaxNode \in Nat
    BY <1>1 DEF CacheConstants
  <2> QED
    BY <2>1, <2>2, <2>3
<1>7. n \in Nat /\ (Len(list) = max_size => n = 1) /\ (Len(list) < max_size => n = 0)
  BY <1>1, <1>n, <1>6
<1>8. /\ Chained(e.list, e.hash)
      /\ Len(e.list) = IF n <= Len(list) THEN Len(list) - n ELSE 0
      /\ \A i \in 1 .. Len(e.list) : e.list[i] = list[i]
      /\ \A c \in CacheKey : e.hash[c] \in {0, hash[c]}
  <2>1. Chained(list, hash) /\ n \in Nat /\ e = X!EvictNOldest(list, hash, n)
    BY <1>1, <1>e, <1>7
  <2> QED
    BY <2>1, EvictChained
<1>9. Len(e.list) < max_size /\ Len(e.list) <= Len(list) /\ Len(e.list) \in Nat /\ Len(e.list) < MaxNode
  BY <1>1, <1>6, <1>7, <1>8
<1>10. \A i \in 1 .. Len(e.list) : i \in 1 .. Len(list)
  BY <1>6, <1>9
<1>11. e.list \in Seq(Node) /\ Computed(e.list, table)
  BY <1>1, <1>8, <1>10 DEF Computed, Chained
<1>12. id \in 1 .. MaxNode /\ \A i \in 1 .. Len(e.list) : e.list[i].id # id
  BY <1>i, <1>6, <1>9, <1>11, FreshNode
<1>13. Chained(list', hash')
  <2>1. e.hash[k] = 0
    BY <1>5, <1>8
  <2>2. Chained(<<[id |-> id, key |-> k]>> \o e.list, [e.hash EXCEPT ![k] = id])
    BY <1>5, <1>8, <1>12, <2>1, PushChained
  <2> QED
    BY <1>2, <2>2
<1>14. PICK node \in Node : node = [id |-> id, key |-> k] /\ node.id = id /\ node.key = k
  <2>1. [id |-> id, key |-> k] \in Node
    BY <1>5, <1>12 DEF Node
  <2> QED
    BY <2>1
<1>15. /\ Len(list') = Len(e.list) + 1 /\ list'[1] = node
       /\ \A i \in 2 .. Len(e.list) + 1 : list'[i] = e.list[i - 1]
  BY <1>2, <1>11, <1>14, PushPositions
<1>16. Len(list') <= max_size
  BY <1>6, <1>9, <1>15
<1>17. PICK p \in 1 .. Len(recent) + 1 : Touched(recent', k, p)
  BY <1>1, <1>2, <1>5, TouchOrder
<1>18. Len(list) < p
  <2>1. \A i \in 1 .. Len(list) : recent[i] # k
    <3>1. \A i \in 1 .. Len(list) : list[i].id \in 1 .. MaxNode
      BY <1>1, NodesOf
    <3>2. \A i \in 1 .. Len(list) : list[i].key # k
      <4> TAKE i \in 1 .. Len(list)
      <4>1. hash[list[i].key] = list[i].id /\ list[i].id # 0
        BY <1>1, <3>1 DEF Chained
      <4> QED
        BY <1>5, <4>1
    <3> QED
      BY <1>1, <3>2 DEF Latest
  <2>2. CASE p <= Len(recent)
    <3>1. recent[p] = k
      BY <1>17, <2>2 DEF Touched
    <3> QED
      BY <1>6, <2>1, <3>1
  <2>3. CASE ~(p <= Len(recent))
    <3>1. Len(list) <= Len(recent)
      BY <1>1 DEF Latest
    <3> QED
      BY <1>6, <2>3, <3>1
  <2> QED
    BY <2>2, <2>3
<1>19. Latest(list', recent')
  <2>1. Len(list') <= Len(recent')
    <3>1. Len(list) <= Len(recent)
      BY <1>1 DEF Latest
    <3>2. Len(recent') = IF p <= Len(recent) THEN Len(recent) ELSE Len(recent) + 1
      BY <1>17 DEF Touched
    <3> QED
      BY <1>6, <1>9, <1>15, <1>18, <3>1, <3>2
  <2>2. ASSUME NEW j \in 1 .. Len(list')
        PROVE  list'[j].key = recent'[j]
    <3>1. CASE j = 1
      BY <1>14, <1>15, <1>17, <3>1 DEF Touched
    <3>2. CASE j # 1
      <4>1. j \in 2 .. Len(e.list) + 1 /\ j \in 2 .. p /\ j - 1 \in 1 .. Len(e.list) /\ j - 1 \in 1 .. Len(list)
        BY <1>6, <1>9, <1>15, <1>18, <3>2
      <4>2. list'[j] = list[j - 1] /\ recent'[j] = recent[j - 1]
        BY <1>8, <1>15, <1>17, <4>1 DEF Touched
      <4> QED
        BY <1>1, <4>1, <4>2 DEF Latest
    <3> QED
      BY <3>1, <3>2
  <2> QED
    BY <2>1, <2>2 DEF Latest
<1>20. /\ table' \in [1 .. MaxNode -> [HdiId -> Val]]
       /\ Computed(e.list, table') /\ table'[id] = X!NoTable
  BY <1>1, <1>2, <1>11, <1>12, KeptTables
<1>21. Computed(list', table')
  <2>1. ASSUME NEW j \in 1 .. Len(list'), NEW h \in HdiId
        PROVE  table'[list'[j].id][h].own => table'[list'[j].id][h].for = list'[j].key
    <3>1. CASE j = 1
      BY <1>14, <1>15, <1>20, <3>1, UnsetIsValue DEF X!NoTable
    <3>2. CASE j # 1
      <4>1. j \in 2 .. Len(e.list) + 1 /\ j - 1 \in 1 .. Len(e.list)
        BY <1>9, <1>15, <3>2
      <4> QED
        BY <1>15, <1>20, <4>1 DEF Computed
    <3> QED
      BY <3>1, <3>2
  <2> QED
    BY <2>1 DEF Computed
<1>22. /\ asking' \in [Asker -> Seq(Ask)]
       /\ \A v \in Asker : asking'[v] # <<>> => hash'[asking'[v][1].key] = asking'[v][1].table
  <2>1. \A v \in Asker : v = w
    BY DEF CacheConstants
  <2>2. PICK a : a = [ask[1] EXCEPT !.table = id]
    OBVIOUS
  <2>3. a \in Ask /\ a.key = k /\ a.table = id
    <3>1. id \in 0 .. MaxNode /\ ask[1].key = k
      BY <1>k, <1>3, <1>12
    <3> QED
      BY <1>4, <2>2, <3>1 DEF Ask
  <2>4. PICK b : b = [ask EXCEPT ![1] = a]
    OBVIOUS
  <2>5. b \in Seq(Ask) /\ b[1] = a
    BY <1>3, <1>4, <2>3, <2>4
  <2>6. asking' = [asking EXCEPT ![w] = b]
    BY <1>2, <1>3, <2>2, <2>4
  <2>7. asking' \in [Asker -> Seq(Ask)] /\ asking'[w] = b
    BY <1>1, <2>5, <2>6
  <2>8. hash'[k] = id
    <3>1. e.hash \in [CacheKey -> 0 .. MaxNode]
      BY <1>8 DEF Chained
    <3> QED
      BY <1>2, <1>5, <3>1
  <2> QED
    BY <2>1, <2>3, <2>5, <2>7, <2>8
<1>23. recent' \in Seq(CacheKey) /\ IsInjective(recent')
  BY <1>17 DEF Touched
<1> QED
  BY <1>1, <1>2, <1>13, <1>16, <1>19, <1>20, <1>21, <1>22, <1>23 DEF StoreInv

\* kr_hdi_get_value_from_cache: the table that is written to is that of the
\* key; a value looked up by its own field is computed for that key.
LEMMA ComputeValueInv ==
  ASSUME CacheConstants, CacheInv, NEW w \in Asker, NEW ok \in BOOLEAN, X!ComputeValue(w, ok)
  PROVE  StoreInv'
<1>1. /\ Chained(list, hash)
      /\ table \in [1 .. MaxNode -> [HdiId -> Val]] /\ Computed(list, table)
      /\ asking \in [Asker -> Seq(Ask)]
  BY DEF CacheInv, StoreInv
<1>2. PICK a : /\ asking[w] # <<>> /\ a = asking[w][1] /\ a.table # 0
  BY DEF X!ComputeValue
<1>3. PICK for : for = context[w][1].record[IndexOf[a.item]]
  OBVIOUS
<1>4. /\ table' = IF for # 0 /\ ok
                  THEN [table EXCEPT ![a.table][a.item] = [for |-> for, own |-> a.own]]
                  ELSE table
      /\ asking' = [asking EXCEPT ![w] = <<>>]
      /\ UNCHANGED <<list, hash, max_size, recent>>
  BY <1>2, <1>3 DEF X!ComputeValue
<1>5. a \in Ask /\ hash[a.key] = a.table
  <2>1. PICK ask \in Seq(Ask) : ask = asking[w] /\ ask # <<>>
    BY <1>1, <1>2
  <2>2. ask[1] \in Ask
    BY <2>1
  <2> QED
    BY <1>2, <2>1, <2>2 DEF CacheInv, StoreInv
<1>6. a.key \in CacheKey /\ a.item \in HdiId /\ a.table \in 1 .. MaxNode /\ a.own \in BOOLEAN
  BY <1>2, <1>5 DEF Ask, CacheConstants
<1>7. for \in CacheKey \cup {0} /\ (a.own => for = a.key)
  <2>1. PICK c \in Seq(Ctx) : c = context[w] /\ c # <<>>
    BY <1>2 DEF CacheInv, AskInv
  <2>2. c[1] \in Ctx
    BY <2>1
  <2>3. c[1].record \in [IndexId -> CacheKey \cup {0}] /\ IndexOf[a.item] \in IndexId
    BY <1>6, <2>2 DEF Ctx, CacheConstants
  <2>4. a.own => a.key = for
    BY <1>2, <1>3 DEF CacheInv, AskInv
  <2> QED
    BY <1>3, <2>1, <2>3, <2>4
<1>8. asking' \in [Asker -> Seq(Ask)] /\ \A u \in Asker : asking'[u] = <<>>
  <2>1. \A u \in Asker : u = w
    BY DEF CacheConstants
  <2>2. <<>> \in Seq(Ask)
    OBVIOUS
  <2> QED
    BY <1>1, <1>4, <2>1, <2>2
<1>9. CASE ~(for # 0 /\ ok)
  <2>1. table' = table
    BY <1>4, <1>9
  <2> QED
    BY <1>4, <1>8, <2>1 DEF CacheInv, StoreInv
<1>10. CASE for # 0 /\ ok
  <2>1. PICK v \in Val : v = [for |-> for, own |-> a.own] /\ (v.own => v.for = a.key)
    <3>1. [for |-> for, own |-> a.own] \in Val
      BY <1>6, <1>7 DEF Val
    <3> QED
      BY <1>7, <3>1
  <2>2. table' = [table EXCEPT ![a.table] = [@ EXCEPT ![a.item] = v]]
    BY <1>4, <1>10, <2>1
  <2>3. table' \in [1 .. MaxNode -> [HdiId -> Val]]
    BY <1>1, <1>6, <2>2
  <2>4. PICK m \in 1 .. Len(list) : list[m].key = a.key /\ list[m].id = a.table
    <3>1. PICK m \in 1 .. Len(list) : list[m].key = a.key
      BY <1>1, <1>2, <1>5, <1>6 DEF Chained
    <3>2. hash[list[m].key] = list[m].id
      BY <1>1 DEF Chained
    <3> QED
      BY <1>5, <3>1, <3>2
  <2>5. Computed(list, table')
    <3>1. ASSUME NEW j \in 1 .. Len(list), NEW h \in HdiId
          PROVE  table'[list[j].id][h].own => table'[list[j].id][h].for = list[j].key
      <4>0. list[j].id \in 1 .. MaxNode /\ (table[list[j].id][h].own => table[list[j].id][h].for = list[j].key)
        BY <1>1, NodesOf DEF Computed
      <4>1. CASE list[j].id # a.table \/ h # a.item
        <5>1. table'[list[j].id][h] = table[list[j].id][h]
          BY <1>1, <1>6, <2>2, <4>0, <4>1
        <5> QED
          BY <4>0, <5>1
      <4>2. CASE list[j].id = a.table /\ h = a.item
        <5>1. list[j].key = a.key
          BY <1>1, <2>4, <4>2 DEF Chained
        <5>2. table'[list[j].id][h] = v
          BY <1>1, <1>6, <2>2, <4>2
        <5> QED
          BY <2>1, <5>1, <5>2
      <4> QED
        BY <4>1, <4>2
    <3> QED
      BY <3>1 DEF Computed
  <2> QED
    BY <1>4, <1>8, <2>3, <2>5 DEF CacheInv, StoreInv
<1> QED
  BY <1>9, <1>10

\* The record in a context has a key for its indexes, and the field that
\* pKeyValue points to is one of these.
LEMMA ContextOf ==
  ASSUME CacheConstants, AskInv, NEW w \in Asker, context[w] # <<>>
  PROVE  /\ context[w] \in Seq(Ctx) /\ Len(context[w]) \in Nat \ {0}
         /\ context[w][1] \in Ctx
         /\ context[w][1].record \in [IndexId -> CacheKey \cup {0}]
         /\ context[w][1].field # 0 => X!Key(w) \in CacheKey
<1>1. PICK c \in Seq(Ctx) : c = context[w] /\ c # <<>>
  BY DEF AskInv
<1>2. c[1] \in Ctx
  BY <1>1
<1>3. c[1].record \in [IndexId -> CacheKey \cup {0}]
  BY <1>2 DEF Ctx, CacheConstants
<1>4. c[1].field # 0 => c[1].record[c[1].field] \in CacheKey
  BY <1>1 DEF AskInv, Pointed
<1> QED
  BY <1>1, <1>2, <1>3, <1>4 DEF X!Key

\* pKeyValue is NULL or comes to point to a field that the record has, and
\* nobody asks for anything.
LEMMA ContextInv ==
  ASSUME CacheConstants, AskInv, NEW w \in Asker, NEW r \in CurrRec, NEW f \in IndexId \cup {0},
         NEW d \in SUBSET HdiId, f # 0 => r[f] \in CacheKey, X!SetContext(w, r, f, d), asking'[w] = <<>>
  PROVE  AskInv'
<1>1. \A v \in Asker : v = w
  BY DEF CacheConstants
<1>2. PICK c \in Ctx : c = [record |-> r, field |-> f, done |-> d] /\ c.record = r /\ c.field = f
  <2>1. [record |-> r, field |-> f, done |-> d] \in Ctx
    BY DEF Ctx
  <2> QED
    BY <2>1
<1>3. <<c>> \in Seq(Ctx) /\ Pointed(<<c>>)
  BY <1>2 DEF Pointed
<1>4. context' = [context EXCEPT ![w] = <<c>>]
  BY <1>2 DEF X!SetContext
<1>5. context' \in [Asker -> Seq(Ctx)] /\ context'[w] = <<c>>
  BY <1>3, <1>4 DEF AskInv
<1> QED
  BY <1>1, <1>3, <1>5 DEF AskInv

\* Every step of the cache keeps CacheInv.
LEMMA CacheStepInv ==
  ASSUME CacheConstants, CacheInv, [X!CacheNext]_(X!cacheVars)
  PROVE  CacheInv'
<1>0. StoreInv /\ AskInv
  BY DEF CacheInv, StoreInv
<1>1. CASE UNCHANGED X!cacheVars
  BY <1>1 DEF CacheInv, StoreInv, AskInv, X!cacheVars
<1>2. ASSUME NEW n \in SizeSet, X!SetMaxSize(n) PROVE CacheInv'
  <2>1. context' = context /\ asking' = asking
    BY <1>2 DEF X!SetMaxSize
  <2> QED
    BY <1>0, <1>2, <2>1, SetMaxSizeInv DEF CacheInv, StoreInv, AskInv
<1>3. ASSUME NEW w \in Asker, X!CacheSet(w) PROVE CacheInv'
  <2>1. StoreInv'
    BY <1>0, <1>3, CacheSetInv
  <2>2. \A v \in Asker : v = w
    BY DEF CacheConstants
  <2>3. PICK ask \in Seq(Ask) : ask = asking[w] /\ ask # <<>>
    BY <1>0, <1>3 DEF StoreInv, X!CacheSet
  <2>4. PICK id : asking' = [asking EXCEPT ![w][1].table = id] /\ context' = context
    BY <1>3 DEF X!CacheSet
  <2>5. asking'[w] = [ask EXCEPT ![1].table = id]
    BY <1>0, <2>3, <2>4 DEF StoreInv
  <2>6. ask[1] \in Ask /\ 1 \in DOMAIN ask
    BY <2>3
  <2>7. asking'[w][1] = [ask[1] EXCEPT !.table = id]
    BY <2>5, <2>6
  <2>8. /\ asking'[w][1].own = asking[w][1].own /\ asking'[w][1].key = asking[w][1].key
        /\ asking'[w][1].item = asking[w][1].item
    BY <2>3, <2>6, <2>7 DEF Ask
  <2>9. AskInv'
    BY <1>0, <2>2, <2>3, <2>4, <2>8 DEF AskInv
  <2> QED
    BY <2>1, <2>9 DEF CacheInv
<1>4. ASSUME NEW w \in Asker, asking[w] # <<>>
      PROVE  /\ asking[w][1].item \in HdiId /\ context[w] # <<>> /\ context[w][1] \in Ctx
             /\ [asking EXCEPT ![w] = <<>>] \in [Asker -> Seq(Ask)]
             /\ \A v \in Asker : v = w
  <2>1. PICK ask \in Seq(Ask) : ask = asking[w] /\ ask # <<>>
    BY <1>0, <1>4 DEF StoreInv
  <2>2. ask[1] \in Ask
    BY <2>1
  <2>3. context[w] # <<>>
    BY <1>0, <1>4 DEF AskInv
  <2>4. context[w][1] \in Ctx
    BY <1>0, <2>3, ContextOf
  <2>5. asking \in [Asker -> Seq(Ask)] /\ <<>> \in Seq(Ask)
    BY <1>0 DEF StoreInv
  <2> QED
    BY <2>1, <2>2, <2>3, <2>4, <2>5 DEF Ask, CacheConstants
<1>5. ASSUME NEW w \in Asker, X!UseValue(w) PROVE CacheInv'
  <2>1. /\ asking[w] # <<>> /\ asking' = [asking EXCEPT ![w] = <<>>]
        /\ UNCHANGED <<list, hash, table, max_size, recent>>
    BY <1>5 DEF X!UseValue
  <2>2. PICK r, f, d : /\ r = context[w][1].record /\ f = context[w][1].field
                       /\ d = context[w][1].done \cup {asking[w][1].item}
    OBVIOUS
  <2>3. X!SetContext(w, r, f, d)
    BY <1>5, <2>2 DEF X!UseValue
  <2>4. context[w] # <<>> /\ r \in CurrRec /\ d \in SUBSET HdiId /\ f \in IndexId \cup {0}
    BY <1>4, <2>1, <2>2 DEF Ctx
  <2>5. f # 0 => r[f] \in CacheKey
    BY <1>0, <2>2, <2>4, ContextOf DEF X!Key
  <2>6. asking' \in [Asker -> Seq(Ask)] /\ \A v \in Asker : asking'[v] = <<>>
    BY <1>0, <1>4, <2>1 DEF StoreInv
  <2>7. AskInv'
    BY <1>0, <2>3, <2>4, <2>5, <2>6, ContextInv
  <2>8. StoreInv'
    BY <1>0, <2>1, <2>6 DEF StoreInv
  <2> QED
    BY <2>7, <2>8 DEF CacheInv
<1>6. ASSUME NEW w \in Asker, NEW ok \in BOOLEAN, X!ComputeValue(w, ok) PROVE CacheInv'
  <2>1. asking[w] # <<>> /\ asking' = [asking EXCEPT ![w] = <<>>]
    BY <1>6 DEF X!ComputeValue
  <2>2. PICK r, x, f, d : /\ r = context[w][1].record /\ x = IndexOf[asking[w][1].item]
                          /\ f = IF r[x] # 0 THEN x ELSE context[w][1].field
                          /\ d = context[w][1].done \cup {asking[w][1].item}
    OBVIOUS
  <2>3. X!SetContext(w, r, f, d)
    BY <1>6, <2>2 DEF X!ComputeValue
  <2>4. context[w] # <<>> /\ r \in CurrRec /\ d \in SUBSET HdiId /\ f \in IndexId \cup {0} /\ x \in IndexId
    BY <1>4, <2>1, <2>2 DEF Ctx, CacheConstants
  <2>5. r \in [IndexId -> CacheKey \cup {0}] /\ (context[w][1].field # 0 => r[context[w][1].field] \in CacheKey)
    BY <1>0, <2>2, <2>4, ContextOf DEF X!Key
  <2>6. f # 0 => r[f] \in CacheKey
    BY <2>2, <2>4, <2>5
  <2>7. asking'[w] = <<>>
    BY <1>0, <2>1 DEF StoreInv
  <2> QED
    BY <1>0, <1>6, <2>3, <2>4, <2>6, <2>7, ContextInv, ComputeValueInv DEF CacheInv
<1>7. ASSUME NEW w \in Asker, NEW h \in HdiId, X!CacheHit(w, h) \/ X!CacheMiss(w, h) PROVE CacheInv'
  <2>1. context[w] # <<>> /\ context[w][1].field # 0 /\ context' = context
    BY <1>7 DEF X!CacheHit, X!CacheMiss, X!Idle, X!Null
  <2>2. PICK k \in CacheKey : k = X!Key(w)
    BY <1>0, <2>1, ContextOf
  <2>3. StoreInv'
    BY <1>0, <1>7, <2>2, CacheHitInv, CacheMissInv
  <2>4. PICK id : id \in 0 .. MaxNode /\ asking' = [asking EXCEPT ![w] = <<X!Request(w, h, id)>>]
    <3>1. hash[k] \in 0 .. MaxNode /\ 0 \in 0 .. MaxNode
      BY <1>0 DEF StoreInv, Chained, CacheConstants
    <3> QED
      BY <1>7, <2>2, <3>1 DEF X!CacheHit, X!CacheMiss
  <2>5. PICK a : a = X!Request(w, h, id) /\ a.key = k /\ a.item = h /\ (a.own <=> context[w][1].field = IndexOf[h])
    BY <2>2, <2>4, RequestIsAsk
  <2>6. asking'[w] = <<a>> /\ <<a>>[1] = a
    BY <1>0, <2>4, <2>5 DEF StoreInv
  <2>7. \A v \in Asker : v = w
    BY DEF CacheConstants
  <2>8. AskInv'
    BY <1>0, <2>1, <2>2, <2>5, <2>6, <2>7 DEF AskInv, X!Key
  <2> QED
    BY <2>3, <2>8 DEF CacheInv
<1>8. ASSUME NEW w \in Asker, NEW r \in CurrRec, X!NewRequest(w, r) PROVE CacheInv'
  <2>1. X!SetContext(w, r, 0, {}) /\ asking'[w] = <<>>
    BY <1>8 DEF X!NewRequest, X!Null
  <2>2. AskInv'
    BY <1>0, <2>1, ContextInv
  <2> QED
    BY <1>0, <1>8, <2>2 DEF X!NewRequest, CacheInv, StoreInv
<1>9. ASSUME NEW w \in Asker, NEW x \in IndexId, X!ComputeOther(w, x) PROVE CacheInv'
  <2>1. /\ context[w] # <<>> /\ context[w][1].record[x] # 0 /\ asking[w] = <<>>
        /\ UNCHANGED <<list, hash, table, max_size, asking, recent>>
    BY <1>9 DEF X!ComputeOther, X!Idle
  <2>2. PICK r, d : r = context[w][1].record /\ d = context[w][1].done
    OBVIOUS
  <2>3. X!SetContext(w, r, x, d) /\ asking'[w] = <<>>
    BY <1>9, <2>1, <2>2 DEF X!ComputeOther
  <2>4. r \in CurrRec /\ d \in SUBSET HdiId /\ r[x] \in CacheKey
    BY <1>0, <2>1, <2>2, ContextOf DEF Ctx
  <2>5. AskInv'
    BY <1>0, <2>3, <2>4, ContextInv
  <2> QED
    BY <1>0, <2>1, <2>5 DEF CacheInv, StoreInv
<1>10. ASSUME NEW w \in Asker, NEW h \in HdiId, X!CacheNull(w, h) PROVE CacheInv'
  BY <1>0, <1>10 DEF X!CacheNull, CacheInv, StoreInv, AskInv
<1> QED
  BY <1>1, <1>2, <1>3, <1>5, <1>6, <1>7, <1>8, <1>9, <1>10 DEF X!CacheNext

\* With one worker, whatever sizes the cache is given: the list and the hash
\* table hold the same keys, as many as the size allows at most, and they
\* are those used last (kr_cache_get, kr_cache_set, kr_cache_evict_n_oldest).
LEMMA KeepsLatest ==
  ASSUME CacheConstants, CacheInv
  PROVE  X!LeastRecentlyUsed
<1>1. Chained(list, hash) /\ recent \in Seq(CacheKey) /\ Latest(list, recent) /\ Len(list) <= max_size
  BY DEF CacheInv, StoreInv
<1>2. /\ Len(list) \in Nat /\ DOMAIN list = 1 .. Len(list)
      /\ \A i \in 1 .. Len(list) : /\ list[i].id \in 1 .. MaxNode /\ list[i].key \in CacheKey
                                   /\ list[i] = [id |-> list[i].id, key |-> list[i].key]
  BY <1>1, NodesOf
<1>3. [i \in DOMAIN list |-> list[i].key] = SubSeq(recent, 1, Len(list))
  <2>1. Len(recent) \in Nat /\ \A i \in 1 .. Len(recent) : recent[i] \in CacheKey
    BY <1>1
  <2>2. \A i \in 1 .. Len(list) : recent[i] \in CacheKey /\ recent[i] = list[i].key
    BY <1>1, <1>2, <2>1 DEF Latest
  <2>3. PICK q : q = SubSeq(recent, 1, Len(list))
    OBVIOUS
  <2>4. /\ q \in Seq(CacheKey) /\ Len(q) = (IF 1 <= Len(list) THEN Len(list) - 1 + 1 ELSE 0)
        /\ \A i \in 1 .. Len(list) - 1 + 1 : q[i] = recent[1 + i - 1]
    BY <1>2, <2>2, <2>3, SubSeqProperties
  <2>5. Len(q) = Len(list) /\ \A i \in 1 .. Len(list) : q[i] = list[i].key
    <3>1. Len(list) - 1 + 1 = Len(list) /\ \A i \in 1 .. Len(list) : 1 + i - 1 = i
      BY <1>2
    <3> QED
      BY <1>2, <2>2, <2>4, <3>1
  <2>6. q = [i \in 1 .. Len(list) |-> q[i]]
    BY <2>4, <2>5
  <2> QED
    BY <1>2, <2>3, <2>5, <2>6
<1>4. ASSUME NEW k \in CacheKey, hash[k] # 0
      PROVE  \E i \in DOMAIN list : list[i] = [id |-> hash[k], key |-> k]
  <2>1. PICK i \in 1 .. Len(list) : list[i].key = k
    BY <1>1, <1>4 DEF Chained
  <2>2. hash[list[i].key] = list[i].id
    BY <1>1 DEF Chained
  <2>3. list[i] = [id |-> hash[k], key |-> k]
    BY <1>2, <2>1, <2>2
  <2> QED
    BY <1>2, <2>3
<1>5. ASSUME NEW k \in CacheKey, NEW i \in DOMAIN list, list[i] = [id |-> hash[k], key |-> k]
      PROVE  hash[k] # 0
  BY <1>2, <1>5
<1> QED
  BY <1>1, <1>3, <1>4, <1>5 DEF X!LeastRecentlyUsed

\* With one worker, a value that was looked up by the field of its own index
\* was computed for the key it is found under, and the table a worker holds is
\* in the cache under its key (kr_hdi_cache_get, kr_hdi_get_value_from_cache).
LEMMA ComputedForKey ==
  ASSUME CacheConstants, CacheInv
  PROVE  X!CachedForKey
<1>1. Chained(list, hash) /\ Computed(list, table) /\ asking \in [Asker -> Seq(Ask)]
  BY DEF CacheInv, StoreInv
<1>2. /\ DOMAIN list = 1 .. Len(list)
      /\ \A i \in 1 .. Len(list) : list[i] = [id |-> list[i].id, key |-> list[i].key]
  BY <1>1, NodesOf
<1>3. ASSUME NEW w \in Asker, asking[w] # <<>>, asking[w][1].table # 0
      PROVE  [id |-> asking[w][1].table, key |-> asking[w][1].key] \in X!ToSet(list)
  <2>1. PICK ask \in Seq(Ask) : ask = asking[w] /\ ask # <<>>
    BY <1>1, <1>3
  <2>2. PICK a \in Ask : a = asking[w][1]
    BY <2>1
  <2>3. hash[a.key] = a.table /\ a.key \in CacheKey
    BY <1>3, <2>2 DEF CacheInv, StoreInv, Ask
  <2>4. PICK i \in 1 .. Len(list) : list[i].key = a.key
    BY <1>1, <1>3, <2>2, <2>3 DEF Chained
  <2>5. hash[list[i].key] = list[i].id
    BY <1>1 DEF Chained
  <2>6. list[i] = [id |-> a.table, key |-> a.key]
    BY <1>2, <2>3, <2>4, <2>5
  <2> QED
    BY <1>2, <2>2, <2>6 DEF X!ToSet
<1> QED
  BY <1>1, <1>2, <1>3 DEF X!CachedForKey, Computed

-----------------------------------------------------------------------------
(***************************************************************************)
(* The loaders.                                                            *)
(***************************************************************************)

\* What a loader has stored when it is through with rows of kind k.
Final(k, rows) == [i \in 1 .. Len(rows) |-> L!Whole(k, rows[i])]

IsFrame(f) ==
  /\ f = [cur |-> f.cur, left |-> f.left, rows |-> f.rows, ret |-> f.ret, loop |-> f.loop, due |-> f.due]
  /\ f.loop \in BOOLEAN /\ f.due \in BOOLEAN

\* Loader f reads src and is to store fin: unless a call failed, what is
\* stored is the beginning of fin, but for the rules that are due, and what
\* is left is the rest of src.
Reading(f, S, src, fin) ==
  /\ IsFrame(f)
  /\ f.ret \in {0, -1} /\ (f.loop => f.ret = 0) /\ (f.due => f.loop)
  /\ f.ret = 0 =>
       /\ f.left \in Seq(S) /\ f.rows \in Seq(S)
       /\ Len(f.rows) + Len(f.left) = Len(src)
       /\ \A i \in 1 .. Len(f.left) : f.left[i] = src[Len(f.rows) + i]
       /\ \A i \in 1 .. Len(f.rows) :
            f.rows[i] = IF f.due /\ i = Len(f.rows) THEN [fin[i] EXCEPT !.sub = <<>>] ELSE fin[i]
       /\ f.due => f.rows # <<>>
       /\ ~f.loop => f.left = <<>>
       /\ Len(f.rows) <= N_MAX[f.cur]

\* Section sec holds the definitions of kind k of database d.
Loaded(sec, k, d) == Len(sec.rows) <= N_MAX[k] /\ sec.rows = Final(k, d[k])

\* The loader of definitions runs.
DefsRun(f) ==
  /\ frames = <<f>>
  /\ f.cur = L!Kind /\ (f.due => L!Kind = "group")
  /\ Reading(f, Row, db[L!Kind], Final(L!Kind, db[L!Kind]))

\* The loader of groups runs, and that of the rules of the group read last.
RulesRun(f, g) ==
  /\ frames = <<f, g>>
  /\ L!Kind = "group" /\ f.cur = "group" /\ f.due
  /\ Reading(f, Row, db["group"], Final("group", db["group"]))
  /\ g.cur = "rule" /\ ~g.due
  /\ Reading(g, SubRow, db["group"][Len(f.rows)].sub, db["group"][Len(f.rows)].sub)

\* The kinds before this one are in the standby section.
KindsBefore ==
  \A j \in 1 .. at - 1 : /\ Loaded(shm[L!Back][L!Kinds[j]], L!Kinds[j], db)
                         /\ shm[L!Back][L!Kinds[j]].time = loadTime

Loading == KindsBefore /\ (frames = <<>> \/ (\E f : DefsRun(f)) \/ (\E f, g : RulesRun(f, g)))

\* The elements of the next set are read.
SetRun(f) ==
  /\ frames = <<f>> /\ IsFrame(f) /\ f.cur = "element" /\ ~f.due
  /\ at = 1 /\ L!Outdated /\ Len(sets) < Len(L!Source.rows)

\* The sets compiled so far are the first of the section's.
Checking ==
  /\ inForce # <<>>
  /\ at = 1 => /\ \E S : sets \in Seq(S)
               /\ Len(sets) <= Len(L!Source.rows)
               /\ \A i \in 1 .. Len(sets) : sets[i].id = L!Source.rows[i].id
  /\ frames = <<>> \/ \E f : SetRun(f)

\* A table has an item for each of the rows, under its id, and the rules.
Compiled(k, items, rows) ==
  /\ DOMAIN items = 1 .. Len(rows) /\ Len(items) = Len(rows)
  /\ \A i \in 1 .. Len(rows) :
       /\ items[i].id = rows[i].id
       /\ k = "group" => /\ DOMAIN items[i].sub = 1 .. Len(rows[i].sub)
                         /\ \A j \in 1 .. Len(rows[i].sub) : items[i].sub[j].id = rows[i].sub[j].id

\* A time before this load, if there is one, or not after the last.
Past(t) == t \in Nat /\ t <= loadTime /\ (job = "load" => t < loadTime)

\* The active section is that of the last good load.
InForce ==
  /\ inForce = <<>> => \A k \in KindSet : dym[k] = <<>>
  /\ inForce # <<>> => /\ inForce[1] \in Database
                       /\ \A k \in KindSet : /\ Loaded(shm[nSecId][k], k, inForce[1])
                                             /\ Past(shm[nSecId][k].time)
  /\ \A k \in KindSet : dym[k] # <<>> =>
       /\ Past(dym[k][1].time)
       /\ dym[k][1].time = shm[nSecId][k].time => Compiled(k, dym[k][1].items, shm[nSecId][k].rows)

\* The inductive invariant of the loaders.
LoadInv ==
  /\ db \in Database /\ loadTime \in Nat /\ nSecId \in {0, 1} /\ at \in 1 .. 5
  /\ shm = [s \in {0, 1} |-> [k \in KindSet |-> shm[s][k]]]
  /\ dym = [k \in KindSet |-> dym[k]]
  /\ handles \in Int /\ lost \in Int /\ L!CursorsClosed
  /\ job \in {"idle", "load", "check"}
  /\ job = "idle" => frames = <<>> /\ at = 1
  /\ job = "load" => Loading
  /\ job = "check" => Checking
  /\ InForce

LEMMA KindsOf ==
  /\ L!Range(L!Kinds) = KindSet /\ Len(L!Kinds) = 5
  /\ \A j \in 1 .. 5 : L!Kinds[j] \in KindSet
  /\ \A k \in KindSet : \E j \in 1 .. 5 : L!Kinds[j] = k
  /\ \A i, j \in 1 .. 5 : L!Kinds[i] = L!Kinds[j] => i = j
  /\ L!Kinds[1] = "set" /\ L!Kinds[5] = "group"
<1>1. /\ DOMAIN L!Kinds = 1 .. 5 /\ Len(L!Kinds) = 5
      /\ L!Kinds[1] = "set" /\ L!Kinds[2] = "sdi" /\ L!Kinds[3] = "ddi" /\ L!Kinds[4] = "hdi" /\ L!Kinds[5] = "group"
  BY DEF L!Kinds
<1>2. \A j \in 1 .. 5 : j = 1 \/ j = 2 \/ j = 3 \/ j = 4 \/ j = 5
  OBVIOUS
<1>3. 1 \in 1 .. 5 /\ 2 \in 1 .. 5 /\ 3 \in 1 .. 5 /\ 4 \in 1 .. 5 /\ 5 \in 1 .. 5
  OBVIOUS
<1>4. \A j \in 1 .. 5 : L!Kinds[j] \in KindSet
  BY <1>1, <1>2 DEF KindSet
<1>5. \A k \in KindSet : \E j \in 1 .. 5 : L!Kinds[j] = k
  BY <1>1, <1>3 DEF KindSet
<1>6. \A i, j \in 1 .. 5 : L!Kinds[i] = L!Kinds[j] => i = j
  BY <1>1, <1>2
<1>7. L!Range(L!Kinds) = KindSet
  BY <1>1, <1>4, <1>5 DEF L!Range
<1> QED
  BY <1>1, <1>4, <1>5, <1>6, <1>7

\* One loader, or a loader and one inside it.
LEMMA OneFrame ==
  ASSUME NEW f, frames = <<f>>
  PROVE  /\ Len(frames) = 1 /\ frames # <<>> /\ L!Running /\ L!Top = f
         /\ \A h : L!SetTop(h) => frames' = <<h>>
         /\ \A h : Append(frames, h) = <<f, h>>
         /\ \A h, g : frames # <<h, g>>
<1>0. PICK S : S = {f}
  OBVIOUS
<1>1. PICK q : q = <<f>> /\ q \in Seq(S)
  <2>1. <<f>> \in Seq(S)
    BY <1>0
  <2> QED
    BY <2>1
<1>2. Len(q) = 1 /\ q[1] = f /\ q # <<>>
  BY <1>1
<1>3. \A h : [q EXCEPT ![1] = h] = <<h>>
  BY <1>1
<1>4. ASSUME NEW h
      PROVE  Append(q, h) = <<f, h>>
  <2>1. PICK T : f \in T /\ h \in T
    <3>1. f \in {f, h} /\ h \in {f, h}
      OBVIOUS
    <3> QED
      BY <3>1
  <2>2. q \in Seq(T)
    BY <1>1, <2>1
  <2>3. /\ Append(q, h) \in Seq(T) /\ Len(Append(q, h)) = 2
        /\ Append(q, h)[1] = f /\ Append(q, h)[2] = h
    <3>1. /\ Append(q, h) \in Seq(T) /\ Len(Append(q, h)) = Len(q) + 1
          /\ \A i \in 1 .. Len(q) : Append(q, h)[i] = q[i]
          /\ Append(q, h)[Len(q) + 1] = h
      BY <2>1, <2>2, AppendProperties
    <3>2. Len(q) + 1 = 2 /\ 1 \in 1 .. Len(q)
      BY <1>2
    <3> QED
      BY <1>2, <3>1, <3>2
  <2>4. <<f, h>> \in Seq(T) /\ Len(<<f, h>>) = 2 /\ <<f, h>>[1] = f /\ <<f, h>>[2] = h
    BY <2>1
  <2>5. \A i \in 1 .. 2 : i = 1 \/ i = 2
    OBVIOUS
  <2> QED
    BY <2>3, <2>4, <2>5, SeqEqual
<1>5. \A h, g : Len(<<h, g>>) = 2
  OBVIOUS
<1> QED
  BY <1>1, <1>2, <1>3, <1>4, <1>5 DEF L!Running, L!Top, L!SetTop

LEMMA TwoFrames ==
  ASSUME NEW f, NEW g, frames = <<f, g>>
  PROVE  /\ Len(frames) = 2 /\ frames # <<>> /\ L!Running /\ L!Top = g
         /\ frames[Len(frames) - 1] = f
         /\ \A h : L!SetTop(h) => frames' = <<f, h>>
         /\ \A h : Append(SubSeq(frames, 1, Len(frames) - 2), h) = <<h>>
<1>1. PICK q \in Seq({f, g}) : q = <<f, g>>
  OBVIOUS
<1>2. Len(q) = 2 /\ q[1] = f /\ q[2] = g /\ q # <<>>
  BY <1>1
<1>3. \A h : [q EXCEPT ![2] = h] = <<f, h>>
  BY <1>1
<1>4. SubSeq(q, 1, 0) = <<>>
  BY SubSeqEmpty
<1>5. \A h : Append(<<>>, h) = <<h>>
  OBVIOUS
<1>6. Len(frames) = 2 /\ Len(frames) - 1 = 1 /\ Len(frames) - 2 = 0
  BY <1>1, <1>2
<1> QED
  BY <1>1, <1>2, <1>3, <1>4, <1>5, <1>6 DEF L!Running, L!Top, L!SetTop

\* A row is fetched and stored: what is left and what is stored.
LEMMA ReadRowData ==
  ASSUME NEW S, NEW src, Len(src) \in Nat, NEW fin, NEW left \in Seq(S), NEW rows \in Seq(S), left # <<>>,
         Len(rows) + Len(left) = Len(src),
         \A i \in 1 .. Len(left) : left[i] = src[Len(rows) + i],
         \A i \in 1 .. Len(rows) : rows[i] = fin[i],
         NEW x \in S, NEW l, l = Tail(left), NEW r, r = Append(rows, x)
  PROVE  /\ l \in Seq(S) /\ r \in Seq(S) /\ r # <<>> /\ Len(r) = Len(rows) + 1 /\ Len(rows) \in Nat
         /\ Len(r) + Len(l) = Len(src)
         /\ \A i \in 1 .. Len(l) : l[i] = src[Len(r) + i]
         /\ \A i \in 1 .. Len(r) : r[i] = IF i = Len(r) THEN x ELSE fin[i]
<1>1. l \in Seq(S) /\ Len(left) \in Nat /\ Len(l) = Len(left) - 1 /\ \A i \in 1 .. Len(l) : l[i] = left[i + 1]
  OBVIOUS
<1>2. /\ r \in Seq(S) /\ Len(rows) \in Nat /\ Len(r) = Len(rows) + 1
      /\ r[Len(rows) + 1] = x /\ \A i \in 1 .. Len(rows) : r[i] = rows[i]
  OBVIOUS
<1>3. Len(r) + Len(l) = Len(src)
  BY <1>1, <1>2
<1>4. ASSUME NEW i \in 1 .. Len(l)
      PROVE  l[i] = src[Len(r) + i]
  <2>1. i + 1 \in 1 .. Len(left) /\ Len(rows) + (i + 1) = Len(r) + i
    BY <1>1, <1>2
  <2>2. left[i + 1] = src[Len(rows) + (i + 1)]
    BY <2>1
  <2> QED
    BY <1>1, <2>1, <2>2
<1>5. ASSUME NEW i \in 1 .. Len(r)
      PROVE  r[i] = IF i = Len(r) THEN x ELSE fin[i]
  <2>1. i = Len(r) \/ i \in 1 .. Len(rows)
    BY <1>2
  <2> QED
    BY <1>2, <2>1
<1>6. r # <<>>
  BY <1>2
<1> QED
  BY <1>1, <1>2, <1>3, <1>4, <1>5, <1>6

\* The frame of a loader after it stored x, and x itself: a group is stored
\* without its rules.
Fetched(f, x, due) == [f EXCEPT !.left = Tail(@), !.due = due, !.rows = Append(@, x)]

Bare(row, due) == IF due THEN [row EXCEPT !.sub = <<>>] ELSE row

\* A row is fetched and stored: the loader.
LEMMA ReadRow ==
  ASSUME LoadConstants, NEW f, NEW S, NEW src, NEW fin, Reading(f, S, src, fin), Len(src) \in Nat,
         f.loop, ~f.due, f.left # <<>>, Len(f.rows) < N_MAX[f.cur], f.cur \in KindSet \cup {"rule"},
         NEW x \in S, NEW due \in BOOLEAN,
         x = Bare(fin[Len(f.rows) + 1], due), NEW h, h = Fetched(f, x, due)
  PROVE  Reading(h, S, src, fin) /\ h.cur = f.cur /\ (h.due <=> due)
<1>0. /\ IsFrame(f) /\ f.ret = 0 /\ f.left \in Seq(S) /\ f.rows \in Seq(S)
      /\ Len(f.rows) + Len(f.left) = Len(src)
      /\ \A i \in 1 .. Len(f.left) : f.left[i] = src[Len(f.rows) + i]
      /\ \A i \in 1 .. Len(f.rows) : f.rows[i] = fin[i]
  BY DEF Reading
<1>4. PICK l, r : l = Tail(f.left) /\ r = Append(f.rows, x)
  OBVIOUS
<1>1. h = [cur |-> f.cur, left |-> l, rows |-> r, ret |-> 0, loop |-> TRUE, due |-> due]
  BY <1>0, <1>4 DEF IsFrame, Fetched
<1>2. h.cur = f.cur /\ h.ret = 0
  BY ONLY <1>1
<1>8. h.left = l /\ h.rows = r
  BY ONLY <1>1
<1>3. h.loop = TRUE
  BY <1>1
<1>a. h.due = due
  BY ONLY <1>1, Zenon
<1>b. IsFrame(h)
  BY <1>1, <1>2, <1>3, <1>8, <1>a DEF IsFrame
<1>5. /\ l \in Seq(S) /\ r \in Seq(S) /\ r # <<>> /\ Len(r) = Len(f.rows) + 1 /\ Len(f.rows) \in Nat
      /\ Len(r) + Len(l) = Len(src)
      /\ \A i \in 1 .. Len(l) : l[i] = src[Len(r) + i]
      /\ \A i \in 1 .. Len(r) : r[i] = IF i = Len(r) THEN x ELSE fin[i]
  <2>1. PICK left \in Seq(S), rows \in Seq(S) : left = f.left /\ rows = f.rows
    BY <1>0
  <2>2. /\ left # <<>> /\ Len(rows) + Len(left) = Len(src)
        /\ \A i \in 1 .. Len(left) : left[i] = src[Len(rows) + i]
        /\ \A i \in 1 .. Len(rows) : rows[i] = fin[i]
        /\ l = Tail(left) /\ r = Append(rows, x) /\ Len(src) \in Nat /\ x \in S
    BY <1>0, <1>4, <2>1
  <2>3. /\ l \in Seq(S) /\ r \in Seq(S) /\ r # <<>> /\ Len(r) = Len(rows) + 1 /\ Len(rows) \in Nat
        /\ Len(r) + Len(l) = Len(src)
        /\ \A i \in 1 .. Len(l) : l[i] = src[Len(r) + i]
        /\ \A i \in 1 .. Len(r) : r[i] = IF i = Len(r) THEN x ELSE fin[i]
    BY ONLY <2>2, left \in Seq(S), rows \in Seq(S), ReadRowData
  <2> QED
    BY <2>1, <2>3
<1>6. \A i \in 1 .. Len(r) : r[i] = IF due /\ i = Len(r) THEN [fin[i] EXCEPT !.sub = <<>>] ELSE fin[i]
  BY <1>5 DEF Bare
<1>7. Len(r) <= N_MAX[f.cur]
  <2>1. N_MAX[f.cur] \in Nat
    BY DEF LoadConstants
  <2> QED
    BY <1>5, <2>1
<1>9. /\ h.left \in Seq(S) /\ h.rows \in Seq(S)
      /\ Len(h.rows) + Len(h.left) = Len(src)
      /\ \A i \in 1 .. Len(h.left) : h.left[i] = src[Len(h.rows) + i]
      /\ \A i \in 1 .. Len(h.rows) :
           h.rows[i] = IF h.due /\ i = Len(h.rows) THEN [fin[i] EXCEPT !.sub = <<>>] ELSE fin[i]
      /\ h.rows # <<>> /\ Len(h.rows) <= N_MAX[h.cur]
  BY <1>2, <1>5, <1>6, <1>7, <1>8, <1>a, Zenon
<1>10. h.ret \in {0, -1} /\ h.loop /\ h.ret = 0
  BY <1>2, <1>3
<1>11. Reading(h, S, src, fin)
  BY <1>9, <1>10, <1>b, Zenon DEF Reading
<1> QED
  BY <1>2, <1>11, <1>a

\* The loop ends after the last row, or with an error.
LEMMA ReadStops ==
  ASSUME NEW f, IsFrame(f), f.loop, ~f.due, NEW h,
         \/ f.left = <<>> /\ h = [f EXCEPT !.loop = FALSE]
         \/ h = [f EXCEPT !.loop = FALSE, !.ret = -1]
  PROVE  /\ IsFrame(h) /\ h.cur = f.cur /\ ~h.due
         /\ \A S, src, fin : Reading(f, S, src, fin) => Reading(h, S, src, fin)
<1>1. CASE f.left = <<>> /\ h = [f EXCEPT !.loop = FALSE]
  <2>1. h = [cur |-> f.cur, left |-> f.left, rows |-> f.rows, ret |-> f.ret, loop |-> FALSE, due |-> FALSE]
    BY <1>1 DEF IsFrame
  <2>2. h.cur = f.cur /\ h.left = f.left /\ h.rows = f.rows /\ h.ret = f.ret /\ h.loop = FALSE /\ h.due = FALSE
    BY <2>1
  <2>3. IsFrame(h)
    BY <2>1, <2>2 DEF IsFrame
  <2>4. ASSUME NEW S, NEW src, NEW fin, Reading(f, S, src, fin)
        PROVE  Reading(h, S, src, fin)
    BY <1>1, <2>2, <2>3, <2>4, ZenonT(40) DEF Reading
  <2> QED
    BY <2>2, <2>3, <2>4
<1>2. CASE h = [f EXCEPT !.loop = FALSE, !.ret = -1]
  <2>1. h = [cur |-> f.cur, left |-> f.left, rows |-> f.rows, ret |-> -1, loop |-> FALSE, due |-> FALSE]
    BY <1>2 DEF IsFrame
  <2>2. h.cur = f.cur /\ h.ret = -1 /\ h.loop = FALSE /\ h.due = FALSE
    BY <2>1
  <2>3. IsFrame(h)
    BY <2>1, <2>2 DEF IsFrame
  <2>4. ASSUME NEW S, NEW src, NEW fin
        PROVE  Reading(h, S, src, fin)
    <3>1. h.ret # 0 /\ h.ret \in {0, -1}
      BY <2>2
    <3> QED
      BY <2>2, <2>3, <3>1 DEF Reading
  <2> QED
    BY <2>2, <2>3, <2>4
<1> QED
  BY <1>1, <1>2

\* A loader that has just opened its cursor.
LEMMA ReadBegins ==
  ASSUME LoadConstants, NEW S, NEW src \in Seq(S), NEW fin, NEW cur \in KindSet \cup {"rule"}
  PROVE  /\ Reading(L!Frame(cur, src), S, src, fin)
         /\ L!Frame(cur, src).cur = cur /\ ~L!Frame(cur, src).due
<1>1. PICK h : h = L!Frame(cur, src)
  OBVIOUS
<1>2. h = [cur |-> cur, left |-> src, rows |-> <<>>, ret |-> 0, loop |-> TRUE, due |-> FALSE]
  BY <1>1 DEF L!Frame
<1>3. h.cur = cur /\ h.left = src /\ h.rows = <<>> /\ h.ret = 0 /\ h.loop = TRUE /\ h.due = FALSE
  BY <1>2
<1>4. IsFrame(h)
  BY <1>2, <1>3 DEF IsFrame
<1>5. Len(<<>>) = 0 /\ <<>> \in Seq(S) /\ Len(src) \in Nat /\ N_MAX[cur] \in Nat /\ 1 .. 0 = {}
  BY DEF LoadConstants
<1>6. \A i \in 1 .. Len(src) : 0 + i = i
  BY <1>5
<1> QED
  BY <1>1, <1>3, <1>4, <1>5, <1>6 DEF Reading

\* Which loader runs.
LEMMA LoaderOf ==
  ASSUME LoadInv, L!Running
  PROVE  \/ job = "load" /\ \E f : DefsRun(f)
         \/ job = "load" /\ \E f, g : RulesRun(f, g)
         \/ job = "check" /\ \E f : SetRun(f)
<1>1. frames # <<>> /\ job \in {"idle", "load", "check"} /\ (job = "idle" => frames = <<>>)
  BY DEF LoadInv, L!Running
<1>2. CASE job = "load"
  BY <1>1, <1>2 DEF LoadInv, Loading
<1>3. CASE job = "check"
  BY <1>1, <1>3 DEF LoadInv, Checking
<1> QED
  BY <1>1, <1>2, <1>3

\* The section in force does not change while time goes on, and tables are
\* kept, given up or compiled from it.
LEMMA InForceKept ==
  ASSUME InForce, UNCHANGED <<inForce, nSecId>>,
         \A k \in KindSet : shm'[nSecId][k] = shm[nSecId][k],
         loadTime \in Nat, loadTime' \in Nat, loadTime <= loadTime',
         job' = "load" => job = "load" \/ loadTime < loadTime',
         \A k \in KindSet :
           \/ dym'[k] = <<>> \/ dym'[k] = dym[k]
           \/ /\ inForce # <<>> /\ dym'[k][1].time = shm[nSecId][k].time
              /\ Compiled(k, dym'[k][1].items, shm[nSecId][k].rows)
  PROVE  InForce'
<1>1. \A t : Past(t) => t \in Nat /\ t <= loadTime' /\ (job' = "load" => t < loadTime')
  BY DEF Past
<1>2. inForce' = inForce /\ nSecId' = nSecId
  OBVIOUS
<1>3. ASSUME inForce # <<>>, NEW k \in KindSet
      PROVE  Loaded(shm[nSecId][k], k, inForce[1])' /\ Past(shm[nSecId][k].time)'
  <2>1. PICK sec, d : sec = shm[nSecId][k] /\ d = inForce[1]
    OBVIOUS
  <2>2. Loaded(sec, k, d) /\ Past(sec.time)
    BY <1>3, <2>1 DEF InForce
  <2>3. sec = shm'[nSecId'][k] /\ d = inForce'[1]
    BY <1>2, <2>1
  <2>4. sec.time \in Nat /\ sec.time <= loadTime' /\ (job' = "load" => sec.time < loadTime')
    BY <1>1, <2>2
  <2> QED
    BY <2>2, <2>3, <2>4 DEF Loaded, Past
<1>4. ASSUME NEW k \in KindSet, dym'[k] # <<>>
      PROVE  /\ Past(dym[k][1].time)'
             /\ (dym[k][1].time = shm[nSecId][k].time => Compiled(k, dym[k][1].items, shm[nSecId][k].rows))'
  <2>1. PICK sec, t : sec = shm[nSecId][k] /\ t = dym'[k][1]
    OBVIOUS
  <2>2. Past(t.time) /\ (t.time = sec.time => Compiled(k, t.items, sec.rows))
    <3>1. CASE dym'[k] = dym[k]
      BY <1>4, <2>1, <3>1 DEF InForce
    <3>2. CASE dym'[k] # dym[k]
      <4>1. inForce # <<>> /\ t.time = sec.time /\ Compiled(k, t.items, sec.rows)
        BY <1>4, <2>1, <3>2
      <4>2. Past(sec.time)
        BY <2>1, <4>1 DEF InForce
      <4> QED
        BY <4>1, <4>2
    <3> QED
      BY <3>1, <3>2
  <2>3. sec = shm'[nSecId'][k] /\ t = dym'[k][1]
    BY <1>2, <2>1
  <2>4. t.time \in Nat /\ t.time <= loadTime' /\ (job' = "load" => t.time < loadTime')
    BY <1>1, <2>2
  <2> QED
    BY <2>2, <2>3, <2>4, SMTT(40) DEF Compiled, Past
<1>5. (inForce = <<>> => \A k \in KindSet : dym[k] = <<>>)'
  BY <1>2 DEF InForce
<1>6. (inForce # <<>> => inForce[1] \in Database)'
  BY <1>2 DEF InForce
<1> QED
  BY <1>2, <1>3, <1>4, <1>5, <1>6 DEF InForce

\* A step of the loaders alone.
LEMMA FramesStep ==
  ASSUME LoadInv, job # "idle", UNCHANGED <<db, shm, nSecId, loadTime, job, at, dym, sets, inForce>>,
         handles' \in Int, lost' \in Int, handles' = Len(frames') + lost',
         job = "load" => (\E f : DefsRun(f)') \/ (\E f, g : RulesRun(f, g)'),
         job = "check" => \E f : SetRun(f)'
  PROVE  LoadInv'
<1>2. InForce'
  <2>1. InForce /\ loadTime \in Nat
    BY DEF LoadInv
  <2> QED
    BY <2>1, InForceKept
<1>3. KindsBefore => KindsBefore'
  BY DEF KindsBefore, Loaded, L!Back
<1>4. job = "load" => Loading'
  BY <1>3 DEF LoadInv, Loading
<1>5. job = "check" => Checking'
  BY DEF LoadInv, Checking, L!Source, L!Kind
<1> QED
  BY <1>2, <1>4, <1>5 DEF LoadInv, L!CursorsClosed

\* A step of a loader in its loop.
LEMMA LoopStep ==
  ASSUME LoadInv, L!Running, L!InLoop, Len(frames') = Len(frames),
         job = "load" => (\E f : DefsRun(f)') \/ (\E f, g : RulesRun(f, g)'),
         job = "check" => \E f : SetRun(f)'
  PROVE  LoadInv'
<1>1. UNCHANGED <<db, shm, nSecId, loadTime, job, at, dym, sets, handles, lost, inForce>>
  BY DEF L!InLoop
<1>2. handles' \in Int /\ lost' \in Int /\ handles' = Len(frames') + lost'
  BY <1>1 DEF LoadInv, L!CursorsClosed
<1>3. job # "idle"
  BY LoaderOf
<1> QED
  BY <1>1, <1>2, <1>3, FramesStep

\* The loop of a loader ends, with an error or not; a set refuses an element.
LEMMA StopsInv ==
  ASSUME LoadInv, L!Fetching, L!InLoop, NEW h, L!SetTop(h),
         \/ L!Top.left = <<>> /\ h = [L!Top EXCEPT !.loop = FALSE]
         \/ h = [L!Top EXCEPT !.loop = FALSE, !.ret = -1]
  PROVE  LoadInv'
<1>1. L!Running /\ L!Top.loop /\ ~L!Top.due
  BY DEF L!Fetching
<1>2. UNCHANGED <<db, shm, nSecId, loadTime, job, at, dym, sets, inForce>>
  BY DEF L!InLoop
<1>3. ASSUME IsFrame(L!Top)
      PROVE  /\ IsFrame(h) /\ h.cur = L!Top.cur /\ ~h.due
             /\ \A S, src, fin : Reading(L!Top, S, src, fin) => Reading(h, S, src, fin)
  BY <1>1, <1>3, ReadStops
<1>4. ASSUME NEW f, DefsRun(f), job = "load"
      PROVE  LoadInv'
  <2>1. frames = <<f>> /\ L!Top = f /\ frames' = <<h>> /\ Len(frames) = 1
    BY <1>4, OneFrame DEF DefsRun
  <2>2. Len(frames') = 1
    BY <2>1
  <2>3. Reading(h, Row, db[L!Kind], Final(L!Kind, db[L!Kind])) /\ h.cur = L!Kind /\ ~h.due
    <3>1. IsFrame(f)
      BY <1>4 DEF DefsRun, Reading
    <3> QED
      BY <1>3, <1>4, <2>1, <3>1 DEF DefsRun
  <2>4. DefsRun(h)'
    BY <1>2, <2>1, <2>3 DEF DefsRun, L!Kind
  <2> QED
    BY <1>1, <1>4, <2>1, <2>2, <2>4, LoopStep
<1>5. ASSUME NEW f, NEW g, RulesRun(f, g), job = "load"
      PROVE  LoadInv'
  <2>1. frames = <<f, g>> /\ L!Top = g /\ frames' = <<f, h>> /\ Len(frames) = 2
    BY <1>5, TwoFrames DEF RulesRun
  <2>2. Len(frames') = 2
    BY <2>1
  <2>3. Reading(h, SubRow, db["group"][Len(f.rows)].sub, db["group"][Len(f.rows)].sub) /\ h.cur = "rule" /\ ~h.due
    <3>1. IsFrame(g)
      BY <1>5 DEF RulesRun, Reading
    <3> QED
      BY <1>3, <1>5, <2>1, <3>1 DEF RulesRun
  <2>4. RulesRun(f, h)'
    BY <1>2, <1>5, <2>1, <2>3 DEF RulesRun, L!Kind
  <2> QED
    BY <1>1, <1>5, <2>1, <2>2, <2>4, LoopStep
<1>6. ASSUME NEW f, SetRun(f), job = "check"
      PROVE  LoadInv'
  <2>1. frames = <<f>> /\ L!Top = f /\ frames' = <<h>> /\ Len(frames) = 1
    BY <1>6, OneFrame DEF SetRun
  <2>2. Len(frames') = 1
    BY <2>1
  <2>3. IsFrame(h) /\ h.cur = "element" /\ ~h.due
    BY <1>3, <1>6, <2>1 DEF SetRun
  <2>4. SetRun(h)'
    BY <1>2, <1>6, <2>1, <2>3 DEF SetRun, L!Kind, L!Source, L!Outdated
  <2> QED
    BY <1>1, <1>6, <2>1, <2>2, <2>4, LoopStep
<1> QED
  BY <1>1, <1>4, <1>5, <1>6, LoaderOf

\* The database a load reads.
LEMMA DbRows ==
  ASSUME LoadConstants, LoadInv, NEW k \in KindSet
  PROVE  /\ db[k] \in Seq(Row) /\ Len(db[k]) \in Nat /\ DOMAIN db[k] = 1 .. Len(db[k])
         /\ \A i \in 1 .. Len(db[k]) : db[k][i] \in Row
         /\ \A i \in 1 .. Len(db[k]) : Final(k, db[k])[i] = L!Whole(k, db[k][i])
<1>1. db[k] \in Seq(Row)
  BY DEF LoadConstants, LoadInv
<1>2. PICK q \in Seq(Row) : q = db[k]
  BY <1>1
<1>3. Len(q) \in Nat /\ DOMAIN q = 1 .. Len(q) /\ \A i \in 1 .. Len(q) : q[i] \in Row
  OBVIOUS
<1>4. \A i \in 1 .. Len(q) : Final(k, q)[i] = L!Whole(k, q[i])
  BY DEF Final
<1> QED
  BY <1>2, <1>3, <1>4

\* What is stored of a row, and what it is in the end.
LEMMA RowStored ==
  ASSUME NEW row \in Row, NEW k
  PROVE  /\ L!Stored(k, row) \in Row /\ L!Whole(k, row) \in Row /\ L!Whole(k, row).id = row.id
         /\ k # "group" => L!Stored(k, row) = L!Whole(k, row)
         /\ k = "group" => L!Whole(k, row) = row /\ L!Stored(k, row) = [row EXCEPT !.sub = <<>>]
         /\ k = "group" => L!Stored(k, row) = [L!Whole(k, row) EXCEPT !.sub = <<>>]
         /\ [row EXCEPT !.sub = <<>>].id = row.id
         /\ [[row EXCEPT !.sub = <<>>] EXCEPT !.sub = row.sub] = row
<1>1. [row EXCEPT !.sub = <<>>] \in Row /\ [row EXCEPT !.sub = <<>>].id = row.id
  <2>1. \A A, B, C, D : \A r \in [id : A, calc : B, func : C, sub : D] : \A e \in D :
          [r EXCEPT !.sub = e] \in [id : A, calc : B, func : C, sub : D] /\ [r EXCEPT !.sub = e].id = r.id
    OBVIOUS
  <2>2. <<>> \in Seq(SubRow)
    OBVIOUS
  <2> QED
    BY <2>1, <2>2, Zenon DEF Row
<1>2. PICK a, b, c, d : row = [id |-> a, calc |-> b, func |-> c, sub |-> d]
  <2>1. \A A, B, C, D : \A r \in [id : A, calc : B, func : C, sub : D] :
          r = [id |-> r.id, calc |-> r.calc, func |-> r.func, sub |-> r.sub]
    OBVIOUS
  <2>2. row = [id |-> row.id, calc |-> row.calc, func |-> row.func, sub |-> row.sub]
    BY <2>1, Zenon DEF Row
  <2> QED
    BY <2>2, Zenon
<1>3. row.sub = d /\ [row EXCEPT !.sub = <<>>] = [id |-> a, calc |-> b, func |-> c, sub |-> <<>>]
  BY ONLY <1>2
<1>4. [[id |-> a, calc |-> b, func |-> c, sub |-> <<>>] EXCEPT !.sub = d] = [id |-> a, calc |-> b, func |-> c, sub |-> d]
  OBVIOUS
<1>5. [[row EXCEPT !.sub = <<>>] EXCEPT !.sub = row.sub] = row
  BY <1>2, <1>3, <1>4, Zenon
<1> QED
  BY <1>1, <1>5 DEF L!Stored, L!Whole

LEMMA KindOf ==
  ASSUME LoadInv
  PROVE  L!Kind \in KindSet /\ (L!Kind = "set" <=> at = 1) /\ (at = 5 => L!Kind = "group")
<1>1. at \in 1 .. 5 /\ 1 \in 1 .. 5
  BY DEF LoadInv
<1> QED
  BY <1>1, KindsOf DEF L!Kind

\* The first of what is left is the next row of the source.
LEMMA NextRow ==
  ASSUME NEW f, NEW S, NEW src, NEW fin, Reading(f, S, src, fin), Len(src) \in Nat, f.loop, f.left # <<>>
  PROVE  /\ Len(f.rows) \in Nat /\ Len(f.rows) + 1 \in 1 .. Len(src)
         /\ Head(f.left) = src[Len(f.rows) + 1]
<1>1. PICK left \in Seq(S), rows \in Seq(S) :
        /\ left = f.left /\ rows = f.rows
        /\ Len(rows) + Len(left) = Len(src)
        /\ \A i \in 1 .. Len(left) : left[i] = src[Len(rows) + i]
  BY DEF Reading
<1>2. Len(left) \in Nat /\ Len(rows) \in Nat /\ left # <<>>
  BY <1>1
<1>3. 1 \in 1 .. Len(left) /\ Head(left) = left[1]
  BY <1>2
<1>4. Len(rows) + 1 \in 1 .. Len(src)
  <2>1. PICK m \in Nat, n \in Nat, p \in Nat : m = Len(rows) /\ n = Len(left) /\ p = Len(src)
    BY <1>2
  <2>2. m + n = p /\ 1 \in 1 .. n
    BY <1>1, <1>3, <2>1
  <2>3. m + 1 \in 1 .. p
    BY ONLY <2>2, m \in Nat, n \in Nat, p \in Nat
  <2> QED
    BY <2>1, <2>3
<1> QED
  BY <1>1, <1>2, <1>3, <1>4

\* The group whose rules are due or being read is the last one stored.
LEMMA LastGroup ==
  ASSUME LoadConstants, LoadInv, NEW f, Reading(f, Row, db["group"], Final("group", db["group"])), f.due
  PROVE  /\ Len(f.rows) \in 1 .. Len(db["group"])
         /\ db["group"][Len(f.rows)] \in Row /\ db["group"][Len(f.rows)].sub \in Seq(SubRow)
         /\ f.rows[Len(f.rows)] = [db["group"][Len(f.rows)] EXCEPT !.sub = <<>>]
         /\ f.rows \in Seq(Row)
<1>0. "group" \in KindSet
  BY DEF KindSet
<1>1. PICK src \in Seq(Row) : /\ src = db["group"] /\ \A i \in 1 .. Len(src) : Final("group", src)[i] = L!Whole("group", src[i])
  BY <1>0, DbRows
<1>2. PICK rows \in Seq(Row), left \in Seq(Row) :
        /\ left = f.left /\ rows = f.rows /\ rows # <<>>
        /\ Len(rows) + Len(left) = Len(src)
        /\ \A i \in 1 .. Len(rows) : i = Len(rows) => rows[i] = [Final("group", src)[i] EXCEPT !.sub = <<>>]
  BY <1>1 DEF Reading
<1>3. Len(rows) \in Nat /\ Len(left) \in Nat /\ Len(rows) # 0 /\ Len(src) \in Nat
  BY <1>2
<1>4. Len(rows) \in 1 .. Len(src) /\ Len(rows) \in 1 .. Len(rows)
  <2>1. PICK m \in Nat, n \in Nat, p \in Nat : m = Len(rows) /\ n = Len(left) /\ p = Len(src)
    BY <1>3
  <2>2. m + n = p /\ m # 0
    BY <1>2, <1>3, <2>1
  <2>3. m \in 1 .. p /\ m \in 1 .. m
    BY ONLY <2>2, m \in Nat, n \in Nat, p \in Nat
  <2> QED
    BY <2>1, <2>3
<1>5. src[Len(rows)] \in Row
  BY <1>4
<1>6. Final("group", src)[Len(rows)] = src[Len(rows)]
  BY <1>1, <1>4, <1>5, RowStored, ZenonT(40)
<1>7. src[Len(rows)].sub \in Seq(SubRow)
  BY <1>5 DEF Row
<1> QED
  BY <1>1, <1>2, <1>4, <1>5, <1>6, <1>7

\* A row is fetched by a loader of definitions or of rules.
LEMMA FetchRowInv ==
  ASSUME LoadConstants, LoadInv, L!FetchRow, L!Top.cur # "element"
  PROVE  LoadInv'
<1>1. /\ L!Running /\ L!Top.loop /\ ~L!Top.due /\ L!Top.left # <<>> /\ L!InLoop
      /\ Len(L!Top.rows) < N_MAX[L!Top.cur]
  BY DEF L!FetchRow, L!Fetching, L!Room
<1>2. PICK h : /\ L!SetTop(h)
               /\ h = [L!Top EXCEPT !.left = Tail(@), !.due = (L!Top.cur = "group"),
                                    !.rows = Append(@, L!Stored(L!Top.cur, Head(L!Top.left)))]
  BY DEF L!FetchRow
<1>3. UNCHANGED <<db, shm, nSecId, loadTime, job, at, dym, sets, inForce>>
  BY <1>1 DEF L!InLoop
<1>4. ASSUME NEW f, DefsRun(f), job = "load"
      PROVE  LoadInv'
  <2>1. frames = <<f>> /\ L!Top = f /\ frames' = <<h>> /\ Len(frames) = 1
    BY <1>2, <1>4, OneFrame DEF DefsRun
  <2>2. Len(frames') = 1
    BY <2>1
  <2>3. PICK k \in KindSet : k = L!Kind
    BY KindOf
  <2>4. f.cur = k /\ Reading(f, Row, db[k], Final(k, db[k]))
    BY <1>4, <2>3 DEF DefsRun
  <2>5. Len(db[k]) \in Nat /\ \A i \in 1 .. Len(db[k]) : db[k][i] \in Row /\ Final(k, db[k])[i] = L!Whole(k, db[k][i])
    BY DbRows
  <2>6. PICK n : n = Len(f.rows) + 1
    OBVIOUS
  <2>7. n \in 1 .. Len(db[k]) /\ Head(f.left) = db[k][n]
    BY <1>1, <2>1, <2>4, <2>5, <2>6, NextRow
  <2>8. PICK x : x = L!Stored(k, db[k][n])
    OBVIOUS
  <2>9. x \in Row /\ x = IF k = "group" THEN [Final(k, db[k])[n] EXCEPT !.sub = <<>>] ELSE Final(k, db[k])[n]
    <3>1. PICK row \in Row : row = db[k][n] /\ Final(k, db[k])[n] = L!Whole(k, row)
      BY <2>5, <2>7
    <3>2. /\ L!Stored(k, row) \in Row
          /\ k # "group" => L!Stored(k, row) = L!Whole(k, row)
          /\ k = "group" => L!Stored(k, row) = [L!Whole(k, row) EXCEPT !.sub = <<>>]
      BY RowStored
    <3> QED
      BY <2>8, <3>1, <3>2, Zenon
  <2>10. PICK due \in BOOLEAN : due = (k = "group")
    OBVIOUS
  <2>11. h = Fetched(f, x, due)
    BY <1>2, <2>1, <2>4, <2>7, <2>8, <2>10 DEF Fetched
  <2>12. x = Bare(Final(k, db[k])[Len(f.rows) + 1], due)
    BY <2>6, <2>9, <2>10 DEF Bare
  <2>13. Len(f.rows) < N_MAX[f.cur] /\ f.loop /\ ~f.due /\ f.left # <<>> /\ f.cur \in KindSet \cup {"rule"}
    BY <1>1, <2>1, <2>4
  <2>14. Reading(h, Row, db[k], Final(k, db[k])) /\ h.cur = f.cur /\ (h.due <=> due)
    <3>1. PICK src, fin : src = db[k] /\ fin = Final(k, db[k])
      OBVIOUS
    <3>2. /\ Reading(f, Row, src, fin) /\ Len(src) \in Nat
          /\ x = Bare(fin[Len(f.rows) + 1], due)
      BY <2>4, <2>5, <2>12, <3>1
    <3>3. Reading(h, Row, src, fin) /\ h.cur = f.cur /\ (h.due <=> due)
      BY ONLY LoadConstants, <2>9, <2>11, <2>13, <3>2, due \in BOOLEAN, ReadRow
    <3> QED
      BY <3>1, <3>3
  <2>15. DefsRun(h)'
    BY <1>3, <2>1, <2>3, <2>4, <2>10, <2>14 DEF DefsRun, L!Kind
  <2> QED
    BY <1>1, <1>4, <2>1, <2>2, <2>15, LoopStep
<1>5. ASSUME NEW f, NEW g, RulesRun(f, g), job = "load"
      PROVE  LoadInv'
  <2>1. frames = <<f, g>> /\ L!Top = g /\ frames' = <<f, h>> /\ Len(frames) = 2
    BY <1>2, <1>5, TwoFrames DEF RulesRun
  <2>2. Len(frames') = 2
    BY <2>1
  <2>3. PICK src \in Seq(SubRow) : src = db["group"][Len(f.rows)].sub
    BY <1>5, LastGroup DEF RulesRun
  <2>4. g.cur = "rule" /\ Reading(g, SubRow, src, src) /\ Len(src) \in Nat
    BY <1>5, <2>3 DEF RulesRun
  <2>5. Len(g.rows) + 1 \in 1 .. Len(src) /\ Head(g.left) = src[Len(g.rows) + 1]
    BY <1>1, <2>1, <2>4, NextRow
  <2>6. PICK x \in SubRow : x = src[Len(g.rows) + 1]
    BY <2>5
  <2>7. h = [g EXCEPT !.left = Tail(@), !.due = FALSE, !.rows = Append(@, x)]
    BY <1>2, <2>1, <2>4, <2>5, <2>6 DEF L!Stored
  <2>8. Len(g.rows) < N_MAX[g.cur] /\ g.loop /\ ~g.due /\ g.left # <<>> /\ g.cur \in KindSet \cup {"rule"}
    BY <1>1, <2>1, <2>4
  <2>9. PICK due \in BOOLEAN : due = FALSE
    OBVIOUS
  <2>10. h = Fetched(g, x, due) /\ x = Bare(src[Len(g.rows) + 1], due)
    BY <2>6, <2>7, <2>9 DEF Fetched, Bare
  <2>11. Reading(h, SubRow, src, src) /\ h.cur = g.cur /\ (h.due <=> due)
    BY ONLY LoadConstants, <2>4, <2>8, <2>10, x \in SubRow, due \in BOOLEAN, ReadRow
  <2>12. RulesRun(f, h)'
    BY <1>3, <1>5, <2>1, <2>3, <2>4, <2>9, <2>11 DEF RulesRun, L!Kind
  <2> QED
    BY <1>1, <1>5, <2>1, <2>2, <2>12, LoopStep
<1>6. ASSUME NEW f, SetRun(f)
      PROVE  FALSE
  BY <1>6, OneFrame DEF SetRun
<1> QED
  BY <1>1, <1>4, <1>5, <1>6, LoaderOf

\* An element is read, or refused.
LEMMA AddElementInv ==
  ASSUME LoadInv, L!AddElement, L!Top.cur = "element"
  PROVE  LoadInv'
<1>1. L!Running /\ L!Fetching /\ L!InLoop
  BY DEF L!AddElement, L!Fetching
<1>2. CASE L!SetTop([L!Top EXCEPT !.loop = FALSE, !.ret = -1])
  BY <1>1, <1>2, StopsInv
<1>3. CASE L!SetTop([L!Top EXCEPT !.left = Tail(@), !.rows = Append(@, Head(L!Top.left))])
  <2>1. ASSUME NEW f, SetRun(f), job = "check"
        PROVE  LoadInv'
    <3>1. PICK h : h = [f EXCEPT !.left = Tail(@), !.rows = Append(@, Head(f.left))]
      OBVIOUS
    <3>2. frames = <<f>> /\ L!Top = f /\ frames' = <<h>> /\ Len(frames) = 1
      BY <1>3, <2>1, <3>1, OneFrame DEF SetRun
    <3>3. Len(frames') = 1
      BY <3>2
    <3>4. PICK l, r : h = [cur |-> "element", left |-> l, rows |-> r, ret |-> f.ret, loop |-> f.loop, due |-> FALSE]
      <4>1. f = [cur |-> "element", left |-> f.left, rows |-> f.rows, ret |-> f.ret, loop |-> f.loop, due |-> FALSE]
        BY <2>1 DEF SetRun, IsFrame
      <4>2. PICK l, r, t, o, l2, r2 :
              /\ f = [cur |-> "element", left |-> l, rows |-> r, ret |-> t, loop |-> o, due |-> FALSE]
              /\ l2 = Tail(f.left) /\ r2 = Append(f.rows, Head(f.left)) /\ t = f.ret /\ o = f.loop
        BY <4>1, Zenon
      <4>3. h = [f EXCEPT !.left = l2, !.rows = r2]
        BY ONLY <3>1, <4>2
      <4>4. h = [cur |-> "element", left |-> l2, rows |-> r2, ret |-> t, loop |-> o, due |-> FALSE]
        BY ONLY <4>2, <4>3
      <4> QED
        BY <4>2, <4>4, Zenon
    <3>5. h.cur = "element" /\ h.left = l /\ h.rows = r /\ h.ret = f.ret
      BY ONLY <3>4
    <3>6. h.loop = f.loop /\ h.due = FALSE
      BY ONLY <3>4, Zenon
    <3>7. IsFrame(h) /\ h.cur = "element" /\ ~h.due
      BY <2>1, <3>4, <3>5, <3>6, Zenon DEF IsFrame, SetRun
    <3>8. SetRun(h)'
      BY <1>1, <2>1, <3>2, <3>7 DEF SetRun, L!Kind, L!Source, L!Outdated, L!InLoop
    <3> QED
      BY <1>1, <2>1, <3>2, <3>3, <3>8, LoopStep
  <2>2. ASSUME NEW f, DefsRun(f)
        PROVE  FALSE
    BY <2>2, OneFrame, KindOf DEF DefsRun, KindSet
  <2>3. ASSUME NEW f, NEW g, RulesRun(f, g)
        PROVE  FALSE
    BY <2>3, TwoFrames DEF RulesRun
  <2> QED
    BY <1>1, <2>1, <2>2, <2>3, LoaderOf
<1> QED
  BY <1>2, <1>3 DEF L!AddElement

\* A kind is written in the standby section.
LEMMA ShmStep ==
  ASSUME LoadInv, NEW v, shm' = [shm EXCEPT ![L!Back][L!Kind] = v]
  PROVE  /\ shm' = [s \in {0, 1} |-> [k \in KindSet |-> shm'[s][k]]]
         /\ \A k \in KindSet : shm'[nSecId][k] = shm[nSecId][k]
         /\ shm'[L!Back][L!Kind] = v
         /\ \A k \in KindSet : k # L!Kind => shm'[L!Back][k] = shm[L!Back][k]
         /\ L!Back \in {0, 1} /\ L!Back # nSecId
<1>1. PICK b, c : b = L!Back /\ c = L!Kind
  OBVIOUS
<1>2. b \in {0, 1} /\ b # nSecId /\ nSecId \in {0, 1}
  BY <1>1 DEF LoadInv, L!Back
<1>3. c \in KindSet
  BY <1>1, KindOf
<1>4. shm = [s \in {0, 1} |-> [k \in KindSet |-> shm[s][k]]]
  BY DEF LoadInv
<1>5. shm' = [s \in {0, 1} |-> [k \in KindSet |-> IF s = b /\ k = c THEN v ELSE shm[s][k]]]
  BY <1>1, <1>2, <1>3, <1>4
<1>6. \A s \in {0, 1}, k \in KindSet : shm'[s][k] = IF s = b /\ k = c THEN v ELSE shm[s][k]
  BY <1>5
<1>7. shm' = [s \in {0, 1} |-> [k \in KindSet |-> shm'[s][k]]]
  BY ONLY <1>5
<1> QED
  BY <1>1, <1>2, <1>3, <1>6, <1>7

\* A job ends, or nothing runs.
LEMMA IdleInv ==
  ASSUME db' \in Database, loadTime' \in Nat, nSecId' \in {0, 1},
         shm' = [s \in {0, 1} |-> [k \in KindSet |-> shm'[s][k]]], dym' = [k \in KindSet |-> dym'[k]],
         handles' \in Int, lost' \in Int, handles' = lost',
         job' = "idle", at' = 1, frames' = <<>>, InForce'
  PROVE  LoadInv'
<1>1. Len(<<>>) = 0 /\ 1 \in 1 .. 5
  OBVIOUS
<1>2. L!CursorsClosed'
  BY <1>1 DEF L!CursorsClosed
<1> QED
  BY <1>1, <1>2 DEF LoadInv

LEMMA OpenDefsInv ==
  ASSUME LoadConstants, LoadInv, NEW kind, L!OpenDefs(kind)
  PROVE  LoadInv'
<1>1. /\ job = "load" /\ frames = <<>> /\ shm' = [shm EXCEPT ![L!Back][L!Kind] = L!Blank]
      /\ UNCHANGED <<db, nSecId, loadTime, dym, inForce>>
  BY DEF L!OpenDefs, L!Running
<1>2. /\ shm' = [s \in {0, 1} |-> [k \in KindSet |-> shm'[s][k]]]
      /\ \A k \in KindSet : shm'[nSecId][k] = shm[nSecId][k]
      /\ \A k \in KindSet : k # L!Kind => shm'[L!Back][k] = shm[L!Back][k]
  BY <1>1, ShmStep
<1>3. /\ db \in Database /\ loadTime \in Nat /\ nSecId \in {0, 1} /\ at \in 1 .. 5 /\ InForce
      /\ dym = [k \in KindSet |-> dym[k]] /\ handles \in Int /\ lost \in Int /\ handles = lost
  <2>1. Len(<<>>) = 0
    OBVIOUS
  <2> QED
    BY <1>1, <2>1 DEF LoadInv, L!CursorsClosed
<1>4. InForce'
  BY <1>1, <1>2, <1>3, InForceKept
<1>5. CASE L!Opened(L!Kind, db[L!Kind]) /\ UNCHANGED <<job, at, sets>>
  <2>1. PICK k \in KindSet : k = L!Kind
    BY KindOf
  <2>2. PICK h : h = L!Frame(k, db[k])
    OBVIOUS
  <2>3. db[k] \in Seq(Row) /\ k \in KindSet \cup {"rule"}
    BY DbRows
  <2>4. Reading(h, Row, db[k], Final(k, db[k])) /\ h.cur = k /\ ~h.due
    BY <2>2, <2>3, ReadBegins
  <2>5. frames' = <<h>> /\ Len(frames') = 1 /\ handles' = handles + 1 /\ lost' = lost
    BY <1>1, <1>5, <2>1, <2>2 DEF L!Opened
  <2>6. DefsRun(h)'
    BY <1>1, <1>5, <2>1, <2>4, <2>5 DEF DefsRun, L!Kind
  <2>7. KindsBefore'
    <3>1. ASSUME NEW j \in 1 .. at - 1
          PROVE  L!Kinds[j] \in KindSet /\ L!Kinds[j] # L!Kind
      BY <1>3, KindsOf DEF L!Kind
    <3>2. KindsBefore
      BY <1>1 DEF LoadInv, Loading
    <3> QED
      BY <1>1, <1>2, <1>5, <3>1, <3>2 DEF KindsBefore, Loaded, L!Back
  <2>8. L!CursorsClosed' /\ handles' \in Int /\ lost' \in Int
    BY <1>3, <2>5 DEF L!CursorsClosed
  <2> QED
    BY <1>1, <1>2, <1>3, <1>4, <1>5, <2>6, <2>7, <2>8 DEF LoadInv, Loading
<1>6. CASE L!OpenFails /\ L!Idle
  BY <1>1, <1>2, <1>3, <1>4, <1>6, IdleInv DEF L!OpenFails, L!Idle
<1> QED
  BY <1>5, <1>6 DEF L!OpenDefs

\* A loader that failed.
LEMMA ReadFails ==
  ASSUME NEW f, IsFrame(f), NEW r, NEW h, h = [f EXCEPT !.rows = r, !.due = FALSE, !.loop = FALSE, !.ret = -1]
  PROVE  h.cur = f.cur /\ ~h.due /\ \A S, src, fin : Reading(h, S, src, fin)
<1>1. h = [cur |-> f.cur, left |-> f.left, rows |-> r, ret |-> -1, loop |-> FALSE, due |-> FALSE]
  BY DEF IsFrame
<1>2. /\ h.cur = f.cur /\ h.left = f.left /\ h.rows = r /\ h.ret = -1 /\ h.loop = FALSE /\ h.due = FALSE
  BY ONLY <1>1
<1>3. IsFrame(h)
  BY <1>1, <1>2 DEF IsFrame
<1>4. h.ret # 0 /\ h.ret \in {0, -1}
  BY <1>2
<1> QED
  BY <1>2, <1>3, <1>4 DEF Reading

\* Opening a cursor that fails may leave a handle.
LEMMA OpenFailsHandles ==
  ASSUME LoadInv, L!OpenFails
  PROVE  handles' \in Int /\ lost' \in Int /\ handles' = Len(frames) + lost'
<1>1. Len(frames) \in Int
  <2>1. CASE L!Running
    BY <2>1, LoaderOf, OneFrame, TwoFrames DEF DefsRun, RulesRun, SetRun
  <2>2. CASE ~L!Running
    BY <2>2 DEF L!Running
  <2> QED
    BY <2>1, <2>2
<1> QED
  BY <1>1 DEF LoadInv, L!OpenFails, L!CursorsClosed

\* The rules of the group stored last are looked up by its id.
LEMMA RulesOf ==
  ASSUME LoadConstants, LoadInv, NEW n \in 1 .. Len(db["group"]), NEW id, id = db["group"][n].id
  PROVE  (CHOOSE row \in L!Range(db["group"]) : row.id = id) = db["group"][n]
<1>0. "group" \in KindSet
  BY DEF KindSet
<1>1. PICK q \in Seq(Row) : q = db["group"]
  BY <1>0, DbRows
<1>2. \A i, j \in 1 .. Len(q) : q[i].id = q[j].id => i = j
  BY <1>0, <1>1 DEF LoadConstants, LoadInv
<1>3. L!Range(q) = {q[i] : i \in 1 .. Len(q)}
  BY DEF L!Range
<1>4. q[n] \in L!Range(q) /\ q[n].id = id
  BY <1>1, <1>3
<1>5. PICK c : c = CHOOSE row \in L!Range(q) : row.id = id
  OBVIOUS
<1>6. c \in L!Range(q) /\ c.id = id
  BY <1>4, <1>5, Zenon
<1>7. c = q[n]
  BY <1>1, <1>2, <1>3, <1>4, <1>6
<1> QED
  BY <1>1, <1>5, <1>7

LEMMA OpenRulesInv ==
  ASSUME LoadConstants, LoadInv, L!OpenRules
  PROVE  LoadInv'
<1>1. L!Running /\ L!Top.due /\ UNCHANGED <<db, shm, nSecId, loadTime, job, at, dym, sets, inForce>>
  BY DEF L!OpenRules
<1>2. ASSUME NEW f, NEW g, RulesRun(f, g)
      PROVE  FALSE
  BY <1>1, <1>2, TwoFrames DEF RulesRun
<1>3. ASSUME NEW f, SetRun(f)
      PROVE  FALSE
  BY <1>1, <1>3, OneFrame DEF SetRun
<1>4. PICK f : DefsRun(f) /\ job = "load"
  BY <1>1, <1>2, <1>3, LoaderOf
<1>5. frames = <<f>> /\ L!Top = f /\ f.due /\ Len(frames) = 1
  BY <1>1, <1>4, OneFrame DEF DefsRun
<1>6. L!Kind = "group" /\ f.cur = "group" /\ Reading(f, Row, db["group"], Final("group", db["group"]))
  BY <1>4, <1>5 DEF DefsRun
<1>7. PICK n : n = Len(f.rows)
  OBVIOUS
<1>8. /\ n \in 1 .. Len(db["group"]) /\ db["group"][n] \in Row /\ db["group"][n].sub \in Seq(SubRow)
      /\ f.rows[n] = [db["group"][n] EXCEPT !.sub = <<>>]
  BY <1>5, <1>6, <1>7, LastGroup
<1>9. f.rows[n].id = db["group"][n].id
  BY <1>8, RowStored
<1>10. (CHOOSE row \in L!Range(db["group"]) : row.id = f.rows[n].id) = db["group"][n]
  BY <1>8, <1>9, RulesOf
<1>11. CASE L!Opened("rule", db["group"][n].sub)
  <2>1. PICK h : h = L!Frame("rule", db["group"][n].sub)
    OBVIOUS
  <2>2. Reading(h, SubRow, db["group"][n].sub, db["group"][n].sub) /\ h.cur = "rule" /\ ~h.due
    <3>1. PICK q \in Seq(SubRow) : q = db["group"][n].sub
      BY <1>8
    <3>2. "rule" \in KindSet \cup {"rule"}
      OBVIOUS
    <3>3. Reading(L!Frame("rule", q), SubRow, q, q) /\ L!Frame("rule", q).cur = "rule" /\ ~L!Frame("rule", q).due
      BY ONLY LoadConstants, q \in Seq(SubRow), <3>2, ReadBegins
    <3> QED
      BY <2>1, <3>1, <3>3
  <2>3. frames' = <<f, h>> /\ handles' = handles + 1 /\ lost' = lost
    BY <1>5, <1>11, <2>1, OneFrame DEF L!Opened
  <2>4. Len(frames') = 2
    BY <2>3
  <2>5. RulesRun(f, h)'
    BY <1>1, <1>5, <1>6, <1>7, <2>2, <2>3 DEF RulesRun, L!Kind
  <2>6. handles' \in Int /\ lost' \in Int /\ handles' = Len(frames') + lost'
    <3>1. handles \in Int /\ lost \in Int /\ handles = Len(frames) + lost
      BY DEF LoadInv, L!CursorsClosed
    <3> QED
      BY ONLY <1>5, <2>3, <2>4, <3>1
  <2> QED
    BY <1>1, <1>4, <2>5, <2>6, FramesStep
<1>12. CASE L!OpenFails /\ L!SetTop([f EXCEPT !.rows = SubSeq(@, 1, Len(@) - 1), !.due = FALSE, !.loop = FALSE, !.ret = -1])
  <2>1. PICK r : r = SubSeq(f.rows, 1, Len(f.rows) - 1)
    OBVIOUS
  <2>2. PICK h : h = [f EXCEPT !.rows = r, !.due = FALSE, !.loop = FALSE, !.ret = -1]
    OBVIOUS
  <2>3. frames' = <<h>>
    BY <1>5, <1>12, <2>1, <2>2, OneFrame
  <2>4. IsFrame(f)
    BY <1>6 DEF Reading
  <2>5. h.cur = f.cur /\ ~h.due /\ Reading(h, Row, db["group"], Final("group", db["group"]))
    BY <2>2, <2>4, ReadFails
  <2>6. DefsRun(h)'
    BY <1>1, <1>6, <2>3, <2>5 DEF DefsRun, L!Kind
  <2>7. handles' \in Int /\ lost' \in Int /\ handles' = Len(frames') + lost'
    BY <1>5, <1>12, <2>3, OpenFailsHandles
  <2> QED
    BY <1>1, <1>4, <2>6, <2>7, FramesStep
<1> QED
  BY <1>5, <1>7, <1>10, <1>11, <1>12 DEF L!OpenRules

\* What a failed check leaves of a thread's tables.
LEMMA TablesLeft ==
  ASSUME LoadInv, dym' = L!AfterFailure
  PROVE  dym' = [k \in KindSet |-> dym'[k]] /\ \A k \in KindSet : dym'[k] = <<>> \/ dym'[k] = dym[k]
<1>1. dym = [k \in KindSet |-> dym[k]]
  BY DEF LoadInv
<1>2. dym' = [k \in KindSet |-> <<>>] \/ dym' = dym
  BY KindsOf DEF L!AfterFailure
<1> QED
  BY <1>1, <1>2

LEMMA OpenElementsInv ==
  ASSUME LoadConstants, LoadInv, L!OpenElements
  PROVE  LoadInv'
<1>1. /\ job = "check" /\ L!Outdated /\ L!Kind = "set" /\ frames = <<>> /\ Len(sets) < Len(L!Source.rows)
      /\ UNCHANGED <<db, shm, nSecId, loadTime, inForce>>
  BY DEF L!OpenElements, L!SetsLeft, L!Running
<1>2. Len(frames) = 0 /\ at = 1
  BY <1>1, KindOf
<1>3. ASSUME NEW e, L!Opened("element", e), UNCHANGED <<job, at, sets, dym>>
      PROVE  LoadInv'
  <2>1. PICK h : h = L!Frame("element", e)
    OBVIOUS
  <2>2. h = [cur |-> "element", left |-> e, rows |-> <<>>, ret |-> 0, loop |-> TRUE, due |-> FALSE]
    BY <2>1 DEF L!Frame
  <2>3. h.cur = "element" /\ h.left = e /\ h.rows = <<>> /\ h.ret = 0 /\ h.loop = TRUE /\ h.due = FALSE
    BY ONLY <2>2
  <2>4. IsFrame(h)
    BY <2>2, <2>3 DEF IsFrame
  <2>5. frames' = <<h>> /\ Len(frames') = 1 /\ handles' = handles + 1 /\ lost' = lost
    BY <1>1, <1>3, <2>1 DEF L!Opened
  <2>6. SetRun(h)'
    BY <1>1, <1>2, <1>3, <2>3, <2>4, <2>5 DEF SetRun, L!Kind, L!Source, L!Outdated
  <2>7. handles' \in Int /\ lost' \in Int /\ handles' = Len(frames') + lost'
    BY <1>2, <2>5 DEF LoadInv, L!CursorsClosed
  <2> QED
    BY <1>1, <1>3, <2>6, <2>7, FramesStep
<1>4. CASE L!OpenFails /\ L!Idle /\ dym' = L!AfterFailure
  <2>1. handles' \in Int /\ lost' \in Int /\ handles' = lost'
    BY <1>2, <1>4, OpenFailsHandles
  <2>2. dym' = [k \in KindSet |-> dym'[k]] /\ \A k \in KindSet : dym'[k] = <<>> \/ dym'[k] = dym[k]
    BY <1>4, TablesLeft
  <2>3. job' = "idle" /\ at' = 1 /\ frames' = <<>>
    BY <1>4 DEF L!Idle
  <2>4. /\ db \in Database /\ loadTime \in Nat /\ nSecId \in {0, 1} /\ InForce
        /\ shm = [s \in {0, 1} |-> [k \in KindSet |-> shm[s][k]]]
    BY DEF LoadInv
  <2>5. InForce'
    BY <1>1, <2>2, <2>3, <2>4, InForceKept
  <2> QED
    BY <1>1, <2>1, <2>2, <2>3, <2>4, <2>5, IdleInv
<1> QED
  BY <1>3, <1>4 DEF L!OpenElements

\* A loader that succeeded has stored everything.
LEMMA ReadAll ==
  ASSUME NEW f, NEW S, NEW src, NEW fin, Reading(f, S, src, fin), ~f.loop, f.ret = 0,
         Len(src) \in Nat, fin = [i \in 1 .. Len(src) |-> fin[i]]
  PROVE  f.rows = fin /\ Len(f.rows) <= N_MAX[f.cur]
<1>1. f.left = <<>> /\ ~f.due /\ Len(f.rows) <= N_MAX[f.cur]
  BY DEF Reading
<1>2. PICK rows \in Seq(S) : rows = f.rows /\ Len(rows) + Len(f.left) = Len(src) /\ \A i \in 1 .. Len(rows) : rows[i] = fin[i]
  BY <1>1 DEF Reading
<1>3. Len(rows) \in Nat /\ Len(f.left) = 0
  BY <1>1
<1>4. Len(rows) = Len(src)
  BY <1>2, <1>3
<1>5. rows = [i \in 1 .. Len(rows) |-> rows[i]]
  OBVIOUS
<1>6. rows = fin
  BY ONLY <1>2, <1>4, <1>5, fin = [i \in 1 .. Len(src) |-> fin[i]]
<1> QED
  BY <1>1, <1>2, <1>6

\* The loader of definitions returns.
LEMMA DefsDoneInv ==
  ASSUME LoadConstants, LoadInv, NEW f, DefsRun(f), job = "load", ~f.loop, NEW ret \in {f.ret, -1},
         L!DefsDone(ret), handles' = handles - 1, UNCHANGED <<db, loadTime, lost>>
  PROVE  LoadInv'
<1>1. /\ frames = <<f>> /\ L!Top = f /\ Len(frames) = 1
  BY OneFrame DEF DefsRun
<1>2. PICK k \in KindSet : k = L!Kind
  BY KindOf
<1>3. f.cur = k /\ Reading(f, Row, db[k], Final(k, db[k]))
  BY <1>2 DEF DefsRun
<1>4. PICK sec : sec = [rows |-> f.rows, time |-> loadTime]
  OBVIOUS
<1>5. /\ shm' = [shm EXCEPT ![L!Back][L!Kind] = sec] /\ frames' = <<>> /\ UNCHANGED dym
      /\ sec.rows = f.rows /\ sec.time = loadTime
  BY <1>1, <1>4 DEF L!DefsDone
<1>6. PICK back : back = L!Back
  OBVIOUS
<1>7. /\ shm' = [s \in {0, 1} |-> [c \in KindSet |-> shm'[s][c]]]
      /\ \A c \in KindSet : shm'[nSecId][c] = shm[nSecId][c]
      /\ \A c \in KindSet : c # k => shm'[back][c] = shm[back][c]
      /\ shm'[back][k] = sec /\ back \in {0, 1} /\ back # nSecId
  BY <1>2, <1>5, <1>6, ShmStep
<1>8. /\ db \in Database /\ loadTime \in Nat /\ nSecId \in {0, 1} /\ at \in 1 .. 5 /\ InForce
      /\ dym = [c \in KindSet |-> dym[c]] /\ KindsBefore
  BY DEF LoadInv, Loading
<1>9. handles' \in Int /\ lost' \in Int /\ handles' = lost'
  <2>1. handles \in Int /\ lost \in Int /\ handles = Len(frames) + lost
    BY DEF LoadInv, L!CursorsClosed
  <2>2. handles' = handles - 1 /\ lost' = lost
    OBVIOUS
  <2> QED
    BY ONLY <1>1, <2>1, <2>2
<1>10. ASSUME ret = 0
       PROVE  Loaded(sec, k, db)
  <2>1. f.ret = 0
    BY <1>10
  <2>2. PICK src, fin : src = db[k] /\ fin = Final(k, db[k])
    OBVIOUS
  <2>3. Len(src) \in Nat /\ fin = [i \in 1 .. Len(src) |-> fin[i]] /\ Reading(f, Row, src, fin)
    BY <1>3, <2>2, DbRows DEF Final
  <2>4. f.rows = fin /\ Len(f.rows) <= N_MAX[f.cur]
    BY <2>1, <2>3, ReadAll
  <2> QED
    BY <1>3, <1>5, <2>2, <2>4 DEF Loaded
<1>11. CASE UNCHANGED <<nSecId, inForce>>
  <2>1. ASSUME job' = "idle" \/ job' = "load"
        PROVE  InForce'
    BY <1>5, <1>7, <1>8, <1>11, <2>1, InForceKept
  <2>2. CASE ret # 0 /\ job' = "idle" /\ at' = 1
    BY <1>5, <1>7, <1>8, <1>9, <1>11, <2>1, <2>2, IdleInv
  <2>3. CASE ret = 0 /\ at < Len(L!Kinds) /\ at' = at + 1 /\ job' = job
    <3>1. at < 5 /\ at' \in 1 .. 5
      BY <1>8, <2>3, KindsOf
    <3>2. KindsBefore'
      <4>1. ASSUME NEW j \in 1 .. at' - 1
            PROVE  /\ Loaded(shm[L!Back][L!Kinds[j]], L!Kinds[j], db)'
                   /\ (shm[L!Back][L!Kinds[j]].time = loadTime)'
        <5>1. L!Back' = back /\ db' = db /\ loadTime' = loadTime
          BY <1>6, <1>11 DEF L!Back
        <5>2. CASE j = at
          BY <1>2, <1>5, <1>7, <1>10, <2>3, <5>1, <5>2 DEF L!Kind, Loaded
        <5>3. CASE j # at
          <6>1. j \in 1 .. at - 1 /\ j \in 1 .. 5
            BY <1>8, <2>3, <5>3
          <6>2. PICK c \in KindSet : c = L!Kinds[j] /\ c # k
            BY <1>2, <1>8, <5>3, <6>1, KindsOf DEF L!Kind
          <6>3. Loaded(shm[back][c], c, db) /\ shm[back][c].time = loadTime
            BY <1>6, <1>8, <6>1, <6>2 DEF KindsBefore
          <6> QED
            BY <1>7, <5>1, <6>2, <6>3 DEF Loaded
        <5> QED
          BY <5>2, <5>3
      <4> QED
        BY <4>1 DEF KindsBefore
    <3>3. L!CursorsClosed'
      <4>1. Len(<<>>) = 0
        OBVIOUS
      <4> QED
        BY <1>5, <1>9, <4>1 DEF L!CursorsClosed
    <3> QED
      BY <1>5, <1>7, <1>8, <1>9, <1>11, <2>1, <2>3, <3>1, <3>2, <3>3 DEF LoadInv, Loading
  <2> QED
    BY <1>6, <1>7, <1>11, <2>2, <2>3 DEF L!DefsDone
<1>12. CASE ret = 0 /\ at = Len(L!Kinds) /\ nSecId' = L!Back /\ inForce' = <<db>> /\ job' = "idle" /\ at' = 1
  <2>1. at = 5 /\ nSecId' = back
    BY <1>6, <1>12, KindsOf
  <2>2. ASSUME NEW c \in KindSet
        PROVE  Loaded(shm'[back][c], c, db) /\ shm'[back][c].time = loadTime
    <3>1. CASE c = k
      BY <1>5, <1>7, <1>10, <1>12, <3>1
    <3>2. CASE c # k
      <4>1. PICK j \in 1 .. 5 : L!Kinds[j] = c
        BY KindsOf
      <4>2. j \in 1 .. at - 1
        BY <1>2, <2>1, <3>2, <4>1 DEF L!Kind
      <4>3. Loaded(shm[back][c], c, db) /\ shm[back][c].time = loadTime
        BY <1>6, <1>8, <4>1, <4>2 DEF KindsBefore
      <4> QED
        BY <1>7, <3>2, <4>3
    <3> QED
      BY <3>1, <3>2
  <2>3. inForce' # <<>> /\ inForce'[1] = db
    BY <1>12
  <2>4. ASSUME NEW c \in KindSet
        PROVE  Loaded(shm[nSecId][c], c, inForce[1])' /\ Past(shm[nSecId][c].time)'
    BY <1>8, <1>12, <2>1, <2>2, <2>3 DEF Loaded, Past
  <2>5. ASSUME NEW c \in KindSet, dym[c] # <<>>
        PROVE  Past(dym[c][1].time)' /\ dym[c][1].time # shm'[back][c].time
    <3>1. Past(dym[c][1].time)
      BY <1>8, <2>5 DEF InForce
    <3>2. dym[c][1].time \in Nat /\ dym[c][1].time < loadTime
      BY <3>1 DEF Past
    <3> QED
      BY <1>5, <1>8, <1>12, <2>2, <3>2 DEF Past
  <2>6. InForce'
    BY <1>5, <1>8, <2>1, <2>3, <2>4, <2>5 DEF InForce
  <2> QED
    BY <1>5, <1>7, <1>8, <1>9, <1>12, <2>1, <2>6, IdleInv
<1> QED
  BY <1>11, <1>12 DEF L!DefsDone

\* The rows of a section that was loaded whole.
LEMMA FinalRows ==
  ASSUME LoadConstants, NEW d \in Database, NEW k \in KindSet, NEW rows, rows = Final(k, d[k])
  PROVE  /\ rows \in Seq(Row) /\ Len(rows) = Len(d[k]) /\ Len(rows) \in Nat /\ DOMAIN rows = 1 .. Len(rows)
         /\ rows = [i \in DOMAIN d[k] |-> L!Whole(k, d[k][i])]
         /\ \A i, j \in 1 .. Len(rows) : rows[i].id = rows[j].id => i = j
         /\ k = "group" => \A i \in 1 .. Len(rows) : \A m, n \in 1 .. Len(rows[i].sub) :
              rows[i].sub[m].id = rows[i].sub[n].id => m = n
<1>1. PICK q \in Seq(Row) : q = d[k]
  BY DEF LoadConstants
<1>2. Len(q) \in Nat /\ DOMAIN q = 1 .. Len(q) /\ \A i \in 1 .. Len(q) : q[i] \in Row
  OBVIOUS
<1>3. rows = [i \in 1 .. Len(q) |-> L!Whole(k, q[i])]
  BY <1>1 DEF Final
<1>4. \A i \in 1 .. Len(q) : L!Whole(k, q[i]) \in Row /\ L!Whole(k, q[i]).id = q[i].id /\ (k = "group" => L!Whole(k, q[i]) = q[i])
  BY <1>2, RowStored
<1>5. PICK w : w = [i \in 1 .. Len(q) |-> L!Whole(k, q[i])]
  OBVIOUS
<1>6. w \in [1 .. Len(q) -> Row] /\ \A i \in 1 .. Len(q) : w[i] = L!Whole(k, q[i])
  BY <1>4, <1>5
<1>7. w \in Seq(Row) /\ Len(w) = Len(q) /\ DOMAIN w = 1 .. Len(q)
  BY ONLY <1>2, <1>6
<1>8. \A i, j \in 1 .. Len(q) : q[i].id = q[j].id => i = j
  BY <1>1 DEF LoadConstants
<1>9. k = "group" => \A i \in 1 .. Len(q) : \A m, n \in 1 .. Len(q[i].sub) : q[i].sub[m].id = q[i].sub[n].id => m = n
  <2>1. \A i \in 1 .. Len(d["group"]) : \A m, n \in 1 .. Len(d["group"][i].sub) :
          d["group"][i].sub[m].id = d["group"][i].sub[n].id => m = n
    BY DEF LoadConstants
  <2>2. k = "group" => q = d["group"]
    BY <1>1
  <2> QED
    BY ONLY <2>1, <2>2
<1>10. \A i \in 1 .. Len(w) : w[i].id = q[i].id /\ (k = "group" => w[i] = q[i])
  BY <1>4, <1>6, <1>7
<1>11. \A i, j \in 1 .. Len(w) : w[i].id = w[j].id => i = j
  BY ONLY <1>7, <1>8, <1>10
<1>12. k = "group" => \A i \in 1 .. Len(w) : \A m, n \in 1 .. Len(w[i].sub) : w[i].sub[m].id = w[i].sub[n].id => m = n
  BY <1>7, <1>9, <1>10
<1>13. rows = [i \in DOMAIN d[k] |-> L!Whole(k, d[k][i])]
  BY <1>1, <1>2, <1>3, <1>5
<1>14. rows = w /\ Len(w) = Len(d[k]) /\ Len(w) \in Nat /\ DOMAIN w = 1 .. Len(w)
  BY <1>1, <1>2, <1>3, <1>5, <1>7
<1> QED
  BY ONLY <1>7, <1>11, <1>12, <1>13, <1>14

\* The loader of a group's rules returns to that of the groups.
LEMMA RulesDoneInv ==
  ASSUME LoadConstants, LoadInv, NEW f, NEW g, RulesRun(f, g), job = "load", ~g.loop, NEW ret \in {g.ret, -1},
         L!RulesDone(ret), handles' = handles - 1, UNCHANGED <<db, loadTime, lost>>
  PROVE  LoadInv'
<1>1. /\ frames = <<f, g>> /\ L!Top = g /\ Len(frames) = 2 /\ frames[Len(frames) - 1] = f
      /\ \A h : Append(SubSeq(frames, 1, Len(frames) - 2), h) = <<h>>
  BY TwoFrames DEF RulesRun
<1>2. L!Kind = "group" /\ f.cur = "group" /\ f.due /\ f.loop /\ f.ret = 0
  BY DEF RulesRun, Reading
<1>3. PICK src, fin : src = db["group"] /\ fin = Final("group", db["group"])
  OBVIOUS
<1>4. Reading(f, Row, src, fin) /\ IsFrame(f)
  BY <1>3 DEF RulesRun, Reading
<1>5. PICK n : n = Len(f.rows)
  OBVIOUS
<1>6. /\ n \in 1 .. Len(src) /\ src[n] \in Row /\ src[n].sub \in Seq(SubRow)
      /\ f.rows[n] = [src[n] EXCEPT !.sub = <<>>] /\ f.rows \in Seq(Row)
  BY <1>2, <1>3, <1>4, <1>5, LastGroup
<1>7. UNCHANGED <<db, shm, nSecId, loadTime, job, at, dym, sets, inForce>>
  BY DEF L!RulesDone
<1>8. handles' \in Int /\ lost' \in Int /\ handles' = 1 + lost'
  <2>1. handles \in Int /\ lost \in Int /\ handles = Len(frames) + lost
    BY DEF LoadInv, L!CursorsClosed
  <2>2. handles' = handles - 1 /\ lost' = lost
    OBVIOUS
  <2> QED
    BY ONLY <1>1, <2>1, <2>2
<1>9. ASSUME NEW h, frames' = <<h>>, h.cur = "group", ~h.due, Reading(h, Row, src, fin)
      PROVE  LoadInv'
  <2>1. DefsRun(h)'
    BY <1>2, <1>3, <1>7, <1>9 DEF DefsRun, L!Kind
  <2>2. Len(frames') = 1
    BY <1>9
  <2> QED
    BY <1>7, <1>8, <2>1, <2>2, FramesStep
<1>10. CASE ret # 0
  <2>1. PICK r : r = SubSeq(f.rows, 1, Len(f.rows) - 1)
    OBVIOUS
  <2>2. PICK h : h = [f EXCEPT !.rows = r, !.due = FALSE, !.loop = FALSE, !.ret = -1]
    OBVIOUS
  <2>3. h = [f EXCEPT !.due = FALSE, !.rows = r, !.loop = FALSE, !.ret = -1]
    BY <1>4, <2>2 DEF IsFrame
  <2>4. frames' = <<h>>
    BY <1>1, <1>10, <2>1, <2>3 DEF L!RulesDone
  <2>5. h.cur = f.cur /\ ~h.due /\ Reading(h, Row, src, fin)
    BY <1>4, <2>2, ReadFails
  <2> QED
    BY <1>2, <1>9, <2>4, <2>5
<1>11. CASE ret = 0
  <2>1. PICK h : h = [f EXCEPT !.due = FALSE, !.rows[n].sub = g.rows]
    OBVIOUS
  <2>2. frames' = <<h>>
    BY <1>1, <1>5, <1>11, <2>1 DEF L!RulesDone
  <2>3. g.rows = src[n].sub
    <3>1. PICK q \in Seq(SubRow) : q = src[n].sub
      BY <1>6
    <3>2. Reading(g, SubRow, q, q) /\ g.ret = 0
      BY <1>3, <1>5, <1>11, <3>1 DEF RulesRun
    <3>3. Len(q) \in Nat /\ q = [i \in 1 .. Len(q) |-> q[i]]
      OBVIOUS
    <3> QED
      BY <3>1, <3>2, <3>3, ReadAll
  <2>4. PICK rows \in Seq(Row), left \in Seq(Row) :
          /\ rows = f.rows /\ left = f.left /\ Len(rows) + Len(left) = Len(src)
          /\ \A i \in 1 .. Len(left) : left[i] = src[Len(rows) + i]
          /\ \A i \in 1 .. Len(rows) : i # Len(rows) => rows[i] = fin[i]
          /\ Len(rows) <= N_MAX["group"]
    BY <1>2, <1>4 DEF Reading
  <2>5. fin[n] = src[n]
    <3>1. "group" \in KindSet
      BY DEF KindSet
    <3>2. fin[n] = L!Whole("group", src[n])
      BY <1>3, <1>6, <3>1, DbRows
    <3> QED
      BY <1>6, <3>2, RowStored
  <2>6. PICK r : r = [rows EXCEPT ![n].sub = g.rows]
    OBVIOUS
  <2>7. n \in 1 .. Len(rows) /\ n = Len(rows)
    BY <1>5, <1>6, <2>4
  <2>8. [rows[n] EXCEPT !.sub = g.rows] = src[n]
    BY <1>6, <2>3, <2>4, RowStored
  <2>9. r = [rows EXCEPT ![n] = src[n]]
    BY <2>6, <2>7, <2>8
  <2>10. /\ r \in Seq(Row) /\ Len(r) = Len(rows) /\ r[n] = src[n]
         /\ \A i \in 1 .. Len(rows) : i # n => r[i] = rows[i]
    <3>1. PICK row \in Row : row = src[n]
      BY <1>6
    <3> QED
      BY ONLY <2>7, <2>9, <3>1, row \in Row, rows \in Seq(Row)
  <2>11. \A i \in 1 .. Len(r) : r[i] = fin[i]
    BY <2>4, <2>5, <2>7, <2>10
  <2>12. h = [cur |-> "group", left |-> left, rows |-> r, ret |-> 0, loop |-> TRUE, due |-> FALSE]
    <3>1. f = [cur |-> "group", left |-> left, rows |-> rows, ret |-> 0, loop |-> TRUE, due |-> TRUE]
      BY <1>2, <1>4, <2>4 DEF IsFrame
    <3>2. h = [f EXCEPT !.due = FALSE, !.rows = r]
      BY ONLY <2>1, <2>6, <3>1
    <3> QED
      BY ONLY <3>1, <3>2
  <2>13. h.cur = "group" /\ h.left = left /\ h.rows = r /\ h.ret = 0 /\ h.loop = TRUE /\ h.due = FALSE
    BY ONLY <2>12
  <2>14. IsFrame(h)
    BY ONLY <2>12, <2>13 DEF IsFrame
  <2>15. Reading(h, Row, src, fin)
    BY <2>4, <2>10, <2>11, <2>13, <2>14, ZenonT(40) DEF Reading
  <2> QED
    BY <1>9, <2>2, <2>13, <2>15
<1> QED
  BY <1>10, <1>11

\* The elements of a set are read: the set joins the table, or there is none.
LEMMA ElementsDoneInv ==
  ASSUME LoadConstants, LoadInv, NEW f, SetRun(f), job = "check", NEW ret,
         L!ElementsDone(ret), handles' = handles - 1, UNCHANGED <<db, loadTime, lost>>
  PROVE  LoadInv'
<1>1. frames = <<f>> /\ L!Top = f /\ Len(frames) = 1 /\ at = 1 /\ Len(sets) < Len(L!Source.rows)
  BY OneFrame DEF SetRun
<1>2. UNCHANGED <<db, shm, nSecId, loadTime, inForce>>
  BY DEF L!ElementsDone
<1>3. handles' \in Int /\ lost' \in Int /\ handles' = lost'
  <2>1. handles \in Int /\ lost \in Int /\ handles = Len(frames) + lost
    BY DEF LoadInv, L!CursorsClosed
  <2>2. handles' = handles - 1 /\ lost' = lost
    OBVIOUS
  <2> QED
    BY ONLY <1>1, <2>1, <2>2
<1>4. /\ db \in Database /\ loadTime \in Nat /\ nSecId \in {0, 1} /\ InForce
      /\ shm = [s \in {0, 1} |-> [k \in KindSet |-> shm[s][k]]] /\ dym = [k \in KindSet |-> dym[k]]
      /\ Checking
  BY DEF LoadInv
<1>5. CASE L!Idle /\ dym' = L!AfterFailure
  <2>1. job' = "idle" /\ at' = 1 /\ frames' = <<>>
    BY <1>5 DEF L!Idle
  <2>2. dym' = [k \in KindSet |-> dym'[k]] /\ \A k \in KindSet : dym'[k] = <<>> \/ dym'[k] = dym[k]
    BY <1>5, TablesLeft
  <2>3. InForce'
    BY <1>2, <1>4, <2>1, <2>2, InForceKept
  <2> QED
    BY <1>2, <1>3, <1>4, <2>1, <2>2, <2>3, IdleInv
<1>6. ASSUME NEW x, x.id = L!Source.rows[Len(sets) + 1].id, sets' = Append(sets, x),
             frames' = <<>>, UNCHANGED <<job, at, dym>>
      PROVE  LoadInv'
  <2>1. L!Source' = L!Source
    BY <1>2, <1>6 DEF L!Source, L!Kind
  <2>2. InForce'
    BY <1>2, <1>4, <1>6, InForceKept
  <2>3. PICK S : sets \in Seq(S)
    BY <1>1, <1>4 DEF Checking
  <2>4. PICK T : T = S \cup {x}
    OBVIOUS
  <2>5. sets \in Seq(T) /\ x \in T
    BY <2>3, <2>4
  <2>6. /\ sets' \in Seq(T) /\ Len(sets') = Len(sets) + 1 /\ Len(sets) \in Nat
        /\ sets'[Len(sets) + 1] = x /\ \A i \in 1 .. Len(sets) : sets'[i] = sets[i]
    BY ONLY <1>6, <2>5
  <2>7. Len(sets) <= Len(L!Source.rows) /\ \A i \in 1 .. Len(sets) : sets[i].id = L!Source.rows[i].id
    BY <1>1, <1>4 DEF Checking
  <2>8. \A i \in 1 .. Len(sets') : sets'[i].id = L!Source.rows[i].id
    <3>1. ASSUME NEW i \in 1 .. Len(sets')
          PROVE  sets'[i].id = L!Source.rows[i].id
      <4>1. i \in 1 .. Len(sets) \/ i = Len(sets) + 1
        BY <2>6
      <4> QED
        BY <1>6, <2>6, <2>7, <4>1
    <3> QED
      BY <3>1
  <2>9. Len(L!Source.rows) \in Nat
    <3>1. inForce # <<>> /\ L!Kind \in KindSet
      BY <1>4, KindOf DEF Checking
    <3>2. L!Source.rows = Final(L!Kind, inForce[1][L!Kind]) /\ inForce[1] \in Database
      BY <1>4, <3>1 DEF InForce, Loaded, L!Source
    <3> QED
      BY <3>1, <3>2, FinalRows
  <2>10. Len(sets') <= Len(L!Source.rows)
    BY <1>1, <2>6, <2>9
  <2>11. Checking'
    BY <1>2, <1>4, <1>6, <2>1, <2>6, <2>8, <2>10 DEF Checking
  <2>12. L!CursorsClosed'
    <3>1. Len(<<>>) = 0
      OBVIOUS
    <3> QED
      BY <1>3, <1>6, <3>1 DEF L!CursorsClosed
  <2> QED
    BY <1>1, <1>2, <1>3, <1>4, <1>6, <2>2, <2>11, <2>12 DEF LoadInv
<1>7. PICK row, x : row = L!Source.rows[Len(sets) + 1] /\ x = [id |-> row.id, calc |-> TRUE, sub |-> f.rows]
  OBVIOUS
<1>8. x.id = row.id /\ shm[nSecId]["set"] = L!Source
  BY <1>1, <1>7, KindsOf DEF L!Source, L!Kind
<1> QED
  BY <1>1, <1>5, <1>6, <1>7, <1>8 DEF L!ElementsDone

LEMMA CloseInv ==
  ASSUME LoadConstants, LoadInv, L!Close
  PROVE  LoadInv'
<1>1. L!Running /\ ~L!Top.loop /\ handles' = handles - 1 /\ UNCHANGED <<db, loadTime, lost>>
  BY DEF L!Close
<1>2. PICK ret \in {L!Top.ret, -1} : L!Done(ret)
  BY DEF L!Close
<1>3. ASSUME NEW f, DefsRun(f), job = "load"
      PROVE  LoadInv'
  <2>1. L!Top = f
    BY <1>3, OneFrame DEF DefsRun
  <2>2. f.cur \in KindSet
    BY <1>3, KindOf DEF DefsRun
  <2>3. f.cur # "rule" /\ f.cur # "element"
    BY <2>2 DEF KindSet
  <2>4. L!DefsDone(ret)
    BY <1>2, <2>1, <2>3 DEF L!Done
  <2> QED
    BY <1>1, <1>2, <1>3, <2>1, <2>4, DefsDoneInv
<1>4. ASSUME NEW f, NEW g, RulesRun(f, g), job = "load"
      PROVE  LoadInv'
  <2>1. L!Top = g /\ g.cur = "rule"
    BY <1>4, TwoFrames DEF RulesRun
  <2>2. L!RulesDone(ret)
    BY <1>2, <2>1 DEF L!Done
  <2> QED
    BY <1>1, <1>2, <1>4, <2>1, <2>2, RulesDoneInv
<1>5. ASSUME NEW f, SetRun(f), job = "check"
      PROVE  LoadInv'
  <2>1. L!Top = f /\ f.cur = "element"
    BY <1>5, OneFrame DEF SetRun
  <2>2. L!ElementsDone(ret)
    BY <1>2, <2>1 DEF L!Done
  <2> QED
    BY <1>1, <1>5, <2>2, ElementsDoneInv
<1> QED
  BY <1>1, <1>3, <1>4, <1>5, LoaderOf

\* The items of a table, and its rules, are those of the rows.
LEMMA TableCompiled ==
  ASSUME NEW k \in KindSet \ {"set"}, NEW src, src.rows \in Seq(Row), NEW new, new = L!NewTable(k, src), new # <<>>
  PROVE  new[1].time = src.time /\ Compiled(k, new[1].items, src.rows)
<1>1. PICK rows \in Seq(Row) : rows = src.rows
  OBVIOUS
<1>2. Len(rows) \in Nat /\ DOMAIN rows = 1 .. Len(rows) /\ \A i \in 1 .. Len(rows) : rows[i] \in Row
  OBVIOUS
<1>3. new = L!TableOf(k, src)
  <2>1. k = "sdi" \/ k = "ddi" \/ k = "hdi" \/ k = "group"
    BY DEF KindSet
  <2> QED
    BY <2>1 DEF L!NewTable, L!kr_sdi_table_construct, L!kr_ddi_table_construct, L!kr_hdi_table_construct,
                L!kr_group_list_construct
<1>4. PICK items : items = [i \in 1 .. Len(rows) |-> L!ItemOf(k, rows[i])[1]]
  OBVIOUS
<1>5. /\ \A i \in 1 .. Len(rows) : L!ItemOf(k, rows[i]) # <<>>
      /\ new = <<[items |-> items, time |-> src.time]>>
  BY <1>1, <1>2, <1>3, <1>4 DEF L!TableOf
<1>6. new[1].items = items /\ new[1].time = src.time
  BY ONLY <1>5
<1>7. ASSUME NEW i \in 1 .. Len(rows)
      PROVE  /\ items[i].id = rows[i].id
             /\ k = "group" => /\ DOMAIN items[i].sub = 1 .. Len(rows[i].sub)
                               /\ \A j \in 1 .. Len(rows[i].sub) : items[i].sub[j].id = rows[i].sub[j].id
  <2>1. PICK row \in Row : row = rows[i]
    BY <1>2
  <2>2. items[i] = L!ItemOf(k, row)[1] /\ L!ItemOf(k, row) # <<>>
    BY <1>4, <1>5, <2>1
  <2>3. k = "sdi" \/ k = "ddi" \/ k = "hdi" \/ k = "group"
    BY DEF KindSet
  <2>4. CASE k = "sdi" \/ k = "ddi"
    <3>1. items[i] = L!RuleItem(row)
      BY <2>2, <2>4 DEF L!ItemOf, L!SdiItem, L!DdiItem
    <3> QED
      BY <2>1, <2>4, <3>1 DEF L!RuleItem
  <2>5. CASE k = "hdi"
    <3>1. items[i] = [id |-> row.id, calc |-> TRUE, sub |-> <<>>]
      BY <2>2, <2>5 DEF L!ItemOf, L!HdiItem
    <3> QED
      BY <2>1, <2>5, <3>1
  <2>6. CASE k = "group"
    <3>1. items[i] = [id |-> row.id, calc |-> TRUE, sub |-> L!RuleList(row)]
      BY <2>2, <2>6 DEF L!ItemOf, L!GroupItem
    <3>2. items[i].id = row.id /\ items[i].sub = L!RuleList(row)
      BY ONLY <3>1
    <3>3. PICK sub \in Seq(SubRow) : sub = row.sub
      BY DEF Row
    <3>4. DOMAIN sub = 1 .. Len(sub)
      OBVIOUS
    <3>5. L!RuleList(row) = [j \in 1 .. Len(sub) |-> L!RuleItem(sub[j])]
      BY <3>3, <3>4 DEF L!RuleList
    <3>6. \A x : L!RuleItem(x).id = x.id
      BY DEF L!RuleItem
    <3> QED
      BY <2>1, <3>2, <3>3, <3>5, <3>6
  <2> QED
    BY <2>3, <2>4, <2>5, <2>6
<1>8. DOMAIN items = 1 .. Len(rows)
  BY <1>4
<1>9. Len(items) = Len(rows)
  <2>1. PICK n \in Nat : n = Len(rows)
    BY <1>2
  <2>2. PICK T : T = {items[i] : i \in 1 .. n}
    OBVIOUS
  <2>3. items \in [1 .. n -> T]
    BY <1>4, <2>1, <2>2
  <2> QED
    BY ONLY <2>1, <2>3, n \in Nat
<1> QED
  BY <1>1, <1>6, <1>7, <1>8, <1>9 DEF Compiled

\* The tables of a thread: kept, compiled, given up.
LEMMA CheckInv ==
  ASSUME LoadConstants, LoadInv, L!KeepTable \/ L!BuildTable \/ L!SetsBuilt
  PROVE  LoadInv'
<1>1. job = "check" /\ UNCHANGED <<db, shm, nSecId, loadTime, handles, lost, inForce>>
  BY DEF L!KeepTable, L!BuildTable, L!SetsBuilt, L!SetsLeft
<1>2. /\ db \in Database /\ loadTime \in Nat /\ nSecId \in {0, 1} /\ at \in 1 .. 5 /\ InForce
      /\ shm = [s \in {0, 1} |-> [k \in KindSet |-> shm[s][k]]] /\ dym = [k \in KindSet |-> dym[k]]
      /\ Checking /\ inForce # <<>> /\ handles \in Int /\ lost \in Int
  BY <1>1 DEF LoadInv, Checking
<1>3. frames = <<>>
  <2>1. ASSUME NEW f, SetRun(f)
        PROVE  FALSE
    <3>1. at = 1 /\ L!Outdated /\ L!Running /\ L!Kind = "set"
      BY <2>1, OneFrame, KindOf DEF SetRun
    <3> QED
      BY <3>1 DEF L!KeepTable, L!BuildTable, L!SetsBuilt, L!SetsLeft
  <2> QED
    BY <1>2, <2>1 DEF Checking
<1>4. handles' \in Int /\ lost' \in Int /\ handles' = lost'
  <2>1. Len(<<>>) = 0
    OBVIOUS
  <2> QED
    BY <1>1, <1>2, <1>3, <2>1 DEF LoadInv, L!CursorsClosed
<1>5. PICK k \in KindSet : k = L!Kind
  BY KindOf
<1>6. /\ L!Source = shm[nSecId][k] /\ L!Source.rows \in Seq(Row) /\ Len(L!Source.rows) \in Nat
      /\ DOMAIN L!Source.rows = 1 .. Len(L!Source.rows)
  <2>1. L!Source = shm[nSecId][k] /\ L!Source.rows = Final(k, inForce[1][k]) /\ inForce[1] \in Database
    BY <1>2, <1>5 DEF InForce, Loaded, L!Source
  <2> QED
    BY <2>1, FinalRows
<1>7. ASSUME frames' = <<>>, dym' = [c \in KindSet |-> dym'[c]], InForce',
             \/ job' = "idle" /\ at' = 1
             \/ job' = "check" /\ at < 5 /\ at' = at + 1
      PROVE  LoadInv'
  <2>1. CASE job' = "idle" /\ at' = 1
    BY <1>1, <1>2, <1>4, <1>7, <2>1, IdleInv
  <2>2. CASE job' = "check" /\ at < 5 /\ at' = at + 1
    <3>1. at' \in 1 .. 5 /\ at' # 1
      BY <1>2, <2>2
    <3>2. Checking'
      BY <1>1, <1>2, <1>7, <3>1 DEF Checking
    <3>3. L!CursorsClosed'
      <4>1. Len(<<>>) = 0
        OBVIOUS
      <4> QED
        BY <1>4, <1>7, <4>1 DEF L!CursorsClosed
    <3> QED
      BY <1>1, <1>2, <1>4, <1>7, <2>2, <3>1, <3>2, <3>3 DEF LoadInv
  <2> QED
    BY <1>7, <2>1, <2>2
<1>8. L!NextKind => (job' = "idle" /\ at' = 1) \/ (job' = "check" /\ at < 5 /\ at' = at + 1)
  BY <1>1, KindsOf DEF L!NextKind
<1>9. CASE L!KeepTable
  <2>1. frames' = <<>> /\ dym' = dym /\ L!NextKind
    BY <1>3, <1>9 DEF L!KeepTable
  <2>2. job' # "load"
    BY <1>8, <2>1
  <2>3. InForce'
    BY <1>1, <1>2, <2>1, <2>2, InForceKept
  <2> QED
    BY <1>2, <1>7, <1>8, <2>1, <2>3
<1>10. ASSUME NEW new, dym' = [dym EXCEPT ![k] = new], new # <<>>, new[1].time = L!Source.time,
              Compiled(k, new[1].items, L!Source.rows), job' # "load"
       PROVE  dym' = [c \in KindSet |-> dym'[c]] /\ InForce'
  <2>1. dym' = [c \in KindSet |-> IF c = k THEN new ELSE dym[c]]
    BY <1>2, <1>10
  <2>2. \A c \in KindSet : dym'[c] = IF c = k THEN new ELSE dym[c]
    BY <2>1
  <2>3. \A c \in KindSet :
           \/ dym'[c] = <<>> \/ dym'[c] = dym[c]
           \/ /\ inForce # <<>> /\ dym'[c][1].time = shm[nSecId][c].time
              /\ Compiled(c, dym'[c][1].items, shm[nSecId][c].rows)
    BY <1>2, <1>6, <1>10, <2>2
  <2>4. InForce'
    BY <1>1, <1>2, <1>10, <2>3, InForceKept
  <2> QED
    BY <2>1, <2>2, <2>4
<1>11. CASE L!BuildTable
  <2>1. PICK new : new = L!NewTable(k, L!Source)
    OBVIOUS
  <2>2. CASE new = <<>>
    <3>1. L!Idle /\ dym' = L!AfterFailure
      BY <1>5, <1>11, <2>1, <2>2 DEF L!BuildTable
    <3>2. job' = "idle" /\ at' = 1 /\ frames' = <<>>
      BY <3>1 DEF L!Idle
    <3>3. dym' = [c \in KindSet |-> dym'[c]] /\ \A c \in KindSet : dym'[c] = <<>> \/ dym'[c] = dym[c]
      BY <3>1, TablesLeft
    <3>4. InForce'
      BY <1>1, <1>2, <3>2, <3>3, InForceKept
    <3> QED
      BY <1>7, <3>2, <3>3, <3>4
  <2>3. CASE new # <<>>
    <3>1. dym' = [dym EXCEPT ![k] = new] /\ L!NextKind /\ frames' = <<>> /\ k # "set"
      BY <1>3, <1>5, <1>11, <2>1, <2>3 DEF L!BuildTable
    <3>2. new[1].time = L!Source.time /\ Compiled(k, new[1].items, L!Source.rows)
      BY <1>6, <2>1, <2>3, <3>1, TableCompiled
    <3>3. dym' = [c \in KindSet |-> dym'[c]] /\ InForce'
      BY <1>8, <1>10, <2>3, <3>1, <3>2
    <3> QED
      BY <1>7, <1>8, <3>1, <3>3
  <2> QED
    BY <2>2, <2>3
<1>12. CASE L!SetsBuilt
  <2>1. PICK tab, new : tab = [items |-> sets, time |-> L!Source.time] /\ new = <<tab>>
    OBVIOUS
  <2>2. /\ k = "set" /\ Len(sets) = Len(L!Source.rows) /\ dym' = [dym EXCEPT ![k] = new]
        /\ at' = at + 1 /\ job' = "check" /\ frames' = <<>>
    BY <1>1, <1>3, <1>5, <1>12, <2>1 DEF L!SetsBuilt, L!SetsLeft
  <2>3. at = 1
    BY <1>5, <2>2, KindOf
  <2>4. new # <<>> /\ new[1].items = sets /\ new[1].time = L!Source.time
    BY ONLY <2>1
  <2>5. PICK S : sets \in Seq(S) /\ \A i \in 1 .. Len(sets) : sets[i].id = L!Source.rows[i].id
    BY <1>2, <2>3 DEF Checking
  <2>6. DOMAIN sets = 1 .. Len(sets)
    BY <2>5
  <2>7. Compiled(k, new[1].items, L!Source.rows)
    BY <2>2, <2>4, <2>5, <2>6 DEF Compiled
  <2>8. dym' = [c \in KindSet |-> dym'[c]] /\ InForce'
    BY <1>10, <2>2, <2>4, <2>7
  <2> QED
    BY <1>7, <2>2, <2>3, <2>8
<1> QED
  BY <1>9, <1>11, <1>12

\* Jobs begin, the database changes, a thread ends.
LEMMA JobInv ==
  ASSUME LoadConstants, LoadInv, L!Edit \/ L!StartLoad \/ L!StartCheck \/ L!Destruct
  PROVE  LoadInv'
<1>1. /\ job = "idle" /\ frames = <<>> /\ at = 1
      /\ UNCHANGED <<shm, nSecId, at, frames, handles, lost, inForce>>
  BY DEF LoadInv, L!Edit, L!StartLoad, L!StartCheck, L!Destruct
<1>2. /\ db \in Database /\ loadTime \in Nat /\ nSecId \in {0, 1} /\ InForce
      /\ shm = [s \in {0, 1} |-> [k \in KindSet |-> shm[s][k]]] /\ dym = [k \in KindSet |-> dym[k]]
      /\ handles \in Int /\ lost \in Int /\ handles = lost
  <2>1. Len(<<>>) = 0
    OBVIOUS
  <2> QED
    BY <1>1, <2>1 DEF LoadInv, L!CursorsClosed
<1>3. CASE L!Edit
  <2>1. db' \in Database /\ UNCHANGED <<loadTime, job, dym>>
    BY <1>3 DEF L!Edit
  <2>2. InForce'
    BY <1>1, <1>2, <2>1, InForceKept
  <2> QED
    BY <1>1, <1>2, <2>1, <2>2, IdleInv
<1>4. CASE L!Destruct
  <2>1. dym' = [k \in KindSet |-> <<>>] /\ UNCHANGED <<db, loadTime, job>>
    BY <1>4, KindsOf DEF L!Destruct
  <2>2. dym' = [k \in KindSet |-> dym'[k]] /\ \A k \in KindSet : dym'[k] = <<>>
    BY <2>1
  <2>3. InForce'
    BY <1>1, <1>2, <2>1, <2>2, InForceKept
  <2> QED
    BY <1>1, <1>2, <2>1, <2>2, <2>3, IdleInv
<1>5. CASE L!StartLoad
  <2>1. job' = "load" /\ loadTime' = loadTime + 1 /\ UNCHANGED <<db, dym>>
    BY <1>5 DEF L!StartLoad
  <2>2. loadTime' \in Nat /\ loadTime < loadTime'
    BY <1>2, <2>1
  <2>3. InForce'
    BY <1>1, <1>2, <2>1, <2>2, InForceKept
  <2>4. Loading'
    <3>1. 1 .. at' - 1 = {}
      BY <1>1
    <3> QED
      BY <1>1, <3>1 DEF Loading, KindsBefore
  <2> QED
    BY <1>1, <1>2, <2>1, <2>2, <2>3, <2>4 DEF LoadInv, L!CursorsClosed
<1>6. CASE L!StartCheck
  <2>1. job' = "check" /\ inForce # <<>> /\ sets' = <<>> /\ UNCHANGED <<db, dym, loadTime>>
    BY <1>6 DEF L!StartCheck
  <2>2. InForce'
    BY <1>1, <1>2, <2>1, InForceKept
  <2>3. Checking'
    <3>1. L!Kind = "set" /\ L!Source' = L!Source
      BY <1>1, <2>1, KindsOf DEF L!Kind, L!Source
    <3>2. "set" \in KindSet
      BY DEF KindSet
    <3>3. Len(L!Source.rows) \in Nat
      <4>1. L!Source.rows = Final("set", inForce[1]["set"]) /\ inForce[1] \in Database
        BY <1>2, <2>1, <3>1, <3>2 DEF InForce, Loaded, L!Source
      <4> QED
        BY <3>2, <4>1, FinalRows
    <3>4. <<>> \in Seq({}) /\ Len(<<>>) = 0 /\ 1 .. 0 = {}
      OBVIOUS
    <3>5. \E S : sets' \in Seq(S)
      BY <2>1, <3>4
    <3> QED
      BY <1>1, <2>1, <3>1, <3>3, <3>4, <3>5 DEF Checking
  <2> QED
    BY <1>1, <1>2, <2>1, <2>2, <2>3 DEF LoadInv, L!CursorsClosed
<1> QED
  BY <1>3, <1>4, <1>5, <1>6

LEMMA LoadInitInv ==
  ASSUME LoadConstants, L!LoadInit
  PROVE  LoadInv
<1>1. /\ db \in Database /\ nSecId = 0 /\ loadTime = 0 /\ job = "idle" /\ at = 1 /\ frames = <<>>
      /\ shm = [s \in {0, 1} |-> [k \in KindSet |-> L!Blank]] /\ dym = [k \in KindSet |-> <<>>]
      /\ handles = 0 /\ lost = 0 /\ inForce = <<>>
  BY KindsOf DEF L!LoadInit
<1>2. \A s \in {0, 1}, k \in KindSet : shm[s][k] = L!Blank /\ dym[k] = <<>>
  BY <1>1
<1>3. shm = [s \in {0, 1} |-> [k \in KindSet |-> shm[s][k]]] /\ dym = [k \in KindSet |-> dym[k]]
  BY ONLY <1>1
<1>4. InForce
  BY <1>1, <1>2 DEF InForce
<1>5. Len(<<>>) = 0
  OBVIOUS
<1> QED
  BY <1>1, <1>3, <1>4, <1>5 DEF LoadInv, L!CursorsClosed

\* A step of cursor cur, whichever it is.
LEMMA CursorLoopInv ==
  ASSUME LoadConstants, LoadInv, NEW cur, cur # "element", L!CursorLoop(cur)
  PROVE  LoadInv'
<1>1. L!Top.cur # "element"
  BY DEF L!CursorLoop
<1>2. CASE L!FetchRow
  BY <1>1, <1>2, FetchRowInv
<1>3. CASE L!TooMany \/ L!FetchEnd \/ L!FetchFails
  BY <1>3, StopsInv DEF L!TooMany, L!FetchEnd, L!FetchFails
<1>4. CASE L!Close
  BY <1>4, CloseInv
<1> QED
  BY <1>2, <1>3, <1>4 DEF L!CursorLoop

\* Every step of the loaders keeps LoadInv, whatever call fails, at whatever
\* nesting.
LEMMA LoadStepInv ==
  ASSUME LoadConstants, LoadInv, [L!LoadNext]_L!loadVars
  PROVE  LoadInv'
<1>1. CASE UNCHANGED L!loadVars
  BY <1>1 DEF L!loadVars, LoadInv, Loading, Checking, InForce, KindsBefore, DefsRun, RulesRun, SetRun, Loaded, Past,
              Compiled, L!CursorsClosed, L!Kind, L!Back, L!Source, L!Outdated
<1>2. CASE L!Edit \/ L!StartLoad \/ L!StartCheck \/ L!Destruct
  BY <1>2, JobInv
<1>3. CASE L!KeepTable \/ L!BuildTable \/ L!SetsBuilt
  BY <1>3, CheckInv
<1>4. ASSUME NEW kind, L!OpenDefs(kind)
      PROVE  LoadInv'
  BY <1>4, OpenDefsInv
<1>5. ASSUME NEW cur, cur # "element", L!CursorLoop(cur)
      PROVE  LoadInv'
  BY <1>5, CursorLoopInv
<1>6. CASE \/ L!kr_shm_set_load \/ L!kr_shm_sdi_load \/ L!kr_shm_ddi_load \/ L!kr_shm_hdi_load
           \/ L!kr_shm_group_load
  BY <1>4, <1>5, <1>6 DEF L!kr_shm_set_load, L!kr_shm_sdi_load, L!kr_shm_ddi_load, L!kr_shm_hdi_load, L!kr_shm_group_load
<1>7. CASE L!kr_shm_rule_load
  BY <1>5, <1>7, OpenRulesInv DEF L!kr_shm_rule_load
<1>8. CASE L!kr_set_load
  <2>1. CASE L!OpenElements
    BY <2>1, OpenElementsInv
  <2>2. CASE L!Top.cur = "element" /\ L!AddElement
    BY <2>2, AddElementInv
  <2>3. CASE L!FetchEnd \/ L!FetchFails
    BY <2>3, StopsInv DEF L!FetchEnd, L!FetchFails
  <2>4. CASE L!Close
    BY <2>4, CloseInv
  <2> QED
    BY <1>8, <2>1, <2>2, <2>3, <2>4 DEF L!kr_set_load
<1> QED
  BY <1>1, <1>2, <1>3, <1>6, <1>7, <1>8 DEF L!LoadNext

\* LoadInv implies that what is in force is whole.
LEMMA InForceIsWhole ==
  ASSUME LoadConstants, LoadInv
  PROVE  L!LoadedWhole
<1>1. InForce
  BY DEF LoadInv
<1>2. ASSUME inForce # <<>>, NEW k \in KindSet
      PROVE  /\ Len(shm[nSecId][k].rows) <= N_MAX[k]
             /\ shm[nSecId][k].rows = [i \in DOMAIN inForce[1][k] |-> L!Whole(k, inForce[1][k][i])]
  <2>1. inForce[1] \in Database /\ Loaded(shm[nSecId][k], k, inForce[1])
    BY <1>1, <1>2 DEF InForce
  <2> QED
    BY <2>1, FinalRows DEF Loaded
<1>3. ASSUME NEW k \in KindSet, dym[k] # <<>>, dym[k][1].time = shm[nSecId][k].time
      PROVE  LET rows == shm[nSecId][k].rows
                 items == dym[k][1].items
             IN  /\ Len(items) = Len(rows)
                 /\ \A i \in DOMAIN rows : \E p \in DOMAIN items :
                      /\ L!LookupItem(items, rows[i].id) = {p}
                      /\ k = "group" => \A j \in DOMAIN rows[i].sub : \E q \in DOMAIN items[p].sub :
                           L!LookupItem(items[p].sub, rows[i].sub[j].id) = {q}
  <2> DEFINE rows == shm[nSecId][k].rows
             items == dym[k][1].items
  <2>1. rows = shm[nSecId][k].rows /\ items = dym[k][1].items
    OBVIOUS
  <2> HIDE DEF rows, items
  <2>2. Compiled(k, items, rows) /\ inForce # <<>>
    BY <1>1, <1>3, <2>1 DEF InForce
  <2>3. inForce[1] \in Database /\ rows = Final(k, inForce[1][k])
    BY <1>1, <2>1, <2>2 DEF InForce, Loaded
  <2>4. /\ rows \in Seq(Row) /\ Len(rows) \in Nat /\ DOMAIN rows = 1 .. Len(rows)
        /\ \A i, j \in 1 .. Len(rows) : rows[i].id = rows[j].id => i = j
        /\ k = "group" => \A i \in 1 .. Len(rows) : \A m, n \in 1 .. Len(rows[i].sub) :
             rows[i].sub[m].id = rows[i].sub[n].id => m = n
    BY <2>3, FinalRows
  <2>5. /\ DOMAIN items = 1 .. Len(rows) /\ Len(items) = Len(rows)
        /\ \A i \in 1 .. Len(rows) : items[i].id = rows[i].id
    BY <2>2 DEF Compiled
  <2>6. ASSUME NEW i \in 1 .. Len(rows)
        PROVE  /\ L!LookupItem(items, rows[i].id) = {i}
               /\ k = "group" => \A j \in DOMAIN rows[i].sub : \E q \in DOMAIN items[i].sub :
                    L!LookupItem(items[i].sub, rows[i].sub[j].id) = {q}
    <3>1. L!LookupItem(items, rows[i].id) = {i}
      BY ONLY <2>4, <2>5, i \in 1 .. Len(rows) DEF L!LookupItem
    <3>2. ASSUME k = "group", NEW j \in DOMAIN rows[i].sub
          PROVE  \E q \in DOMAIN items[i].sub : L!LookupItem(items[i].sub, rows[i].sub[j].id) = {q}
      <4>1. PICK sub, made : sub = rows[i].sub /\ made = items[i].sub
        OBVIOUS
      <4>2. sub \in Seq(SubRow)
        <5>1. rows[i] \in Row
          BY <2>4
        <5> QED
          BY <4>1, <5>1 DEF Row
      <4>3. DOMAIN sub = 1 .. Len(sub)
        BY <4>2
      <4>4. DOMAIN made = 1 .. Len(sub) /\ \A m \in 1 .. Len(sub) : made[m].id = sub[m].id
        BY <2>2, <3>2, <4>1 DEF Compiled
      <4>5. \A m, n \in 1 .. Len(sub) : sub[m].id = sub[n].id => m = n
        BY <2>4, <3>2, <4>1
      <4>6. j \in 1 .. Len(sub)
        BY <4>1, <4>3
      <4>7. L!LookupItem(made, sub[j].id) = {j}
        BY ONLY <4>4, <4>5, <4>6 DEF L!LookupItem
      <4> QED
        BY <4>1, <4>4, <4>6, <4>7
    <3> QED
      BY <3>1, <3>2
  <2>7. \A i \in DOMAIN rows : \E p \in DOMAIN items :
          /\ L!LookupItem(items, rows[i].id) = {p}
          /\ k = "group" => \A j \in DOMAIN rows[i].sub : \E q \in DOMAIN items[p].sub :
               L!LookupItem(items[p].sub, rows[i].sub[j].id) = {q}
    <3> TAKE i \in DOMAIN rows
    <3>1. i \in 1 .. Len(rows) /\ i \in DOMAIN items
      BY <2>4, <2>5
    <3>2. i \in DOMAIN items
      BY <3>1
    <3> WITNESS i \in DOMAIN items
    <3> QED
      BY ONLY <2>6, <3>1
  <2> QED
    BY ONLY <2>5, <2>7 DEF rows, items
<1> QED
  BY <1>2, <1>3, KindsOf DEF L!LoadedWhole

-----------------------------------------------------------------------------
(***************************************************************************)
(* Start and shutdown of the engine.                                       *)
(***************************************************************************)

BuiltIndex == [id : Int, type : STRING, hash : Int]
BuiltTable == [id : Int, fields : Nat, index : Seq(BuiltIndex)]
Shared == [id : Int, table : Int]

\* The steps of kr_db_startup between kr_create_db and the last table.
Building == {"table", "select", "counted", "index"}

\* The start is at its n-th step.
AtStep(n) == upAt = U!Order[n] \/ (upAt \in Building /\ U!Order[n] = "krdb")

\* It has neither failed nor ended.
Alive == \E n \in 1 .. 13 : AtStep(n)

\* Table tb has a shared index of id x.
Builds(tb, x) == \E i \in 1 .. Len(tb.index) : tb.index[i].type = "DB" /\ tb.index[i].id = x

\* Index y of the table of this id is built as index x of the database says,
\* a shared one on the hash table of its entry in shared.
IndexBuilt(id, y, x, shared) ==
  /\ y.id = x.id /\ y.type = x.type
  /\ \/ x.type = "TABLE" /\ y.hash = id
     \/ x.type = "DB" /\ \E j \in 1 .. Len(shared) : shared[j].id = x.id /\ shared[j].table = y.hash

\* The tables so far are the first ones of the database, whole if nothing was
\* skipped, but for the one whose indexes are being built.
TablesInv ==
  /\ Len(tables) <= Len(Datasrc)
  /\ \A r \in 1 .. Len(tables) :
       /\ tables[r].id = Datasrc[r].id
       /\ skipped = {} => tables[r].fields = Datasrc[r].fields
       /\ Len(tables[r].index) <= Len(Datasrc[r].index)
       /\ \A i \in 1 .. Len(tables[r].index) : IndexBuilt(tables[r].id, tables[r].index[i], Datasrc[r].index[i], dbIndex)
       /\ skipped = {} /\ (r < Len(tables) \/ upAt # "index") => Len(tables[r].index) = Len(Datasrc[r].index)

\* The db has each shared index once, with the first table that is built with
\* it as its owner.
SharedInv ==
  /\ \A i, j \in 1 .. Len(dbIndex) : dbIndex[i].id = dbIndex[j].id => i = j
  /\ \A j \in 1 .. Len(dbIndex) : \E r \in 1 .. Len(tables) :
       /\ tables[r].id = dbIndex[j].table
       /\ Builds(tables[r], dbIndex[j].id)
       /\ \A q \in 1 .. r - 1 : ~Builds(tables[q], dbIndex[j].id)

\* What the steps before the n-th have acquired.
Taken(n) == UNION {U!Gains(U!Order[m]) : m \in {k \in 1 .. n - 1 : ~U!Omitted(U!Order[k])}}

\* What kr_db_startup holds beside the tables while it runs.
OpenAt(step) ==
  (IF step \in Building THEN U!All({"krdb", "cursor"}) ELSE {})
    \cup (IF step = "select" THEN U!All({"select"}) ELSE {})
    \cup (IF step = "index" THEN U!All({"index cursor"}) ELSE {})
Open == OpenAt(upAt)

\* The tables with their indexes and hash tables.
StoredOf(tb) ==
  {<<"table", tb.id, 0>>}
    \cup {<<"index", tb.id, tb.index[i].id>> : i \in 1 .. Len(tb.index)}
    \cup {<<"hash", tb.index[i].hash, tb.index[i].id>> : i \in 1 .. Len(tb.index)}
Stored == UNION {StoredOf(tables[r]) : r \in 1 .. Len(tables)}

\* The descriptions of indexes of an unknown type, which nobody frees.
StrayOf(row) ==
  {<<"index", row.id, row.index[i].id>> : i \in {k \in 1 .. Len(row.index) : row.index[k].type \notin {"TABLE", "DB"}}}
Stray == UNION {StrayOf(Datasrc[r]) : r \in 1 .. Len(Datasrc)}

\* What is held is what was acquired.
HeldInv(n) ==
  /\ Taken(n) \cup Open \cup Stored \subseteq held
  /\ held \subseteq Taken(n) \cup Open \cup Stored \cup Stray

StageInv(n) ==
  /\ HeldInv(n)
  /\ upAt \notin Building =>
       IF n <= 9 THEN tables = <<>> /\ dbIndex = <<>> ELSE Len(tables) = Len(Datasrc)
  /\ upAt \in {"select", "counted"} => Len(tables) < Len(Datasrc)
  /\ upAt = "index" => Len(tables) > 0

StartTypes ==
  /\ Datasrc \in Schema
  /\ config \in U!Config
  /\ tables \in Seq(BuiltTable)
  /\ dbIndex \in Seq(Shared)

StartInv ==
  /\ StartTypes
  /\ twice = {}
  /\ Alive => TablesInv /\ SharedInv
  /\ \A n \in 1 .. 13 : AtStep(n) => StageInv(n)
  /\ upAt = "stopped" => held \subseteq U!Leaked

LEMMA OrderValues ==
  /\ U!Order[1] = "engine" /\ U!Order[2] = "env" /\ U!Order[3] = "krdbModule" /\ U!Order[4] = "dataModule"
  /\ U!Order[5] = "henv" /\ U!Order[6] = "hdbc" /\ U!Order[7] = "conn" /\ U!Order[8] = "shm"
  /\ U!Order[9] = "krdb" /\ U!Order[10] = "cache" /\ U!Order[11] = "functable" /\ U!Order[12] = "context"
  /\ U!Order[13] = "running"
BY DEF U!Order

\* The thirteen steps differ, and none is a state of the start in between or
\* after.
LEMMA OrderIs ==
  /\ DOMAIN U!Order = 1 .. 13
  /\ ToSet(U!Order) = {U!Order[n] : n \in 1 .. 13}
  /\ \A m, n \in 1 .. 13 : U!Order[m] = U!Order[n] => m = n
  /\ U!Order[9] = "krdb" /\ U!Order[13] = "running"
  /\ \A n \in 1 .. 13 : U!Order[n] \notin Building \cup {"trap", "failed", "stopped"}
<1>1. DOMAIN U!Order = 1 .. 13
  BY DEF U!Order
<1>2. \A n \in 1 .. 13 : n \in {1, 2, 3, 4, 5, 6, 7, 8, 9, 10, 11, 12, 13}
  OBVIOUS
<1>4. \A m, n \in 1 .. 13 : U!Order[m] = U!Order[n] => m = n
  BY <1>2, OrderValues
<1>5. \A n \in 1 .. 13 : U!Order[n] \notin Building \cup {"trap", "failed", "stopped"}
  BY <1>2, OrderValues DEF Building
<1> QED
  BY <1>1, <1>4, <1>5, OrderValues DEF ToSet

\* A step is followed by the next one.
LEMMA FollowingIs ==
  ASSUME NEW n \in 1 .. 12
  PROVE  U!Following(U!Order[n]) = U!Order[n + 1]
<1>1. n \in DOMAIN U!Order /\ \A i \in DOMAIN U!Order : U!Order[i] = U!Order[n] => i = n
  BY OrderIs
<1>2. (CHOOSE i \in DOMAIN U!Order : U!Order[i] = U!Order[n]) = n
  BY <1>1
<1>3. 1 + n = n + 1
  OBVIOUS
<1> QED
  BY <1>2, <1>3 DEF U!Following

\* What the schema says of the rows of this database.
LEMMA RowsOfSchema ==
  ASSUME StartConstants, StartTypes
  PROVE  /\ Len(Datasrc) \in Nat
         /\ \A r \in 1 .. Len(Datasrc) :
              /\ Datasrc[r] \in SchemaRow
              /\ Datasrc[r].index \in Seq(IndexDef) /\ Len(Datasrc[r].index) \in Nat
              /\ \A i \in 1 .. Len(Datasrc[r].index) : Datasrc[r].index[i] \in IndexDef
              /\ \A i, j \in 1 .. Len(Datasrc[r].index) : Datasrc[r].index[i].id = Datasrc[r].index[j].id => i = j
         /\ \A q, r \in 1 .. Len(Datasrc) : Datasrc[q].id = Datasrc[r].id => q = r
<1>1. Datasrc \in Seq(SchemaRow)
  BY DEF StartConstants, StartTypes
<1>2. \A r \in 1 .. Len(Datasrc) : Datasrc[r] \in SchemaRow
  BY <1>1
<1>3. \A r \in 1 .. Len(Datasrc) : Datasrc[r].index \in Seq(IndexDef)
  BY <1>2 DEF SchemaRow
<1> QED
  BY <1>1, <1>2, <1>3 DEF StartConstants, StartTypes

\* What the tables so far are.
LEMMA TablesAre ==
  ASSUME StartTypes
  PROVE  /\ Len(tables) \in Nat
         /\ \A r \in 1 .. Len(tables) :
              /\ tables[r] \in BuiltTable
              /\ tables[r].index \in Seq(BuiltIndex) /\ Len(tables[r].index) \in Nat
              /\ \A i \in 1 .. Len(tables[r].index) : tables[r].index[i] \in BuiltIndex
         /\ Len(dbIndex) \in Nat
         /\ \A j \in 1 .. Len(dbIndex) : dbIndex[j] \in Shared
<1>1. \A r \in 1 .. Len(tables) : tables[r] \in BuiltTable
  BY DEF StartTypes
<1>2. \A r \in 1 .. Len(tables) : tables[r].index \in Seq(BuiltIndex)
  BY <1>1 DEF BuiltTable
<1> QED
  BY <1>1, <1>2 DEF StartTypes

\* The names of what the engine holds beside its tables.
Names == {"engine", "env", "krdbModule", "dataModule", "henv", "hdbc", "conn", "shm", "krdb", "cache",
          "functable", "pool", "context", "own conn", "dym"}

LEMMA GainsNamed ==
  ASSUME NEW n \in 1 .. 12
  PROVE  U!Gains(U!Order[n]) \subseteq U!All(Names)
<1>1. n \in {1, 2, 3, 4, 5, 6, 7, 8, 9, 10, 11, 12}
  OBVIOUS
<1>2. U!Order[n] \in Names
  BY <1>1, OrderValues DEF Names
<1> QED
  BY <1>2 DEF U!Gains, U!All, Names

LEMMA TakenNamed ==
  ASSUME NEW n \in 1 .. 13
  PROVE  Taken(n) \subseteq U!All(Names)
<1>1. \A m \in 1 .. n - 1 : m \in 1 .. 12
  OBVIOUS
<1> QED
  BY <1>1, GainsNamed DEF Taken

\* The n-th step adds what it acquires.
LEMMA TakenNext ==
  ASSUME NEW n \in 1 .. 12
  PROVE  Taken(n + 1) = Taken(n) \cup (IF U!Omitted(U!Order[n]) THEN {} ELSE U!Gains(U!Order[n]))
<1>1. 1 .. (n + 1) - 1 = (1 .. n - 1) \cup {n}
  OBVIOUS
<1> QED
  BY <1>1 DEF Taken

LEMMA AllSplit ==
  ASSUME NEW S, NEW T
  PROVE  U!All(S \cup T) = U!All(S) \cup U!All(T)
BY DEF U!All

LEMMA OneIn ==
  ASSUME NEW S, NEW x
  PROVE  U!One(x) \in U!All(S) <=> x \in S
BY DEF U!All, U!One

\* The steps are told apart.
LEMMA AtStepIs ==
  ASSUME NEW m \in 1 .. 13, NEW n \in 1 .. 13
  PROVE  /\ AtStep(m) /\ AtStep(n) => m = n
         /\ upAt = U!Order[n] /\ AtStep(m) => m = n
         /\ upAt \in Building => (AtStep(n) <=> n = 9)
         /\ upAt \in {"trap", "failed", "stopped"} => ~AtStep(n)
BY OrderIs DEF AtStep, Building

\* kr_engine_startup gave up: nothing is said of what is left.
LEMMA GaveUp ==
  ASSUME StartInv, NEW left, U!GiveUp(left)
  PROVE  StartInv'
<1>1. /\ upAt' \in {"trap", "failed"}
      /\ UNCHANGED <<Datasrc, config, twice, tables, dbIndex, skipped>>
  BY DEF U!GiveUp, U!store
<1>2. \A n \in 1 .. 13 : ~AtStep(n)'
  BY <1>1, OrderIs DEF AtStep, Building
<1>3. StartTypes'
  BY <1>1 DEF StartInv, StartTypes
<1> QED
  BY <1>1, <1>2, <1>3 DEF StartInv, Alive

\* A step that leaves the tables as they are, and is not about the indexes of
\* one.
LEMMA SameTables ==
  ASSUME StartInv, Alive, UNCHANGED <<Datasrc, config, tables, dbIndex, skipped>>,
         upAt = "index" => skipped # {} \/ Len(tables[Len(tables)].index) = Len(Datasrc[Len(tables)].index)
  PROVE  /\ StartTypes' /\ TablesInv' /\ SharedInv'
         /\ Stored' = Stored /\ Stray' = Stray
         /\ \A n \in 1 .. 13 : Taken(n)' = Taken(n)
<1>1. StartTypes'
  BY DEF StartInv, StartTypes
<1>2. TablesInv'
  <2>1. TablesInv /\ StartTypes
    BY DEF StartInv
  <2>2. \A r \in 1 .. Len(tables) : skipped = {} => Len(tables[r].index) = Len(Datasrc[r].index)
    <3>1. Len(tables) \in Nat
      BY <2>1, TablesAre
    <3> QED
      BY <2>1, <3>1 DEF TablesInv
  <2> QED
    BY <2>1, <2>2 DEF TablesInv
<1>3. SharedInv'
  <2>1. SharedInv
    BY DEF StartInv
  <2> QED
    BY <2>1 DEF SharedInv
<1>4. Stored' = Stored
  BY DEF Stored, StoredOf
<1>5. Stray' = Stray
  BY DEF Stray, StrayOf
<1>6. \A n \in 1 .. 13 : Taken(n)' = Taken(n)
  BY DEF Taken, U!Gains, U!Omitted
<1> QED
  BY <1>1, <1>2, <1>3, <1>4, <1>5, <1>6

LEMMA InStored ==
  ASSUME NEW x
  PROVE  x \in Stored <=>
           \E r \in 1 .. Len(tables) :
             \/ x = <<"table", tables[r].id, 0>>
             \/ \E i \in 1 .. Len(tables[r].index) : x = <<"index", tables[r].id, tables[r].index[i].id>>
             \/ \E i \in 1 .. Len(tables[r].index) : x = <<"hash", tables[r].index[i].hash, tables[r].index[i].id>>
<1>1. x \in Stored <=> \E r \in 1 .. Len(tables) : x \in StoredOf(tables[r])
  BY DEF Stored
<1> QED
  BY <1>1 DEF StoredOf

\* Tables, indexes and hash tables are not named like the rest.
LEMMA OthersNamed ==
  ASSUME NEW S, {"table", "index", "hash"} \cap S = {}
  PROVE  /\ U!All(S) \cap Stored = {}
         /\ U!All(S) \cap Stray = {}
<1>1. \A x \in U!All(S) : x[1] \in S
  BY DEF U!All, U!One
<1>2. \A x \in Stored : x[1] \in {"table", "index", "hash"}
  BY InStored
<1>3. \A x \in Stray : x[1] = "index"
  BY DEF Stray, StrayOf
<1> QED
  BY <1>1, <1>2, <1>3

LEMMA AcquireInv ==
  ASSUME StartConstants, StartInv, U!Acquire
  PROVE  StartInv'
<1>1. PICK n \in 1 .. 12 : upAt = U!Order[n] /\ n # 9
  <2>1. upAt \in ToSet(U!Order) \ {"krdb", "running"}
    BY DEF U!Acquire, U!Range, ToSet
  <2>2. PICK n \in 1 .. 13 : upAt = U!Order[n]
    BY <2>1, OrderIs
  <2>3. n # 9 /\ n # 13
    BY <2>1, <2>2, OrderIs
  <2> QED
    BY <2>2, <2>3
<1>2. upAt \notin Building /\ upAt' \notin Building /\ upAt' = U!Order[n + 1] /\ n + 1 \in 1 .. 13
  BY <1>1, FollowingIs, OrderIs DEF U!Acquire
<1>3. AtStep(n) /\ Alive
  BY <1>1 DEF AtStep, Alive
<1>4. UNCHANGED <<Datasrc, config, twice, tables, dbIndex, skipped>>
  BY DEF U!Acquire, U!store
<1>5. /\ StartTypes' /\ TablesInv' /\ SharedInv'
      /\ Stored' = Stored /\ Stray' = Stray
      /\ \A m \in 1 .. 13 : Taken(m)' = Taken(m)
  BY <1>2, <1>3, <1>4, SameTables DEF Building
<1>6. Open' = Open
  BY <1>2 DEF Open, OpenAt, Building
<1>7. StageInv(n)
  BY <1>3 DEF StartInv
<1>8. HeldInv(n + 1)'
  <2>1. held' = held \cup (IF U!Omitted(U!Order[n]) THEN {} ELSE U!Gains(U!Order[n]))
    BY <1>1 DEF U!Acquire
  <2>2. Taken(n + 1)' = Taken(n) \cup (IF U!Omitted(U!Order[n]) THEN {} ELSE U!Gains(U!Order[n]))
    BY <1>2, <1>5, TakenNext
  <2> QED
    BY <1>5, <1>6, <1>7, <2>1, <2>2 DEF StageInv, HeldInv
<1>9. StageInv(n + 1)'
  <2>1. n + 1 <= 9 => n <= 9
    OBVIOUS
  <2>2. ~(n + 1 <= 9) => ~(n <= 9)
    BY <1>1
  <2> QED
    BY <1>2, <1>4, <1>7, <1>8, <2>1, <2>2 DEF StageInv, Building
<1>10. \A m \in 1 .. 13 : AtStep(m)' => m = n + 1
  BY <1>2, OrderIs DEF AtStep
<1>11. upAt' # "stopped"
  BY <1>2, OrderIs
<1> QED
  BY <1>4, <1>5, <1>9, <1>10, <1>11 DEF StartInv

\* A step of kr_db_startup to another, with what is open meanwhile.
LEMMA BuildStep ==
  ASSUME StartInv, Alive, StartTypes', TablesInv', SharedInv', twice' = twice,
         config' = config, upAt' \in Building,
         HeldInv(9)', upAt' \in {"select", "counted"} => Len(tables') < Len(Datasrc'),
         upAt' = "index" => Len(tables') > 0
  PROVE  StartInv'
<1>1. \A m \in 1 .. 13 : AtStep(m)' => m = 9
  BY OrderIs, SMTT(40) DEF AtStep, Building
<1>2. StageInv(9)'
  BY DEF StageInv
<1>3. upAt' # "stopped"
  BY DEF Building
<1> QED
  BY <1>1, <1>2, <1>3 DEF StartInv

LEMMA CreateDbInv ==
  ASSUME StartConstants, StartInv, U!CreateDb
  PROVE  StartInv'
<1>1. upAt = "krdb" /\ upAt' = "table"
  BY DEF U!CreateDb
<1>2. AtStep(9) /\ Alive
  BY <1>1, OrderIs DEF AtStep, Alive
<1>3. UNCHANGED <<Datasrc, config, twice, tables, dbIndex, skipped>>
  BY DEF U!CreateDb, U!store
<1>4. /\ StartTypes' /\ TablesInv' /\ SharedInv'
      /\ Stored' = Stored /\ Stray' = Stray
      /\ \A m \in 1 .. 13 : Taken(m)' = Taken(m)
  BY <1>1, <1>2, <1>3, SameTables
<1>5. StageInv(9)
  BY <1>2 DEF StartInv
<1>6. Open = {} /\ Open' = U!All({"krdb", "cursor"})
  BY <1>1 DEF Open, OpenAt, Building
<1>7. HeldInv(9)'
  BY <1>4, <1>5, <1>6 DEF U!CreateDb, StageInv, HeldInv
<1> QED
  BY <1>1, <1>2, <1>3, <1>4, <1>7, BuildStep DEF Building

\* A cursor or a select is neither in a table nor taken before.
LEMMA OnlyOpen ==
  ASSUME NEW s, s \notin Names, s \notin {"table", "index", "hash"}, NEW n \in 1 .. 13
  PROVE  /\ U!All({s}) \cap (Taken(n) \cup Stored \cup Stray) = {}
         /\ s \notin {"krdb", "cursor"} => U!All({s}) \cap U!All({"krdb", "cursor"}) = {}
<1>1. U!All({s}) \cap U!All(Names) = {} /\ (s \notin {"krdb", "cursor"} => U!All({s}) \cap U!All({"krdb", "cursor"}) = {})
  BY DEF U!All, U!One
<1>2. {"table", "index", "hash"} \cap {s} = {}
  OBVIOUS
<1> QED
  BY <1>1, <1>2, OthersNamed, TakenNamed

LEMMA CursorsApart ==
  /\ U!All({"cursor"}) \cap (Taken(9) \cup Stored \cup Stray) = {}
  /\ U!All({"select"}) \cap (Taken(9) \cup Stored \cup Stray) = {}
  /\ U!All({"index cursor"}) \cap (Taken(9) \cup Stored \cup Stray) = {}
  /\ U!All({"select"}) \cap U!All({"krdb", "cursor"}) = {}
  /\ U!All({"index cursor"}) \cap U!All({"krdb", "cursor"}) = {}
<1>1. \A s \in {"cursor", "select", "index cursor"} : s \notin Names /\ s \notin {"table", "index", "hash"}
  BY DEF Names
<1>2. \A s \in {"select", "index cursor"} : s \notin {"krdb", "cursor"}
  OBVIOUS
<1>3. \A s \in {"cursor", "select", "index cursor"} :
        /\ U!All({s}) \cap (Taken(9) \cup Stored \cup Stray) = {}
        /\ s \notin {"krdb", "cursor"} => U!All({s}) \cap U!All({"krdb", "cursor"}) = {}
  <2>1. 9 \in 1 .. 13
    OBVIOUS
  <2> QED
    BY <1>1, <2>1, OnlyOpen
<1> QED
  BY <1>2, <1>3

LEMMA OpenSelectInv ==
  ASSUME StartConstants, StartInv, U!OpenSelect
  PROVE  StartInv'
<1>1. upAt = "table" /\ upAt' = "select" /\ Len(tables) < Len(Datasrc)
  BY DEF U!OpenSelect
<1>2. AtStep(9) /\ Alive
  BY <1>1, OrderIs DEF AtStep, Alive, Building
<1>3. UNCHANGED <<Datasrc, config, twice, tables, dbIndex, skipped>>
  BY DEF U!OpenSelect, U!store
<1>4. /\ StartTypes' /\ TablesInv' /\ SharedInv'
      /\ Stored' = Stored /\ Stray' = Stray
      /\ \A m \in 1 .. 13 : Taken(m)' = Taken(m)
  BY <1>1, <1>2, <1>3, SameTables
<1>5. StageInv(9)
  BY <1>2 DEF StartInv
<1>6. Open' = Open \cup U!All({"select"})
  BY <1>1 DEF Open, OpenAt, Building
<1>7. HeldInv(9)'
  BY <1>4, <1>5, <1>6 DEF U!OpenSelect, StageInv, HeldInv
<1> QED
  BY <1>1, <1>2, <1>3, <1>4, <1>7, BuildStep DEF Building

LEMMA EndSelectInv ==
  ASSUME StartConstants, StartInv, U!EndSelect
  PROVE  StartInv'
<1>1. CASE U!GiveUp(held \ U!All({"select"}))
  BY <1>1, GaveUp
<1>2. CASE /\ held' = held \ U!All({"select"}) /\ upAt' = "counted"
           /\ UNCHANGED <<Datasrc, config, twice, U!store>>
  <2>1. upAt = "select" /\ upAt' = "counted"
    BY <1>2 DEF U!EndSelect
  <2>2. AtStep(9) /\ Alive
    BY <2>1, OrderIs DEF AtStep, Alive, Building
  <2>3. UNCHANGED <<Datasrc, config, twice, tables, dbIndex, skipped>>
    BY <1>2 DEF U!store
  <2>4. /\ StartTypes' /\ TablesInv' /\ SharedInv'
        /\ Stored' = Stored /\ Stray' = Stray
        /\ \A m \in 1 .. 13 : Taken(m)' = Taken(m)
    BY <2>1, <2>2, <2>3, SameTables
  <2>5. StageInv(9)
    BY <2>2 DEF StartInv
  <2>6. Open = Open' \cup U!All({"select"}) /\ Open' \cap U!All({"select"}) = {}
    BY <2>1, CursorsApart DEF Open, OpenAt, Building
  <2>7. U!All({"select"}) \cap (Taken(9) \cup Stored \cup Stray) = {}
    BY CursorsApart
  <2>8. HeldInv(9)'
    BY <1>2, <2>4, <2>5, <2>6, <2>7 DEF StageInv, HeldInv
  <2> QED
    BY <2>1, <2>2, <2>3, <2>4, <2>5, <2>8, BuildStep DEF Building, StageInv
<1> QED
  BY <1>1, <1>2 DEF U!EndSelect

LEMMA IndexesDoneInv ==
  ASSUME StartConstants, StartInv, U!IndexesDone
  PROVE  StartInv'
<1>1. upAt = "index" /\ upAt' = "table" /\ Len(tables[Len(tables)].index) = Len(Datasrc[Len(tables)].index)
  BY DEF U!IndexesDone, U!Current
<1>2. AtStep(9) /\ Alive
  BY <1>1, OrderIs DEF AtStep, Alive, Building
<1>3. UNCHANGED <<Datasrc, config, twice, tables, dbIndex, skipped>>
  BY DEF U!IndexesDone, U!store
<1>4. /\ StartTypes' /\ TablesInv' /\ SharedInv'
      /\ Stored' = Stored /\ Stray' = Stray
      /\ \A m \in 1 .. 13 : Taken(m)' = Taken(m)
  BY <1>1, <1>2, <1>3, SameTables
<1>5. StageInv(9)
  BY <1>2 DEF StartInv
<1>6. Open = Open' \cup U!All({"index cursor"}) /\ Open' \cap U!All({"index cursor"}) = {}
  BY <1>1, CursorsApart DEF Open, OpenAt, Building
<1>7. U!All({"index cursor"}) \cap (Taken(9) \cup Stored \cup Stray) = {}
  BY CursorsApart
<1>8. HeldInv(9)'
  <2>1. held' = held \ U!All({"index cursor"})
    BY DEF U!IndexesDone
  <2>2. Taken(9) \cup Open \cup Stored \subseteq held /\ held \subseteq Taken(9) \cup Open \cup Stored \cup Stray
    BY <1>5 DEF StageInv, HeldInv
  <2>3. Taken(9)' = Taken(9)
    BY <1>4
  <2> QED
    BY ONLY <1>4, <1>6, <1>7, <2>1, <2>2, <2>3 DEF HeldInv
<1> QED
  BY <1>1, <1>2, <1>3, <1>4, <1>8, BuildStep DEF Building

LEMMA TablesDoneInv ==
  ASSUME StartConstants, StartInv, U!TablesDone
  PROVE  StartInv'
<1>1. upAt = "table" /\ upAt' = U!Order[10] /\ Len(tables) = Len(Datasrc)
  <2>1. U!Following("krdb") = U!Order[9 + 1]
    BY FollowingIs, OrderIs
  <2> QED
    BY <2>1 DEF U!TablesDone
<1>2. AtStep(9) /\ Alive /\ upAt' \notin Building /\ upAt' \notin {"trap", "failed", "stopped"}
  BY <1>1, OrderIs DEF AtStep, Alive, Building
<1>3. UNCHANGED <<Datasrc, config, twice, tables, dbIndex, skipped>>
  BY DEF U!TablesDone, U!store
<1>4. /\ StartTypes' /\ TablesInv' /\ SharedInv'
      /\ Stored' = Stored /\ Stray' = Stray
      /\ \A m \in 1 .. 13 : Taken(m)' = Taken(m)
  BY <1>1, <1>2, <1>3, SameTables
<1>5. StageInv(9)
  BY <1>2 DEF StartInv
<1>6. Open = U!All({"krdb"}) \cup U!All({"cursor"}) /\ Open' = {}
  <2>1. U!All({"krdb", "cursor"}) = U!All({"krdb"}) \cup U!All({"cursor"})
    BY DEF U!All
  <2> QED
    BY <1>1, <1>2, <2>1 DEF Open, OpenAt, Building
<1>7. U!All({"cursor"}) \cap (Taken(9) \cup Stored \cup Stray) = {} /\ U!All({"cursor"}) \cap U!All({"krdb"}) = {}
  <2>1. U!All({"cursor"}) \cap (Taken(9) \cup Stored \cup Stray) = {}
    BY CursorsApart
  <2> QED
    BY <2>1 DEF U!All, U!One
<1>8. Taken(10) = Taken(9) \cup U!All({"krdb"})
  <2>1. ~U!Omitted("krdb") /\ U!Gains("krdb") = U!All({"krdb"})
    BY DEF U!Omitted, U!Gains
  <2>2. Taken(9 + 1) = Taken(9) \cup (IF U!Omitted(U!Order[9]) THEN {} ELSE U!Gains(U!Order[9]))
    BY TakenNext
  <2> QED
    BY <2>1, <2>2, OrderIs
<1>9. HeldInv(10)'
  BY <1>4, <1>5, <1>6, <1>7, <1>8 DEF U!TablesDone, StageInv, HeldInv
<1>10. StageInv(10)'
  BY <1>1, <1>2, <1>3, <1>9 DEF StageInv, Building
<1>11. \A m \in 1 .. 13 : AtStep(m)' => m = 10
  BY <1>1, <1>2, OrderIs DEF AtStep
<1> QED
  BY <1>2, <1>3, <1>4, <1>10, <1>11 DEF StartInv

LEMMA UnknownIndexInv ==
  ASSUME StartConstants, StartInv, U!UnknownIndex
  PROVE  StartInv'
<1> DEFINE r == Len(tables)
           k == Len(tables[r].index) + 1
<1>1. upAt = "index" /\ upAt' = "table" /\ Len(tables[r].index) < Len(Datasrc[r].index)
  BY DEF U!UnknownIndex, U!Current
<1>2. AtStep(9) /\ Alive
  BY <1>1, OrderIs DEF AtStep, Alive, Building
<1>3. UNCHANGED <<Datasrc, config, twice, tables, dbIndex>> /\ skipped' # {}
  BY DEF U!UnknownIndex
<1>4. StageInv(9) /\ TablesInv /\ SharedInv /\ StartTypes
  BY <1>2 DEF StartInv
<1>5. r \in 1 .. Len(Datasrc) /\ r \in 1 .. Len(tables)
  BY <1>1, <1>4, TablesAre, RowsOfSchema DEF StageInv, TablesInv
<1>6. StartTypes' /\ SharedInv'
  <2>1. StartTypes'
    BY <1>3, <1>4 DEF StartTypes
  <2>2. SharedInv'
    BY <1>3, <1>4 DEF SharedInv
  <2> QED
    BY <2>1, <2>2
<1>7. TablesInv'
  BY <1>3, <1>4 DEF TablesInv
<1>8. Stored' = Stored /\ Stray' = Stray /\ Taken(9)' = Taken(9)
  <2>1. Stored' = Stored
    BY <1>3 DEF Stored, StoredOf
  <2>2. Stray' = Stray
    BY <1>3 DEF Stray, StrayOf
  <2>3. Taken(9)' = Taken(9)
    BY <1>3 DEF Taken, U!Gains, U!Omitted
  <2> QED
    BY <2>1, <2>2, <2>3
<1>9. <<"index", tables[r].id, Datasrc[r].index[k].id>> \in Stray
  <2>1. k \in 1 .. Len(Datasrc[r].index) /\ Datasrc[r].index[k].type \notin {"TABLE", "DB"}
    <3>1. Datasrc[r].index[k].type \notin {"TABLE", "DB"}
      BY DEF U!UnknownIndex, U!IndexRow, U!Current
    <3> QED
      BY <1>1, <1>4, <1>5, <3>1, TablesAre, RowsOfSchema
  <2>2. tables[r].id = Datasrc[r].id
    BY <1>4, <1>5 DEF TablesInv
  <2>3. <<"index", Datasrc[r].id, Datasrc[r].index[k].id>> \in StrayOf(Datasrc[r])
    BY <2>1 DEF StrayOf
  <2> QED
    BY <1>5, <2>2, <2>3 DEF Stray
<1>10. Open = Open' \cup U!All({"index cursor"}) /\ Open' \cap U!All({"index cursor"}) = {}
  BY <1>1, CursorsApart DEF Open, OpenAt, Building
<1>11. U!All({"index cursor"}) \cap (Taken(9) \cup Stored \cup Stray) = {}
  BY CursorsApart
<1>12. HeldInv(9)'
  <2>1. held' = (held \cup {<<"index", tables[r].id, Datasrc[r].index[k].id>>}) \ U!All({"index cursor"})
    BY DEF U!UnknownIndex, U!IndexRow, U!Current
  <2> QED
    BY <1>4, <1>8, <1>9, <1>10, <1>11, <2>1 DEF StageInv, HeldInv
<1> QED
  BY <1>1, <1>2, <1>3, <1>6, <1>7, <1>12, BuildStep DEF Building

LEMMA AppendPositions ==
  ASSUME NEW S, NEW s \in Seq(S), NEW e \in S
  PROVE  /\ Append(s, e) \in Seq(S)
         /\ Len(Append(s, e)) = Len(s) + 1
         /\ \A i \in 1 .. Len(s) : Append(s, e)[i] = s[i]
         /\ Append(s, e)[Len(s) + 1] = e
OBVIOUS

LEMMA CreateTableInv ==
  ASSUME StartConstants, StartInv, NEW n \in 0 .. Datasrc[Len(tables) + 1].fields, U!CreateTable(n)
  PROVE  StartInv'
<1> DEFINE r == Len(tables) + 1
           tb == [id |-> Datasrc[r].id, fields |-> n, index |-> <<>>]
<1>1. upAt = "counted" /\ upAt' = "index"
  BY DEF U!CreateTable
<1>2. AtStep(9) /\ Alive
  BY <1>1, OrderIs DEF AtStep, Alive, Building
<1>3. /\ UNCHANGED <<Datasrc, config, twice, dbIndex>>
      /\ tables' = Append(tables, tb)
      /\ held' = held \cup {<<"table", Datasrc[r].id, 0>>} \cup U!All({"index cursor"})
      /\ skipped \subseteq skipped'
      /\ n < Datasrc[r].fields => skipped' # {}
  BY DEF U!CreateTable, U!LoadFields, U!Row, U!All
<1>4. StageInv(9) /\ TablesInv /\ SharedInv /\ StartTypes
  BY <1>2 DEF StartInv
<1>5. Len(tables) \in Nat /\ r \in 1 .. Len(Datasrc)
  BY <1>1, <1>4, TablesAre, RowsOfSchema DEF StageInv
<1>6. tb \in BuiltTable
  <2>1. Datasrc[r].id \in Int /\ Datasrc[r].fields \in Nat
    BY <1>4, <1>5, RowsOfSchema DEF SchemaRow
  <2>2. <<>> \in Seq(BuiltIndex)
    OBVIOUS
  <2> QED
    BY <2>1, <2>2 DEF BuiltTable
<1>7. /\ tables' \in Seq(BuiltTable) /\ Len(tables') = r
      /\ \A q \in 1 .. Len(tables) : tables'[q] = tables[q]
      /\ tables'[r] = tb
  <2>1. tables \in Seq(BuiltTable)
    BY <1>4 DEF StartTypes
  <2>2. tables' = Append(tables, tb)
    BY <1>3
  <2> HIDE DEF tb, r
  <2>3. /\ tables' \in Seq(BuiltTable) /\ Len(tables') = Len(tables) + 1
        /\ \A q \in 1 .. Len(tables) : tables'[q] = tables[q]
        /\ tables'[Len(tables) + 1] = tb
    BY <1>6, <2>1, <2>2, AppendPositions
  <2> QED
    BY <2>3 DEF r
<1>8. 1 .. r = (1 .. Len(tables)) \cup {r}
  BY <1>5
<1>9. StartTypes'
  BY <1>3, <1>4, <1>7 DEF StartTypes
<1>10. TablesInv'
  <2>1. ASSUME NEW q \in 1 .. Len(tables)
        PROVE  /\ tables'[q].id = Datasrc'[q].id
               /\ skipped' = {} => tables'[q].fields = Datasrc'[q].fields
               /\ Len(tables'[q].index) <= Len(Datasrc'[q].index)
               /\ \A i \in 1 .. Len(tables'[q].index) : IndexBuilt(tables'[q].id, tables'[q].index[i], Datasrc'[q].index[i], dbIndex')
               /\ skipped' = {} => Len(tables'[q].index) = Len(Datasrc'[q].index)
    <3>1. tables'[q] = tables[q] /\ Datasrc' = Datasrc /\ dbIndex' = dbIndex /\ (skipped' = {} => skipped = {})
      BY <1>3, <1>7
    <3>2. \A i \in 1 .. Len(tables[q].index) : IndexBuilt(tables'[q].id, tables'[q].index[i], Datasrc'[q].index[i], dbIndex')
      BY <1>4, <3>1 DEF TablesInv
    <3> QED
      BY <1>1, <1>4, <3>1, <3>2 DEF TablesInv
  <2>2. /\ tables'[r].id = Datasrc'[r].id
        /\ skipped' = {} => tables'[r].fields = Datasrc'[r].fields
        /\ Len(tables'[r].index) = 0 /\ Len(tables'[r].index) <= Len(Datasrc'[r].index)
    <3>1. Datasrc[r].fields \in Nat /\ Len(Datasrc[r].index) \in Nat
      BY <1>4, <1>5, RowsOfSchema DEF SchemaRow
    <3>2. tables'[r].id = Datasrc[r].id /\ tables'[r].fields = n /\ Len(tables'[r].index) = 0
      BY <1>7
    <3>3. Datasrc' = Datasrc /\ (n < Datasrc[r].fields => skipped' # {})
      BY <1>3
    <3> QED
      BY <3>1, <3>2, <3>3
  <2>3. \A i \in 1 .. Len(tables'[r].index) : FALSE
    BY <2>2
  <2>4. Len(tables') <= Len(Datasrc')
    <3>1. Datasrc' = Datasrc
      BY <1>3
    <3> QED
      BY <1>4, <1>5, <1>7, <3>1, RowsOfSchema
  <2> QED
    BY <1>1, <1>5, <1>7, <1>8, <2>1, <2>2, <2>3, <2>4 DEF TablesInv
<1>11. SharedInv'
  <2>1. \A q \in 1 .. Len(tables) : tables'[q] = tables[q]
    BY <1>7
  <2>2. ASSUME NEW j \in 1 .. Len(dbIndex')
        PROVE  \E w \in 1 .. Len(tables') :
                 /\ tables'[w].id = dbIndex'[j].table
                 /\ Builds(tables'[w], dbIndex'[j].id)
                 /\ \A q \in 1 .. w - 1 : ~Builds(tables'[q], dbIndex'[j].id)
    <3>1. PICK w \in 1 .. Len(tables) :
            /\ tables[w].id = dbIndex[j].table
            /\ Builds(tables[w], dbIndex[j].id)
            /\ \A q \in 1 .. w - 1 : ~Builds(tables[q], dbIndex[j].id)
      BY <1>3, <1>4, <2>2 DEF SharedInv
    <3>2. w \in 1 .. Len(tables') /\ \A q \in 1 .. w - 1 : q \in 1 .. Len(tables)
      BY <1>5, <1>7
    <3> QED
      BY <1>3, <1>7, <2>1, <3>1, <3>2
  <2> QED
    BY <1>3, <1>4, <2>2 DEF SharedInv
<1>12. Stored' = Stored \cup {<<"table", Datasrc[r].id, 0>>}
  <2>1. StoredOf(tb) = {<<"table", Datasrc[r].id, 0>>}
    BY DEF StoredOf
  <2>2. Stored' = UNION {StoredOf(tables'[q]) : q \in 1 .. r}
    BY <1>7 DEF Stored, StoredOf
  <2>3. {StoredOf(tables'[q]) : q \in 1 .. r} = {StoredOf(tables[q]) : q \in 1 .. Len(tables)} \cup {StoredOf(tb)}
    BY <1>7, <1>8
  <2> QED
    BY <2>1, <2>2, <2>3 DEF Stored
<1>13. Stray' = Stray /\ Taken(9)' = Taken(9)
  <2>1. Stray' = Stray
    <3>1. Datasrc' = Datasrc
      BY <1>3
    <3> QED
      BY <3>1 DEF Stray, StrayOf
  <2>2. Taken(9)' = Taken(9)
    BY <1>3 DEF Taken, U!Gains, U!Omitted
  <2> QED
    BY <2>1, <2>2
<1>14. Open' = Open \cup U!All({"index cursor"})
  BY <1>1 DEF Open, OpenAt, Building
<1>15. HeldInv(9)'
  BY <1>3, <1>4, <1>12, <1>13, <1>14 DEF StageInv, HeldInv
<1> QED
  <2>1. twice' = twice /\ config' = config
    BY <1>3
  <2>2. Len(tables') > 0
    BY <1>5, <1>7
  <2>3. upAt' \in Building /\ upAt' \notin {"select", "counted"}
    BY <1>1 DEF Building
  <2> HIDE DEF tb
  <2> QED
    BY <1>2, <1>9, <1>10, <1>11, <1>15, <2>1, <2>2, <2>3, BuildStep

\* The table whose hash table an index of id x gets, if there is one.
LEMMA OwnerIs ==
  ASSUME StartTypes, SharedInv, NEW t, NEW ix \in IndexDef
  PROVE  /\ ix.type # "DB" => U!HashOwner(t, ix) = t
         /\ U!DbIndexOf(ix.id) = {} <=> \A j \in 1 .. Len(dbIndex) : dbIndex[j].id # ix.id
         /\ ix.type = "DB" /\ U!DbIndexOf(ix.id) = {} => U!HashOwner(t, ix) = t
         /\ ix.type = "DB" => \A j \in 1 .. Len(dbIndex) : dbIndex[j].id = ix.id => U!HashOwner(t, ix) = dbIndex[j].table
<1>1. DOMAIN dbIndex = 1 .. Len(dbIndex) /\ Len(dbIndex) \in Nat
  BY DEF StartTypes
<1>2. \A j \in 1 .. Len(dbIndex) : dbIndex[j].id = ix.id => U!DbIndexOf(ix.id) = {j}
  <2> TAKE j \in 1 .. Len(dbIndex)
  <2> HAVE dbIndex[j].id = ix.id
  <2>1. \A k \in 1 .. Len(dbIndex) : dbIndex[k].id = ix.id => k = j
    BY DEF SharedInv
  <2>2. \A k \in 1 .. j - 1 : k \in 1 .. Len(dbIndex) /\ k # j
    BY <1>1
  <2> QED
    BY <1>1, <2>1, <2>2 DEF U!DbIndexOf
<1>3. \A j \in U!DbIndexOf(ix.id) : j \in 1 .. Len(dbIndex) /\ dbIndex[j].id = ix.id
  BY <1>1 DEF U!DbIndexOf
<1>4. \A j \in 1 .. Len(dbIndex) : (CHOOSE k \in {j} : TRUE) = j
  OBVIOUS
<1> QED
  BY <1>2, <1>3, <1>4 DEF U!HashOwner

LEMMA CreateIndexInv ==
  ASSUME StartConstants, StartInv, U!CreateIndex
  PROVE  StartInv'
<1> DEFINE r == Len(tables)
           k == Len(tables[r].index) + 1
           ix == Datasrc[r].index[k]
           t == tables[r].id
           made == [id |-> ix.id, type |-> ix.type, hash |-> U!HashOwner(t, ix)]
           new == [id |-> ix.id, table |-> t]
           Fresh == ix.type = "DB" /\ U!DbIndexOf(ix.id) = {}
<1>1. upAt = "index" /\ upAt' = upAt /\ Len(tables[r].index) < Len(Datasrc[r].index) /\ ix.type \in {"TABLE", "DB"}
  BY DEF U!CreateIndex, U!Current, U!IndexRow
<1>2. AtStep(9) /\ Alive
  BY <1>1, OrderIs DEF AtStep, Alive, Building
<1>3. UNCHANGED <<Datasrc, config, twice, skipped>>
  BY DEF U!CreateIndex
<1>4. StageInv(9) /\ TablesInv /\ SharedInv /\ StartTypes
  BY <1>2 DEF StartInv
<1>5. r \in 1 .. Len(tables) /\ Len(tables) \in Nat /\ r \in 1 .. Len(Datasrc) /\ t = Datasrc[r].id
  BY <1>1, <1>4, TablesAre, RowsOfSchema DEF StageInv, TablesInv
<1>6. /\ tables[r] \in BuiltTable /\ tables[r].index \in Seq(BuiltIndex) /\ k - 1 \in Nat
      /\ k \in 1 .. Len(Datasrc[r].index)
      /\ ix \in IndexDef
  BY <1>1, <1>4, <1>5, TablesAre, RowsOfSchema
<1>7. t \in Int /\ U!HashOwner(t, ix) \in Int
  <2>1. t \in Int
    BY <1>6 DEF BuiltTable
  <2>2. CASE Fresh \/ ix.type # "DB"
    <3>1. U!HashOwner(t, ix) = t
      BY <2>2, Zenon DEF U!HashOwner
    <3> QED
      BY <2>1, <3>1
  <2>3. CASE ix.type = "DB" /\ U!DbIndexOf(ix.id) # {}
    <3>1. PICK j \in 1 .. Len(dbIndex) : dbIndex[j].id = ix.id
      BY <1>4, <1>6, <2>3, OwnerIs
    <3>2. U!HashOwner(t, ix) = dbIndex[j].table
      BY <1>4, <1>6, <2>3, <3>1, OwnerIs, SMTT(40)
    <3> QED
      BY <1>4, <2>1, <3>2, TablesAre DEF Shared
  <2> QED
    BY <2>1, <2>2, <2>3
<1>8. made \in BuiltIndex /\ new \in Shared
  BY <1>6, <1>7 DEF IndexDef, BuiltIndex, Shared
<1>9. PICK grown : grown = Append(tables[r].index, made)
  OBVIOUS
<1>10. /\ grown \in Seq(BuiltIndex) /\ Len(grown) = k
       /\ \A i \in 1 .. k - 1 : grown[i] = tables[r].index[i]
       /\ grown[k] = made
  <2> HIDE DEF made
  <2> QED
    BY <1>6, <1>8, <1>9, AppendPositions
<1>11. tables' = [tables EXCEPT ![r].index = grown]
  BY <1>9 DEF U!CreateIndex, U!Current, U!IndexRow
<1>12. /\ tables' \in Seq(BuiltTable) /\ Len(tables') = r
       /\ \A q \in 1 .. r - 1 : tables'[q] = tables[q]
       /\ tables'[r].id = tables[r].id /\ tables'[r].fields = tables[r].fields /\ tables'[r].index = grown
  <2>1. tables \in Seq(BuiltTable)
    BY <1>4 DEF StartTypes
  <2>2. [tables[r] EXCEPT !.index = grown] \in BuiltTable
    BY <1>6, <1>10 DEF BuiltTable
  <2>3. tables' = [tables EXCEPT ![r] = [tables[r] EXCEPT !.index = grown]]
    BY <1>11
  <2>4. /\ [tables[r] EXCEPT !.index = grown].id = tables[r].id
        /\ [tables[r] EXCEPT !.index = grown].fields = tables[r].fields
        /\ [tables[r] EXCEPT !.index = grown].index = grown
    BY <1>6 DEF BuiltTable
  <2>5. PICK tb \in BuiltTable : tb = [tables[r] EXCEPT !.index = grown]
    BY <2>2
  <2>6. tables' = [tables EXCEPT ![r] = tb] /\ tb.id = tables[r].id /\ tb.fields = tables[r].fields /\ tb.index = grown
    BY <2>3, <2>4, <2>5
  <2> QED
    BY <1>5, <2>1, <2>6
<1>13. 1 .. r = (1 .. r - 1) \cup {r} /\ 1 .. k = (1 .. k - 1) \cup {k}
  BY <1>5, <1>6
<1>14. /\ dbIndex' \in Seq(Shared)
       /\ \A j \in 1 .. Len(dbIndex) : j \in 1 .. Len(dbIndex') /\ dbIndex'[j] = dbIndex[j]
       /\ ~Fresh => dbIndex' = dbIndex
       /\ Fresh => /\ Len(dbIndex') = Len(dbIndex) + 1
                   /\ dbIndex'[Len(dbIndex) + 1] = new
                   /\ 1 .. Len(dbIndex') = (1 .. Len(dbIndex)) \cup {Len(dbIndex) + 1}
  <2>1. dbIndex' = IF Fresh THEN Append(dbIndex, new) ELSE dbIndex
    BY DEF U!CreateIndex, U!Current, U!IndexRow
  <2>2. dbIndex \in Seq(Shared) /\ Len(dbIndex) \in Nat
    BY <1>4 DEF StartTypes
  <2> HIDE DEF Fresh, new
  <2>3. CASE Fresh
    <3>1. dbIndex' = Append(dbIndex, new)
      BY <2>1, <2>3
    <3>2. /\ dbIndex' \in Seq(Shared) /\ Len(dbIndex') = Len(dbIndex) + 1
          /\ \A j \in 1 .. Len(dbIndex) : dbIndex'[j] = dbIndex[j]
          /\ dbIndex'[Len(dbIndex) + 1] = new
      BY <1>8, <2>2, <3>1, AppendPositions
    <3> QED
      BY <2>2, <2>3, <3>2
  <2>4. CASE ~Fresh
    BY <2>1, <2>2, <2>4
  <2> QED
    BY <2>3, <2>4
<1>15. StartTypes'
  BY <1>3, <1>4, <1>12, <1>14 DEF StartTypes
<1>16. IndexBuilt(t, made, ix, dbIndex')
  <2>1. made.id = ix.id /\ made.type = ix.type /\ made.hash = U!HashOwner(t, ix)
    OBVIOUS
  <2>2. CASE ix.type # "DB"
    <3>1. ix.type = "TABLE" /\ made.hash = t
      BY <1>1, <1>4, <1>6, <2>1, <2>2, OwnerIs
    <3> QED
      BY <2>1, <3>1 DEF IndexBuilt
  <2>3. CASE ix.type = "DB"
    <3>1. \E j \in 1 .. Len(dbIndex') : dbIndex'[j].id = ix.id /\ dbIndex'[j].table = made.hash
      <4>1. CASE Fresh
        <5>1. made.hash = t
          BY <1>4, <1>6, <2>1, <4>1, OwnerIs
        <5> QED
          BY <1>14, <4>1, <5>1
      <4>2. CASE ~Fresh
        <5>1. PICK j \in 1 .. Len(dbIndex) : dbIndex[j].id = ix.id
          BY <1>4, <1>6, <2>3, <4>2, OwnerIs
        <5> HIDE DEF made, new, t, ix, k, r
        <5>2. U!HashOwner(t, ix) = dbIndex[j].table
          BY <1>4, <1>6, <2>3, <5>1, OwnerIs
        <5>3. made.hash = dbIndex[j].table
          BY <2>1, <5>2
        <5> QED
          BY <1>14, <5>1, <5>3
      <4> QED
        BY <4>1, <4>2
    <3> QED
      BY <2>1, <2>3, <3>1 DEF IndexBuilt
  <2> QED
    BY <2>2, <2>3
<1>17. \A q \in 1 .. r : \A i \in 1 .. Len(tables[q].index) :
         IndexBuilt(tables[q].id, tables[q].index[i], Datasrc[q].index[i], dbIndex')
  <2>1. ASSUME NEW q \in 1 .. r, NEW i \in 1 .. Len(tables[q].index)
        PROVE  IndexBuilt(tables[q].id, tables[q].index[i], Datasrc[q].index[i], dbIndex')
    <3>1. IndexBuilt(tables[q].id, tables[q].index[i], Datasrc[q].index[i], dbIndex)
      BY <1>4 DEF TablesInv
    <3> QED
      BY <1>14, <3>1 DEF IndexBuilt
  <2> QED
    BY <2>1
<1> HIDE DEF made, new
<1>18. TablesInv'
  <2>1. ASSUME NEW q \in 1 .. r - 1
        PROVE  /\ tables'[q] = tables[q] /\ q < r /\ q \in 1 .. r
               /\ \A i \in 1 .. Len(tables'[q].index) : IndexBuilt(tables'[q].id, tables'[q].index[i], Datasrc[q].index[i], dbIndex')
    BY <1>5, <1>12, <1>17
  <2>2. \A i \in 1 .. Len(tables'[r].index) : IndexBuilt(tables'[r].id, tables'[r].index[i], Datasrc[r].index[i], dbIndex')
    <3>1. tables'[r].index = grown /\ Len(grown) = k /\ tables'[r].id = t
      BY <1>10, <1>12
    <3>2. \A i \in 1 .. k - 1 : IndexBuilt(tables'[r].id, tables'[r].index[i], Datasrc[r].index[i], dbIndex')
      BY <1>5, <1>10, <1>17, <3>1
    <3>3. IndexBuilt(tables'[r].id, tables'[r].index[k], Datasrc[r].index[k], dbIndex')
      BY <1>10, <1>16, <3>1
    <3> QED
      BY <1>13, <3>1, <3>2, <3>3
  <2>3. /\ tables'[r].id = Datasrc[r].id
        /\ skipped = {} => tables'[r].fields = Datasrc[r].fields
        /\ Len(tables'[r].index) <= Len(Datasrc[r].index)
    BY <1>4, <1>5, <1>6, <1>10, <1>12 DEF TablesInv
  <2>4. Datasrc' = Datasrc /\ skipped' = skipped /\ Len(tables') = r /\ upAt' = "index" /\ Len(tables) <= Len(Datasrc)
    BY <1>1, <1>3, <1>4, <1>12 DEF TablesInv
  <2>5. \A q \in 1 .. r - 1 :
          /\ tables[q].id = Datasrc[q].id
          /\ skipped = {} => tables[q].fields = Datasrc[q].fields
          /\ Len(tables[q].index) <= Len(Datasrc[q].index)
          /\ skipped = {} => Len(tables[q].index) = Len(Datasrc[q].index)
    BY <1>4, <2>1 DEF TablesInv
  <2>6. ASSUME NEW q \in 1 .. r
        PROVE  /\ tables'[q].id = Datasrc[q].id
               /\ skipped = {} => tables'[q].fields = Datasrc[q].fields
               /\ Len(tables'[q].index) <= Len(Datasrc[q].index)
               /\ \A i \in 1 .. Len(tables'[q].index) : IndexBuilt(tables'[q].id, tables'[q].index[i], Datasrc[q].index[i], dbIndex')
               /\ skipped = {} /\ q < r => Len(tables'[q].index) = Len(Datasrc[q].index)
    <3>1. CASE q \in 1 .. r - 1
      BY <2>1, <2>5, <3>1
    <3>2. CASE q = r
      BY <2>2, <2>3, <3>2
    <3> QED
      BY <1>13, <3>1, <3>2
  <2> QED
    BY <2>4, <2>6 DEF TablesInv
<1>19. SharedInv'
  <2>1. \A q \in 1 .. r - 1 : tables'[q] = tables[q]
    BY <1>12
  <2>2. \A x \in Int : Builds(tables[r], x) => Builds(tables'[r], x)
    <3>1. \A i \in 1 .. Len(tables[r].index) : i \in 1 .. Len(tables'[r].index) /\ tables'[r].index[i] = tables[r].index[i]
      BY <1>6, <1>10, <1>12
    <3> QED
      BY <3>1 DEF Builds
  <2>3. \A j \in 1 .. Len(dbIndex) : dbIndex[j].id \in Int
    BY <1>4, TablesAre DEF Shared
  <2>4. ASSUME NEW j \in 1 .. Len(dbIndex)
        PROVE  \E w \in 1 .. r :
                 /\ tables'[w].id = dbIndex[j].table
                 /\ Builds(tables'[w], dbIndex[j].id)
                 /\ \A q \in 1 .. w - 1 : ~Builds(tables'[q], dbIndex[j].id)
    <3>1. PICK w \in 1 .. r :
            /\ tables[w].id = dbIndex[j].table
            /\ Builds(tables[w], dbIndex[j].id)
            /\ \A q \in 1 .. w - 1 : ~Builds(tables[q], dbIndex[j].id)
      BY <1>4 DEF SharedInv
    <3>2. \A q \in 1 .. w - 1 : q \in 1 .. r - 1
      BY <1>5
    <3>3. tables'[w].id = tables[w].id /\ Builds(tables'[w], dbIndex[j].id)
      BY <1>12, <1>13, <2>1, <2>2, <2>3, <3>1
    <3> QED
      BY <2>1, <2>3, <3>1, <3>2, <3>3
  <2>5. CASE ~Fresh
    <3>1. dbIndex' = dbIndex /\ Len(tables') = r
      BY <1>12, <1>14, <2>5
    <3>2. \A i, j \in 1 .. Len(dbIndex) : dbIndex[i].id = dbIndex[j].id => i = j
      BY <1>4 DEF SharedInv
    <3> QED
      BY <2>4, <3>1, <3>2 DEF SharedInv
  <2>6. CASE Fresh
    <3> DEFINE l == Len(dbIndex) + 1
    <3>1. new.id = ix.id /\ new.table = t /\ ix.id \in Int
      BY <1>6 DEF new, IndexDef
    <3>2. \A j \in 1 .. Len(dbIndex) : dbIndex[j].id # ix.id
      BY <1>4, <1>6, <2>6, OwnerIs
    <3>3. Builds(tables'[r], ix.id)
      <4>1. k \in 1 .. Len(tables'[r].index) /\ tables'[r].index[k] = made
        BY <1>6, <1>10, <1>12
      <4>2. made.type = "DB" /\ made.id = ix.id
        BY <2>6 DEF made
      <4> QED
        BY <4>1, <4>2 DEF Builds
    <3>4. \A q \in 1 .. r - 1 : ~Builds(tables'[q], ix.id)
      <4>1. ASSUME NEW q \in 1 .. r - 1, Builds(tables[q], ix.id) PROVE FALSE
        <5>1. PICK i \in 1 .. Len(tables[q].index) : tables[q].index[i].type = "DB" /\ tables[q].index[i].id = ix.id
          BY <4>1 DEF Builds
        <5>2. IndexBuilt(tables[q].id, tables[q].index[i], Datasrc[q].index[i], dbIndex)
          BY <1>4, <1>5, <1>13, <5>1 DEF TablesInv
        <5> QED
          BY <3>2, <5>1, <5>2 DEF IndexBuilt
      <4> QED
        BY <2>1, <3>1, <4>1
    <3>5. 1 .. Len(dbIndex') = (1 .. Len(dbIndex)) \cup {l} /\ dbIndex'[l] = new
      BY <1>14, <2>6
    <3>6. \A j \in 1 .. Len(dbIndex) : dbIndex'[j] = dbIndex[j]
      BY <1>14
    <3>7. \A i, j \in 1 .. Len(dbIndex) : dbIndex[i].id = dbIndex[j].id => i = j
      BY <1>4 DEF SharedInv
    <3>8. Len(tables') = r /\ r \in 1 .. r /\ tables'[r].id = t
      BY <1>5, <1>12
    <3> HIDE DEF l, r, t, ix, k
    <3>9. \A i, j \in 1 .. Len(dbIndex') : dbIndex'[i].id = dbIndex'[j].id => i = j
      BY <3>1, <3>2, <3>5, <3>6, <3>7
    <3>10. ASSUME NEW j \in 1 .. Len(dbIndex')
           PROVE  \E w \in 1 .. Len(tables') :
                    /\ tables'[w].id = dbIndex'[j].table
                    /\ Builds(tables'[w], dbIndex'[j].id)
                    /\ \A q \in 1 .. w - 1 : ~Builds(tables'[q], dbIndex'[j].id)
      <4>1. CASE j = l
        BY <3>1, <3>3, <3>4, <3>5, <3>8, <4>1
      <4>2. CASE j \in 1 .. Len(dbIndex)
        BY <2>4, <3>6, <3>8, <4>2
      <4> QED
        BY <3>5, <4>1, <4>2
    <3> QED
      BY <3>9, <3>10 DEF SharedInv
  <2> QED
    BY <2>5, <2>6
<1>20. Stored' = Stored \cup {<<"index", t, ix.id>>, <<"hash", U!HashOwner(t, ix), ix.id>>}
  <2>1. StoredOf(tables'[r]) = StoredOf(tables[r]) \cup {<<"index", t, ix.id>>, <<"hash", U!HashOwner(t, ix), ix.id>>}
    <3>1. made.id = ix.id /\ made.hash = U!HashOwner(t, ix)
      BY DEF made
    <3>2. {<<"index", t, grown[i].id>> : i \in 1 .. k} = {<<"index", t, tables[r].index[i].id>> : i \in 1 .. k - 1} \cup {<<"index", t, ix.id>>}
      BY <1>10, <1>13, <3>1
    <3>3. {<<"hash", grown[i].hash, grown[i].id>> : i \in 1 .. k}
            = {<<"hash", tables[r].index[i].hash, tables[r].index[i].id>> : i \in 1 .. k - 1} \cup {<<"hash", U!HashOwner(t, ix), ix.id>>}
      BY <1>10, <1>13, <3>1
    <3>4. Len(tables[r].index) = k - 1
      BY <1>6
    <3>5. tables'[r].id = t /\ tables'[r].index = grown /\ Len(grown) = k /\ tables[r].id = t
      BY <1>10, <1>12
    <3>6. StoredOf(tables[r]) = {<<"table", t, 0>>}
            \cup {<<"index", t, tables[r].index[i].id>> : i \in 1 .. k - 1}
            \cup {<<"hash", tables[r].index[i].hash, tables[r].index[i].id>> : i \in 1 .. k - 1}
      BY <3>4 DEF StoredOf
    <3>7. StoredOf(tables'[r]) = {<<"table", t, 0>>}
            \cup {<<"index", t, grown[i].id>> : i \in 1 .. k}
            \cup {<<"hash", grown[i].hash, grown[i].id>> : i \in 1 .. k}
      <4> HIDE DEF t, k, r
      <4> QED
        BY <3>5 DEF StoredOf
    <3> HIDE DEF t, k, r, ix
    <3> QED
      BY <3>2, <3>3, <3>6, <3>7
  <2>2. Stored' = UNION {StoredOf(tables'[q]) : q \in 1 .. r}
    BY <1>12 DEF Stored, StoredOf
  <2>3. \A q \in 1 .. r - 1 : StoredOf(tables'[q]) = StoredOf(tables[q])
    BY <1>12
  <2>4. Stored = UNION {StoredOf(tables[q]) : q \in 1 .. r}
    BY DEF Stored
  <2> HIDE DEF r, t, ix
  <2> QED
    BY <1>13, <2>1, <2>2, <2>3, <2>4
<1>21. Open' = Open
  BY <1>1 DEF Open
<1>22. Stray' = Stray /\ Taken(9)' = Taken(9)
  <2>1. Datasrc' = Datasrc /\ config' = config
    BY <1>3
  <2>2. Stray' = Stray
    BY <2>1 DEF Stray, StrayOf
  <2>3. Taken(9)' = Taken(9)
    BY <2>1 DEF Taken, U!Gains, U!Omitted
  <2> QED
    BY <2>2, <2>3
<1>23. HeldInv(9)'
  <2>1. held' = held \cup {<<"index", t, ix.id>>, <<"hash", U!HashOwner(t, ix), ix.id>>}
    BY DEF U!CreateIndex, U!Current, U!IndexRow
  <2>2. HeldInv(9)
    BY <1>4 DEF StageInv
  <2> QED
    BY ONLY <1>20, <1>21, <1>22, <2>1, <2>2 DEF HeldInv
<1> QED
  <2>1. upAt' = "index" /\ Len(tables') > 0 /\ twice' = twice /\ config' = config
    BY <1>1, <1>3, <1>5, <1>12
  <2> QED
    BY <1>2, <1>15, <1>18, <1>19, <1>23, <2>1, BuildStep DEF Building

LEMMA StartInitInv ==
  ASSUME StartConstants, U!StartInit
  PROVE  StartInv
<1>1. upAt = U!Order[1] /\ upAt \notin Building /\ upAt # "stopped"
  BY OrderValues DEF U!StartInit, Building
<1>2. /\ Datasrc \in Schema /\ config \in U!Config
      /\ tables = <<>> /\ dbIndex = <<>> /\ held = {} /\ twice = {}
  BY DEF U!StartInit
<1>3. StartTypes
  <2>1. <<>> \in Seq(BuiltTable) /\ <<>> \in Seq(Shared)
    OBVIOUS
  <2> QED
    BY <1>2, <2>1 DEF StartTypes
<1>4. Len(tables) = 0 /\ Len(dbIndex) = 0 /\ Len(Datasrc) \in Nat
  BY <1>2, <1>3, RowsOfSchema
<1>5. TablesInv /\ SharedInv
  <2>1. \A i \in 1 .. 0 : FALSE
    OBVIOUS
  <2> QED
    BY <1>4, <2>1 DEF TablesInv, SharedInv
<1>6. HeldInv(1)
  <2>1. Taken(1) = {}
    BY DEF Taken
  <2>2. Open = {}
    BY <1>1 DEF Open, OpenAt, Building
  <2>3. Stored = {}
    <3>1. 1 .. Len(tables) = {}
      BY <1>4
    <3> QED
      BY <3>1 DEF Stored
  <2> QED
    BY <1>2, <2>1, <2>2, <2>3 DEF HeldInv
<1>7. StageInv(1)
  BY <1>1, <1>2, <1>6 DEF StageInv, Building
<1>8. \A m \in 1 .. 13 : AtStep(m) => m = 1
  BY <1>1, OrderIs DEF AtStep
<1> QED
  BY <1>1, <1>2, <1>3, <1>5, <1>7, <1>8 DEF StartInv

\* The declared index x of row q, and the row that declares it first.
LEMMA FirstIs ==
  ASSUME StartConstants, StartTypes, NEW x, NEW r \in 1 .. Len(Datasrc), U!Declared(r, x),
         \A q \in 1 .. r - 1 : ~U!Declared(q, x)
  PROVE  U!FirstDeclaring(x) = r
<1>1. Len(Datasrc) \in Nat /\ DOMAIN Datasrc = 1 .. Len(Datasrc)
  BY RowsOfSchema DEF StartConstants, StartTypes
<1>2. \A m \in DOMAIN Datasrc : U!Declared(m, x) /\ (\A q \in 1 .. m - 1 : ~U!Declared(q, x)) => m = r
  <2>1. ASSUME NEW m \in DOMAIN Datasrc, U!Declared(m, x), \A q \in 1 .. m - 1 : ~U!Declared(q, x), m # r
        PROVE  FALSE
    <3>1. m \in 1 .. r - 1 \/ r \in 1 .. m - 1
      BY <1>1, <2>1
    <3> QED
      BY <2>1, <3>1
  <2> QED
    BY <2>1
<1>3. (CHOOSE m \in DOMAIN Datasrc : U!Declared(m, x) /\ \A q \in 1 .. m - 1 : ~U!Declared(q, x)) = r
  BY <1>1, <1>2
<1> QED
  BY <1>3 DEF U!FirstDeclaring

\* In a store that is built, an index of type "DB" is declared where it is
\* built.
LEMMA DeclaredIsBuilt ==
  ASSUME StartConstants, StartTypes, TablesInv, SharedInv,
         NEW q \in 1 .. Len(tables), NEW i \in 1 .. Len(tables[q].index)
  PROVE  /\ i \in 1 .. Len(Datasrc[q].index) /\ q \in 1 .. Len(Datasrc)
         /\ tables[q].index[i].id = Datasrc[q].index[i].id
         /\ tables[q].index[i].type = Datasrc[q].index[i].type
         /\ tables[q].index[i] \in BuiltIndex
         /\ Datasrc[q].index[i] \in IndexDef
         /\ IndexBuilt(tables[q].id, tables[q].index[i], Datasrc[q].index[i], dbIndex)
<1>1. Len(tables) \in Nat /\ Len(Datasrc) \in Nat /\ Len(tables) <= Len(Datasrc)
  BY TablesAre, RowsOfSchema DEF TablesInv
<1>2. q \in 1 .. Len(Datasrc)
  BY <1>1
<1>3. Len(tables[q].index) \in Nat /\ Len(Datasrc[q].index) \in Nat /\ Len(tables[q].index) <= Len(Datasrc[q].index)
  BY <1>2, TablesAre, RowsOfSchema DEF TablesInv
<1>4. i \in 1 .. Len(Datasrc[q].index)
  BY <1>3
<1>5. IndexBuilt(tables[q].id, tables[q].index[i], Datasrc[q].index[i], dbIndex)
  BY DEF TablesInv
<1>6. tables[q].index[i] \in BuiltIndex
  BY TablesAre
<1> QED
  BY <1>2, <1>4, <1>5, <1>6, RowsOfSchema DEF IndexBuilt

\* What a shutdown gives back, and from where.
FromPart(d) == \E p \in U!Parts \cup {"krdb"} : ~U!Omitted(p) /\ d = <<U!One(p), U!One(p)>>
FromTable(d) == \E r \in 1 .. Len(tables) : d = <<<<"table", r, 0>>, <<"table", tables[r].id, 0>>>>
FromIndex(d) ==
  \E r \in 1 .. Len(tables) : \E i \in 1 .. Len(tables[r].index) :
    /\ tables[r].index[i].type = "TABLE"
    /\ \/ d = <<<<"index", r, i>>, <<"hash", tables[r].index[i].hash, tables[r].index[i].id>>>>
       \/ d = <<<<"index", r, i>>, <<"index", tables[r].id, tables[r].index[i].id>>>>
FromDbIndex(d) ==
  \E j \in 1 .. Len(dbIndex) :
    \E s \in {"hash", "index"} : d = <<<<"db index", j, 0>>, <<s, dbIndex[j].table, dbIndex[j].id>>>>

LEMMA ReleasedIs ==
  ASSUME StartTypes, NEW d
  PROVE  d \in U!Released <=> FromPart(d) \/ FromTable(d) \/ FromIndex(d) \/ FromDbIndex(d)
<1>1. d \in U!Released <=> \/ \E p \in U!Parts : ~U!Omitted(p) /\ d \in U!At(U!One(p), U!All({p}))
                           \/ d \in U!DbDrops
  <2>1. d \in U!PartsDrop <=> \E p \in U!Parts : ~U!Omitted(p) /\ d \in U!At(U!One(p), U!All({p}))
    BY DEF U!PartsDrop
  <2> QED
    BY <2>1 DEF U!Released
<1>2. d \in U!DbDrops <=> \/ \E r \in DOMAIN tables : d \in U!TableDrops(r)
                          \/ \E j \in DOMAIN dbIndex : d \in U!At(<<"db index", j, 0>>, U!DbIndexDrops(dbIndex[j]))
                          \/ d \in U!At(U!One("krdb"), U!All({"krdb"}))
  <2>1. d \in U!TablesDrop <=> \E r \in DOMAIN tables : d \in U!TableDrops(r)
    BY DEF U!TablesDrop
  <2>2. d \in U!DbIndexesDrop <=> \E j \in DOMAIN dbIndex : d \in U!At(<<"db index", j, 0>>, U!DbIndexDrops(dbIndex[j]))
    BY DEF U!DbIndexesDrop
  <2> QED
    BY <2>1, <2>2 DEF U!DbDrops
<1>3. \A r \in DOMAIN tables :
        d \in U!TableDrops(r) <=>
          \/ d \in U!At(<<"table", r, 0>>, {<<"table", tables[r].id, 0>>})
          \/ \E i \in DOMAIN tables[r].index : d \in U!At(<<"index", r, i>>, U!TableIndexDrops(tables[r].id, tables[r].index[i]))
  BY DEF U!TableDrops
<1>4. \A p : d \in U!At(U!One(p), U!All({p})) <=> d = <<U!One(p), U!One(p)>>
  BY DEF U!At, U!All
<1>5. /\ DOMAIN tables = 1 .. Len(tables) /\ DOMAIN dbIndex = 1 .. Len(dbIndex)
      /\ \A r \in 1 .. Len(tables) : DOMAIN tables[r].index = 1 .. Len(tables[r].index)
  <2>1. \A r \in 1 .. Len(tables) : tables[r].index \in Seq(BuiltIndex)
    BY TablesAre
  <2> QED
    BY <2>1 DEF StartTypes
<1>6. ~U!Omitted("krdb")
  BY DEF U!Omitted
<1>7. \A r \in 1 .. Len(tables) : d \in U!At(<<"table", r, 0>>, {<<"table", tables[r].id, 0>>})
        <=> d = <<<<"table", r, 0>>, <<"table", tables[r].id, 0>>>>
  BY DEF U!At
<1>8. \A r \in 1 .. Len(tables) : \A i \in 1 .. Len(tables[r].index) :
        d \in U!At(<<"index", r, i>>, U!TableIndexDrops(tables[r].id, tables[r].index[i])) <=>
          /\ tables[r].index[i].type = "TABLE"
          /\ \/ d = <<<<"index", r, i>>, <<"hash", tables[r].index[i].hash, tables[r].index[i].id>>>>
             \/ d = <<<<"index", r, i>>, <<"index", tables[r].id, tables[r].index[i].id>>>>
  BY DEF U!At, U!TableIndexDrops
<1>9. \A j \in 1 .. Len(dbIndex) : d \in U!At(<<"db index", j, 0>>, U!DbIndexDrops(dbIndex[j])) <=>
          \E s \in {"hash", "index"} : d = <<<<"db index", j, 0>>, <<s, dbIndex[j].table, dbIndex[j].id>>>>
  BY DEF U!At, U!DbIndexDrops
<1>10. FromPart(d) <=> \/ \E p \in U!Parts : ~U!Omitted(p) /\ d \in U!At(U!One(p), U!All({p}))
                       \/ d \in U!At(U!One("krdb"), U!All({"krdb"}))
  BY <1>4, <1>6 DEF FromPart
<1>11. FromTable(d) \/ FromIndex(d) <=> \E r \in DOMAIN tables : d \in U!TableDrops(r)
  <2>1. ASSUME NEW r \in 1 .. Len(tables)
        PROVE  d \in U!TableDrops(r) <=>
                 \/ d = <<<<"table", r, 0>>, <<"table", tables[r].id, 0>>>>
                 \/ \E i \in 1 .. Len(tables[r].index) :
                      /\ tables[r].index[i].type = "TABLE"
                      /\ \/ d = <<<<"index", r, i>>, <<"hash", tables[r].index[i].hash, tables[r].index[i].id>>>>
                         \/ d = <<<<"index", r, i>>, <<"index", tables[r].id, tables[r].index[i].id>>>>
    <3>1. DOMAIN tables[r].index = 1 .. Len(tables[r].index) /\ r \in DOMAIN tables
      BY <1>5
    <3> QED
      BY <1>3, <1>7, <1>8, <3>1
  <2> QED
    BY <1>5, <2>1 DEF FromTable, FromIndex
<1>12. FromDbIndex(d) <=> \E j \in DOMAIN dbIndex : d \in U!At(<<"db index", j, 0>>, U!DbIndexDrops(dbIndex[j]))
  BY <1>5, <1>9 DEF FromDbIndex
<1> QED
  BY <1>1, <1>2, <1>10, <1>11, <1>12

\* The parts are named like steps of the start, or are of the context.
LEMMA PartsAre ==
  ASSUME NEW p \in U!Parts \cup {"krdb"}
  PROVE  /\ p \in Names
         /\ ~U!Omitted(p) => U!One(p) \in Taken(13)
<1>1. p \in Names
  BY DEF U!Parts, Names
<1>2. ASSUME ~U!Omitted(p)
      PROVE  \E m \in 1 .. 12 : ~U!Omitted(U!Order[m]) /\ U!One(p) \in U!Gains(U!Order[m])
  <2>1. CASE p \in {"pool", "dym", "own conn", "context"}
    <3>1. ~U!Omitted("context") /\ U!One(p) \in U!Gains("context")
      BY <2>1 DEF U!Parts, U!Omitted, U!Gains, U!All
    <3> QED
      BY <3>1, OrderValues
  <2>2. CASE p \notin {"pool", "dym", "own conn", "context"}
    <3>1. U!One(p) \in U!Gains(p)
      BY <2>2 DEF U!Gains, U!All
    <3>2. \E m \in 1 .. 12 : U!Order[m] = p
      <4>1. p \in {"engine", "env", "krdbModule", "dataModule", "henv", "hdbc", "conn", "shm", "krdb", "cache", "functable"}
        BY <2>2 DEF U!Parts
      <4> QED
        BY <4>1, OrderValues
    <3> QED
      BY <1>2, <3>1, <3>2
  <2> QED
    BY <2>1, <2>2
<1> QED
  BY <1>1, <1>2 DEF Taken

\* Whatever a step acquired is given back, the steps before the last.
LEMMA TakenIsReleased ==
  ASSUME NEW x \in Taken(13)
  PROVE  \E p \in U!Parts \cup {"krdb"} : ~U!Omitted(p) /\ x = U!One(p)
<1>1. PICK m \in 1 .. 12 : ~U!Omitted(U!Order[m]) /\ x \in U!Gains(U!Order[m])
  BY DEF Taken
<1>2. m \in {1, 2, 3, 4, 5, 6, 7, 8, 9, 10, 11, 12}
  OBVIOUS
<1>3. CASE U!Order[m] = "context"
  <2>1. \A p \in {"pool", "context", "own conn", "dym"} : ~U!Omitted(p)
    BY DEF U!Omitted
  <2> QED
    BY <1>1, <1>3, <2>1 DEF U!Gains, U!All, U!Parts
<1>4. CASE U!Order[m] # "context"
  <2>1. x = U!One(U!Order[m])
    BY <1>1, <1>4 DEF U!Gains, U!All
  <2>2. U!Order[m] \in U!Parts \cup {"krdb"}
    BY <1>2, <1>4, OrderValues DEF U!Parts
  <2> QED
    BY <1>1, <2>1, <2>2
<1> QED
  BY <1>3, <1>4

\* What is given back was held.
LEMMA ReleasedIsHeld ==
  ASSUME StartConstants, StartTypes, TablesInv, SharedInv, NEW d \in U!Released
  PROVE  d[2] \in Taken(13) \cup Stored
<1>1. CASE FromPart(d)
  BY <1>1, PartsAre DEF FromPart
<1>2. CASE FromTable(d)
  BY <1>2, InStored DEF FromTable
<1>3. CASE FromIndex(d)
  BY <1>3, InStored DEF FromIndex
<1>4. CASE FromDbIndex(d)
  <2>1. PICK j \in 1 .. Len(dbIndex), s \in {"hash", "index"} :
          d = <<<<"db index", j, 0>>, <<s, dbIndex[j].table, dbIndex[j].id>>>>
    BY <1>4 DEF FromDbIndex
  <2>6. d[2] = <<s, dbIndex[j].table, dbIndex[j].id>>
    BY <2>1
  <2>2. PICK w \in 1 .. Len(tables) : tables[w].id = dbIndex[j].table /\ Builds(tables[w], dbIndex[j].id)
    BY DEF SharedInv
  <2>3. PICK i \in 1 .. Len(tables[w].index) : tables[w].index[i].type = "DB" /\ tables[w].index[i].id = dbIndex[j].id
    BY <2>2 DEF Builds
  <2>4. tables[w].index[i].hash = dbIndex[j].table
    <3>1. IndexBuilt(tables[w].id, tables[w].index[i], Datasrc[w].index[i], dbIndex)
      BY DEF TablesInv
    <3>2. PICK k \in 1 .. Len(dbIndex) : dbIndex[k].id = dbIndex[j].id /\ dbIndex[k].table = tables[w].index[i].hash
      BY <2>3, <3>1 DEF IndexBuilt
    <3> QED
      BY <3>2 DEF SharedInv
  <2>5. /\ <<"index", tables[w].id, tables[w].index[i].id>> \in Stored
        /\ <<"hash", tables[w].index[i].hash, tables[w].index[i].id>> \in Stored
    BY InStored
  <2> QED
    BY <2>2, <2>3, <2>4, <2>5, <2>6
<1> QED
  BY <1>1, <1>2, <1>3, <1>4, ReleasedIs

\* An index of type "TABLE" and a shared one are never one resource.
LEMMA IndexApart ==
  ASSUME StartConstants, StartTypes, TablesInv, SharedInv,
         NEW r \in 1 .. Len(tables), NEW i \in 1 .. Len(tables[r].index), tables[r].index[i].type = "TABLE",
         NEW j \in 1 .. Len(dbIndex), tables[r].id = dbIndex[j].table
  PROVE  tables[r].index[i].id # dbIndex[j].id
<1> SUFFICES ASSUME tables[r].index[i].id = dbIndex[j].id
             PROVE  FALSE
  OBVIOUS
<1>1. PICK w \in 1 .. Len(tables) : tables[w].id = dbIndex[j].table /\ Builds(tables[w], dbIndex[j].id)
  BY DEF SharedInv
<1>2. PICK k \in 1 .. Len(tables[w].index) : tables[w].index[k].type = "DB" /\ tables[w].index[k].id = dbIndex[j].id
  BY <1>1 DEF Builds
<1>3. /\ r \in 1 .. Len(Datasrc) /\ i \in 1 .. Len(Datasrc[r].index)
      /\ tables[r].index[i].id = Datasrc[r].index[i].id /\ tables[r].index[i].type = Datasrc[r].index[i].type
  BY DeclaredIsBuilt
<1>4. /\ w \in 1 .. Len(Datasrc) /\ k \in 1 .. Len(Datasrc[w].index)
      /\ tables[w].index[k].id = Datasrc[w].index[k].id /\ tables[w].index[k].type = Datasrc[w].index[k].type
  BY DeclaredIsBuilt
<1>5. w = r
  <2>1. tables[w].id = Datasrc[w].id /\ tables[r].id = Datasrc[r].id
    BY DEF TablesInv
  <2> QED
    BY <1>1, <1>3, <1>4, <2>1, RowsOfSchema
<1>6. i = k
  BY <1>2, <1>3, <1>4, <1>5, RowsOfSchema, SMTT(40)
<1> QED
  BY <1>2, <1>5, <1>6

\* Table r, and index i of it, are in one place each.
LEMMA PlacesOfTables ==
  ASSUME StartConstants, StartTypes, TablesInv, SharedInv,
         NEW q \in 1 .. Len(tables), NEW r \in 1 .. Len(tables), tables[q].id = tables[r].id
  PROVE  /\ q = r
         /\ \A i, k \in 1 .. Len(tables[r].index) : tables[r].index[i].id = tables[r].index[k].id => i = k
<1>1. q = r
  <2>1. tables[q].id = Datasrc[q].id /\ tables[r].id = Datasrc[r].id
    BY DEF TablesInv
  <2>2. q \in 1 .. Len(Datasrc) /\ r \in 1 .. Len(Datasrc)
    BY TablesAre, RowsOfSchema DEF TablesInv
  <2> QED
    BY <2>1, <2>2, RowsOfSchema
<1>2. ASSUME NEW i \in 1 .. Len(tables[r].index), NEW k \in 1 .. Len(tables[r].index),
             tables[r].index[i].id = tables[r].index[k].id
      PROVE  i = k
  <2>1. /\ r \in 1 .. Len(Datasrc) /\ i \in 1 .. Len(Datasrc[r].index)
        /\ tables[r].index[i].id = Datasrc[r].index[i].id
    BY DeclaredIsBuilt
  <2>2. /\ k \in 1 .. Len(Datasrc[r].index)
        /\ tables[r].index[k].id = Datasrc[r].index[k].id
    BY DeclaredIsBuilt
  <2> QED
    BY <1>2, <2>1, <2>2, RowsOfSchema
<1> QED
  BY <1>1, <1>2

\* No two places give one resource back.
LEMMA ReleasedApart ==
  ASSUME StartConstants, StartTypes, TablesInv, SharedInv,
         NEW d \in U!Released, NEW e \in U!Released, d[2] = e[2]
  PROVE  d[1] = e[1]
<1> DEFINE Kept == {"table", "index", "hash"}
<1>1. ASSUME NEW c, FromPart(c)
      PROVE  c[1] = c[2] /\ c[2][1] \notin Kept
  <2>1. PICK p \in U!Parts \cup {"krdb"} : c = <<U!One(p), U!One(p)>>
    BY <1>1 DEF FromPart
  <2>2. p \in Names
    BY PartsAre
  <2>3. U!One(p)[1] = p
    BY DEF U!One
  <2> QED
    BY <2>1, <2>2, <2>3 DEF Names
<1>2. \A c : FromTable(c) => c[2][1] = "table"
  BY DEF FromTable
<1>3. ASSUME NEW c, FromIndex(c) \/ FromDbIndex(c)
      PROVE  c[2][1] \in {"index", "hash"}
  <2>1. CASE FromIndex(c)
    BY <2>1 DEF FromIndex
  <2>2. CASE FromDbIndex(c)
    <3>1. PICK j \in 1 .. Len(dbIndex), s \in {"hash", "index"} :
            c = <<<<"db index", j, 0>>, <<s, dbIndex[j].table, dbIndex[j].id>>>>
      BY <2>2 DEF FromDbIndex
    <3>2. c[2] = <<s, dbIndex[j].table, dbIndex[j].id>>
      BY <3>1
    <3> QED
      BY <3>2
  <2> QED
    BY <1>3, <2>1, <2>2
<1>4. \A c \in U!Released : FromPart(c) \/ FromTable(c) \/ FromIndex(c) \/ FromDbIndex(c)
  BY ReleasedIs
<1>5. CASE FromPart(d) /\ FromPart(e)
  BY <1>1, <1>5
<1>6. CASE FromTable(d) /\ FromTable(e)
  <2>1. PICK q \in 1 .. Len(tables) : d = <<<<"table", q, 0>>, <<"table", tables[q].id, 0>>>>
    BY <1>6 DEF FromTable
  <2>2. PICK r \in 1 .. Len(tables) : e = <<<<"table", r, 0>>, <<"table", tables[r].id, 0>>>>
    BY <1>6 DEF FromTable
  <2> QED
    BY <2>1, <2>2, PlacesOfTables
<1>7. ASSUME NEW c, FromIndex(c)
      PROVE  \E r \in 1 .. Len(tables) : \E i \in 1 .. Len(tables[r].index) :
               /\ tables[r].index[i].type = "TABLE" /\ c[1] = <<"index", r, i>>
               /\ c[2][2] = tables[r].id /\ c[2][3] = tables[r].index[i].id
  <2>1. PICK r \in 1 .. Len(tables) : \E i \in 1 .. Len(tables[r].index) :
          /\ tables[r].index[i].type = "TABLE"
          /\ \/ c = <<<<"index", r, i>>, <<"hash", tables[r].index[i].hash, tables[r].index[i].id>>>>
             \/ c = <<<<"index", r, i>>, <<"index", tables[r].id, tables[r].index[i].id>>>>
    BY <1>7 DEF FromIndex
  <2>3. PICK i \in 1 .. Len(tables[r].index) :
          /\ tables[r].index[i].type = "TABLE"
          /\ \/ c = <<<<"index", r, i>>, <<"hash", tables[r].index[i].hash, tables[r].index[i].id>>>>
             \/ c = <<<<"index", r, i>>, <<"index", tables[r].id, tables[r].index[i].id>>>>
    BY <2>1
  <2>2. tables[r].index[i].hash = tables[r].id
    <3>1. IndexBuilt(tables[r].id, tables[r].index[i], Datasrc[r].index[i], dbIndex)
      BY DEF TablesInv
    <3> QED
      BY <2>3, <3>1 DEF IndexBuilt
  <2> QED
    BY <2>2, <2>3
<1>8. ASSUME NEW c, FromDbIndex(c)
      PROVE  \E j \in 1 .. Len(dbIndex) : c[1] = <<"db index", j, 0>> /\ c[2][2] = dbIndex[j].table /\ c[2][3] = dbIndex[j].id
  <2>1. PICK j \in 1 .. Len(dbIndex), s \in {"hash", "index"} :
          c = <<<<"db index", j, 0>>, <<s, dbIndex[j].table, dbIndex[j].id>>>>
    BY <1>8 DEF FromDbIndex
  <2>2. c[1] = <<"db index", j, 0>>
    BY <2>1
  <2>3. c[2] = <<s, dbIndex[j].table, dbIndex[j].id>>
    BY <2>1
  <2>4. c[2][2] = dbIndex[j].table /\ c[2][3] = dbIndex[j].id
    BY ONLY <2>3
  <2> QED
    BY <2>2, <2>4
<1>9. CASE FromIndex(d) /\ FromIndex(e)
  <2>1. PICK q \in 1 .. Len(tables) : \E i \in 1 .. Len(tables[q].index) :
          d[1] = <<"index", q, i>> /\ d[2][2] = tables[q].id /\ d[2][3] = tables[q].index[i].id
    BY <1>7, <1>9
  <2>2. PICK r \in 1 .. Len(tables) : \E k \in 1 .. Len(tables[r].index) :
          e[1] = <<"index", r, k>> /\ e[2][2] = tables[r].id /\ e[2][3] = tables[r].index[k].id
    BY <1>7, <1>9
  <2>3. q = r
    BY <2>1, <2>2, PlacesOfTables
  <2>4. \A i, k \in 1 .. Len(tables[r].index) : tables[r].index[i].id = tables[r].index[k].id => i = k
    BY PlacesOfTables
  <2> QED
    BY <2>1, <2>2, <2>3, <2>4
<1>10. ASSUME NEW c, NEW f, FromIndex(c), FromDbIndex(f), c[2] = f[2]
       PROVE  FALSE
  <2>1. PICK r \in 1 .. Len(tables) : \E i \in 1 .. Len(tables[r].index) :
          tables[r].index[i].type = "TABLE" /\ c[2][2] = tables[r].id /\ c[2][3] = tables[r].index[i].id
    BY <1>7, <1>10
  <2>2. PICK j \in 1 .. Len(dbIndex) : f[2][2] = dbIndex[j].table /\ f[2][3] = dbIndex[j].id
    BY <1>8, <1>10
  <2> QED
    BY <1>10, <2>1, <2>2, IndexApart
<1>11. CASE FromDbIndex(d) /\ FromDbIndex(e)
  <2>1. PICK i \in 1 .. Len(dbIndex) : d[1] = <<"db index", i, 0>> /\ d[2][3] = dbIndex[i].id
    BY <1>8, <1>11
  <2>2. PICK j \in 1 .. Len(dbIndex) : e[1] = <<"db index", j, 0>> /\ e[2][3] = dbIndex[j].id
    BY <1>8, <1>11
  <2>3. i = j
    BY <2>1, <2>2 DEF SharedInv
  <2> QED
    BY <2>1, <2>2, <2>3
<1> QED
  BY <1>1, <1>2, <1>3, <1>4, <1>5, <1>6, <1>9, <1>10, <1>11

\* What is not given back is the description of a shared index that another
\* table than its creator made of it.
LEMMA StoredIsReleased ==
  ASSUME StartConstants, StartTypes, TablesInv, SharedInv, NEW x \in Stored
  PROVE  (\E d \in U!Released : d[2] = x) \/ x \in U!Leaked
<1>1. PICK r \in 1 .. Len(tables) :
        \/ x = <<"table", tables[r].id, 0>>
        \/ \E i \in 1 .. Len(tables[r].index) : x = <<"index", tables[r].id, tables[r].index[i].id>>
        \/ \E i \in 1 .. Len(tables[r].index) : x = <<"hash", tables[r].index[i].hash, tables[r].index[i].id>>
  BY InStored
<1>2. CASE x = <<"table", tables[r].id, 0>>
  <2>1. FromTable(<<<<"table", r, 0>>, x>>)
    BY <1>2 DEF FromTable
  <2>2. <<<<"table", r, 0>>, x>> \in U!Released
    BY <2>1, ReleasedIs
  <2> QED
    BY <2>2
<1>3. ASSUME NEW i \in 1 .. Len(tables[r].index),
             \/ x = <<"index", tables[r].id, tables[r].index[i].id>>
             \/ x = <<"hash", tables[r].index[i].hash, tables[r].index[i].id>>
      PROVE  (\E d \in U!Released : d[2] = x) \/ x \in U!Leaked
  <2> DEFINE y == tables[r].index[i]
             dec == Datasrc[r].index[i]
  <2>1. /\ i \in 1 .. Len(Datasrc[r].index) /\ r \in 1 .. Len(Datasrc)
        /\ y.id = dec.id /\ y.type = dec.type
        /\ dec \in IndexDef
        /\ IndexBuilt(tables[r].id, y, dec, dbIndex)
    BY DeclaredIsBuilt
  <2>2. CASE y.type = "TABLE"
    <3>1. FromIndex(<<<<"index", r, i>>, x>>)
      BY <1>3, <2>2 DEF FromIndex
    <3>2. <<<<"index", r, i>>, x>> \in U!Released
      BY <3>1, ReleasedIs
    <3> QED
      BY <3>2
  <2>3. CASE y.type # "TABLE"
    <3>1. y.type = "DB"
      BY <2>1, <2>3 DEF IndexBuilt
    <3>2. PICK j \in 1 .. Len(dbIndex) : dbIndex[j].id = y.id /\ dbIndex[j].table = y.hash
      BY <2>1, <2>3 DEF IndexBuilt
    <3>3. CASE \E s \in {"hash", "index"} : x = <<s, dbIndex[j].table, dbIndex[j].id>>
      <4>1. FromDbIndex(<<<<"db index", j, 0>>, x>>)
        BY <3>3 DEF FromDbIndex
      <4>2. <<<<"db index", j, 0>>, x>> \in U!Released
        BY <4>1, ReleasedIs
      <4> QED
        BY <4>2
    <3>4. CASE x = <<"index", tables[r].id, y.id>> /\ dbIndex[j].table # tables[r].id
      <4>1. PICK w \in 1 .. Len(tables) :
              /\ tables[w].id = dbIndex[j].table
              /\ Builds(tables[w], dbIndex[j].id)
              /\ \A q \in 1 .. w - 1 : ~Builds(tables[q], dbIndex[j].id)
        BY DEF SharedInv
      <4>2. w \in 1 .. r - 1
        <5>1. Builds(tables[r], dbIndex[j].id)
          BY <3>1, <3>2 DEF Builds
        <5>2. w # r /\ ~(r \in 1 .. w - 1)
          BY <3>4, <4>1, <5>1
        <5> QED
          BY <5>2, TablesAre
      <4>3. U!Declared(w, dec)
        <5>1. PICK k \in 1 .. Len(tables[w].index) : tables[w].index[k].type = "DB" /\ tables[w].index[k].id = dbIndex[j].id
          BY <4>1 DEF Builds
        <5>2. /\ k \in 1 .. Len(Datasrc[w].index) /\ w \in 1 .. Len(Datasrc)
              /\ tables[w].index[k].id = Datasrc[w].index[k].id
              /\ tables[w].index[k].type = Datasrc[w].index[k].type
              /\ Datasrc[w].index[k] \in IndexDef
          BY DeclaredIsBuilt
        <5>3. Datasrc[w].index[k] = dec
          <6>1. Datasrc[w].index[k].id = dec.id /\ Datasrc[w].index[k].type = dec.type
            BY <2>1, <3>1, <3>2, <5>1, <5>2
          <6> HIDE DEF dec
          <6> QED
            BY <2>1, <5>2, <6>1, SMTT(40) DEF IndexDef
        <5>4. Datasrc[w].index \in Seq(IndexDef)
          BY <5>2, RowsOfSchema
        <5> QED
          BY <5>2, <5>3, <5>4 DEF U!Declared
      <4>4. U!FirstDeclaring(dec) # r
        <5> DEFINE T == {q \in 1 .. w : U!Declared(q, dec)}
        <5>1. T \in SUBSET Nat /\ T # {}
          BY <4>2, <4>3
        <5>2. PICK f \in T : \A m \in T : f <= m
          BY <5>1, LeastNatural
        <5>3. f \in 1 .. w /\ U!Declared(f, dec) /\ \A q \in 1 .. f - 1 : ~U!Declared(q, dec)
          <6>1. \A q \in 1 .. f - 1 : q \in 1 .. w /\ ~(f <= q)
            BY <5>2, <4>2
          <6> QED
            BY <5>2, <6>1
        <5>4. f \in 1 .. Len(Datasrc) /\ f # r
          BY <2>1, <4>2, <5>3, RowsOfSchema
        <5>5. U!FirstDeclaring(dec) = f
          BY <5>3, <5>4, FirstIs
        <5> QED
          BY <5>4, <5>5
      <4>5. x \in U!Leaked
        <5>1. Datasrc[r].index \in Seq(IndexDef) /\ r \in DOMAIN Datasrc /\ tables[r].id = Datasrc[r].id
          BY <2>1, RowsOfSchema, SMTT(40) DEF TablesInv, StartConstants, StartTypes
        <5>2. dec \in U!Range(Datasrc[r].index)
          BY <2>1, <5>1 DEF U!Range, ToSet
        <5>3. dec.type # "TABLE" /\ (dec.type = "DB" => U!FirstDeclaring(dec) # r) /\ x = <<"index", Datasrc[r].id, dec.id>>
          BY <2>1, <2>3, <3>4, <4>4, <5>1
        <5> HIDE DEF dec
        <5> QED
          BY <5>1, <5>2, <5>3 DEF U!Leaked
      <4> QED
        BY <4>5
    <3> QED
      BY <1>3, <3>2, <3>3, <3>4
  <2> QED
    BY <2>2, <2>3
<1> QED
  BY <1>1, <1>2, <1>3

LEMMA StrayIsLeaked ==
  ASSUME StartConstants, StartTypes
  PROVE  Stray \subseteq U!Leaked
<1> SUFFICES ASSUME NEW x \in Stray
             PROVE  x \in U!Leaked
  OBVIOUS
<1>1. PICK r \in 1 .. Len(Datasrc) : x \in StrayOf(Datasrc[r])
  BY DEF Stray
<1>2. PICK i \in 1 .. Len(Datasrc[r].index) :
        Datasrc[r].index[i].type \notin {"TABLE", "DB"} /\ x = <<"index", Datasrc[r].id, Datasrc[r].index[i].id>>
  BY <1>1 DEF StrayOf
<1>3. Datasrc[r].index \in Seq(IndexDef) /\ r \in DOMAIN Datasrc
  BY RowsOfSchema DEF StartConstants, StartTypes
<1>4. PICK dec : dec = Datasrc[r].index[i]
  OBVIOUS
<1>5. dec \in U!Range(Datasrc[r].index)
  BY <1>3, <1>4 DEF U!Range, ToSet
<1>6. dec.type # "TABLE" /\ dec.type # "DB" /\ x = <<"index", Datasrc[r].id, dec.id>>
  BY <1>2, <1>4
<1> QED
  BY <1>3, <1>5, <1>6 DEF U!Leaked

LEMMA ShutdownInv ==
  ASSUME StartConstants, StartInv, U!Shutdown
  PROVE  StartInv'
<1>1. upAt = "running" /\ upAt' = "stopped" /\ tables' = <<>> /\ dbIndex' = <<>>
  BY DEF U!Shutdown
<1>2. AtStep(13) /\ Alive /\ upAt \notin Building
  BY <1>1, OrderIs DEF AtStep, Alive, Building
<1>3. UNCHANGED <<Datasrc, config, skipped>>
  BY DEF U!Shutdown
<1>4. StageInv(13) /\ TablesInv /\ SharedInv /\ StartTypes
  BY <1>2 DEF StartInv
<1>5. Open = {}
  BY <1>1, <1>2 DEF Open, OpenAt
<1>6. Taken(13) \cup Stored \subseteq held /\ held \subseteq Taken(13) \cup Stored \cup Stray
  BY <1>4, <1>5 DEF StageInv, HeldInv
<1> DEFINE freed == {d[2] : d \in U!Released}
           again == {d \in U!Released : \E e \in U!Released : e[1] # d[1] /\ e[2] = d[2]}
<1>7. held' = held \ freed /\ twice' = (freed \ held) \cup {d[2] : d \in again}
  BY DEF U!Shutdown
<1>8. freed \subseteq held
  BY <1>4, <1>6, ReleasedIsHeld
<1>9. again = {}
  BY <1>4, ReleasedApart
<1>10. twice' = {}
  BY <1>7, <1>8, <1>9
<1>11. U!Leaked' = U!Leaked
  <2>1. Datasrc' = Datasrc
    BY <1>3
  <2> QED
    BY <2>1 DEF U!Leaked, U!FirstDeclaring, U!Declared
<1>12. held' \subseteq U!Leaked
  <2> SUFFICES ASSUME NEW x \in held, x \notin freed
               PROVE  x \in U!Leaked
    BY <1>7
  <2>1. CASE x \in Taken(13)
    <3>1. PICK p \in U!Parts \cup {"krdb"} : ~U!Omitted(p) /\ x = U!One(p)
      BY <2>1, TakenIsReleased
    <3>2. FromPart(<<x, x>>)
      BY <3>1 DEF FromPart
    <3>3. <<x, x>> \in U!Released
      BY <1>4, <3>2, ReleasedIs
    <3> QED
      BY <3>3
  <2>2. CASE x \in Stored
    BY <1>4, <2>2, StoredIsReleased
  <2>3. CASE x \in Stray
    BY <1>4, <2>3, StrayIsLeaked
  <2> QED
    BY <1>6, <2>1, <2>2, <2>3
<1>13. \A n \in 1 .. 13 : ~AtStep(n)'
  BY <1>1, OrderIs DEF AtStep, Building
<1>14. StartTypes'
  <2>1. <<>> \in Seq(BuiltTable) /\ <<>> \in Seq(Shared)
    OBVIOUS
  <2> QED
    BY <1>1, <1>3, <1>4, <2>1 DEF StartTypes
<1> QED
  BY <1>10, <1>11, <1>12, <1>13, <1>14 DEF StartInv, Alive

LEMMA StartStepInv ==
  ASSUME StartConstants, StartInv, [U!StartNext]_(U!startVars)
  PROVE  StartInv'
<1>1. CASE U!StepFails
  BY <1>1, GaveUp DEF U!StepFails
<1>2. CASE U!BuildFails
  BY <1>2, GaveUp DEF U!BuildFails
<1>3. ASSUME NEW r \in DOMAIN Datasrc, NEW n \in 0 .. Datasrc[r].fields, r = Len(tables) + 1, U!CreateTable(n)
      PROVE  StartInv'
  BY <1>3, CreateTableInv
<1>4. CASE UNCHANGED U!startVars
  <2>1. UNCHANGED <<Datasrc, config, upAt, held, twice, tables, dbIndex, skipped>>
    BY <1>4 DEF U!startVars
  <2>2. UNCHANGED <<StartTypes, TablesInv, SharedInv, Alive>>
    BY <2>1 DEF StartTypes, TablesInv, SharedInv, Alive, AtStep
  <2>3. \A n \in 1 .. 13 : AtStep(n)' = AtStep(n) /\ StageInv(n)' = StageInv(n)
    <3>1. UNCHANGED <<Open, Stored, Stray>>
      BY <2>1 DEF Open, Stored, StoredOf, Stray, StrayOf
    <3>2. \A n \in 1 .. 13 : Taken(n)' = Taken(n)
      BY <2>1 DEF Taken, U!Gains, U!Omitted
    <3> QED
      BY <2>1, <3>1, <3>2 DEF AtStep, StageInv, HeldInv
  <2>4. U!Leaked' = U!Leaked
    BY <2>1 DEF U!Leaked, U!FirstDeclaring, U!Declared
  <2> QED
    BY <2>1, <2>2, <2>3, <2>4 DEF StartInv
<1> QED
  BY <1>1, <1>2, <1>3, <1>4, AcquireInv, CreateDbInv, OpenSelectInv, EndSelectInv, CreateIndexInv,
     UnknownIndexInv, IndexesDoneInv, TablesDoneInv, ShutdownInv
  DEF U!StartNext

\* What the start has built when it is over.
LEMMA StoreIsWhole ==
  ASSUME StartConstants, StartInv
  PROVE  U!StoreWhole
<1> SUFFICES ASSUME upAt = "running", skipped = {}
             PROVE  /\ Len(tables) = Len(Datasrc)
                    /\ \A r \in DOMAIN tables :
                         /\ tables[r].id = Datasrc[r].id /\ tables[r].fields = Datasrc[r].fields
                         /\ Len(tables[r].index) = Len(Datasrc[r].index)
                         /\ \A i \in DOMAIN tables[r].index :
                              LET x == Datasrc[r].index[i]
                              IN  tables[r].index[i] =
                                    [id |-> x.id, type |-> x.type,
                                     hash |-> Datasrc[IF x.type = "DB" THEN U!FirstDeclaring(x) ELSE r].id]
  BY DEF U!StoreWhole
<1>1. AtStep(13) /\ Alive /\ upAt \notin Building /\ upAt # "index"
  BY OrderIs DEF AtStep, Alive, Building
<1>2. StageInv(13) /\ TablesInv /\ SharedInv /\ StartTypes
  BY <1>1 DEF StartInv
<1>3. Len(tables) = Len(Datasrc) /\ DOMAIN tables = 1 .. Len(tables)
  BY <1>1, <1>2 DEF StageInv, StartTypes
<1>4. ASSUME NEW r \in 1 .. Len(tables)
      PROVE  /\ tables[r].id = Datasrc[r].id /\ tables[r].fields = Datasrc[r].fields
             /\ Len(tables[r].index) = Len(Datasrc[r].index)
             /\ DOMAIN tables[r].index = 1 .. Len(tables[r].index)
  <2>1. tables[r].index \in Seq(BuiltIndex)
    BY <1>2, TablesAre
  <2> QED
    BY <1>1, <1>2, <2>1 DEF TablesInv
<1>5. ASSUME NEW r \in 1 .. Len(tables), NEW i \in 1 .. Len(tables[r].index)
      PROVE  LET x == Datasrc[r].index[i]
             IN  tables[r].index[i] =
                   [id |-> x.id, type |-> x.type, hash |-> Datasrc[IF x.type = "DB" THEN U!FirstDeclaring(x) ELSE r].id]
  <2> DEFINE y == tables[r].index[i]
             x == Datasrc[r].index[i]
             h == Datasrc[IF x.type = "DB" THEN U!FirstDeclaring(x) ELSE r].id
  <2>1. /\ y.id = x.id /\ y.type = x.type /\ y \in BuiltIndex /\ x \in IndexDef
        /\ IndexBuilt(tables[r].id, y, x, dbIndex)
    BY <1>2, DeclaredIsBuilt
  <2>2. CASE x.type = "DB"
    <3>1. PICK j \in 1 .. Len(dbIndex) : dbIndex[j].id = x.id /\ dbIndex[j].table = y.hash
      BY <2>1, <2>2 DEF IndexBuilt
    <3>2. PICK w \in 1 .. Len(tables) :
            /\ tables[w].id = dbIndex[j].table
            /\ Builds(tables[w], dbIndex[j].id)
            /\ \A q \in 1 .. w - 1 : ~Builds(tables[q], dbIndex[j].id)
      BY <1>2 DEF SharedInv
    <3>3. U!Declared(w, x)
      <4>1. PICK k \in 1 .. Len(tables[w].index) : tables[w].index[k].type = "DB" /\ tables[w].index[k].id = x.id
        BY <3>1, <3>2 DEF Builds
      <4>2. /\ k \in 1 .. Len(Datasrc[w].index) /\ w \in 1 .. Len(Datasrc)
            /\ tables[w].index[k].id = Datasrc[w].index[k].id
            /\ tables[w].index[k].type = Datasrc[w].index[k].type
            /\ Datasrc[w].index[k] \in IndexDef
        BY <1>2, DeclaredIsBuilt
      <4>3. Datasrc[w].index[k] = x
        <5>1. Datasrc[w].index[k].id = x.id /\ Datasrc[w].index[k].type = x.type
          BY <2>2, <4>1, <4>2
        <5> HIDE DEF x
        <5> QED
          BY <2>1, <4>2, <5>1, SMTT(40) DEF IndexDef
      <4>4. Datasrc[w].index \in Seq(IndexDef)
        BY <1>2, <4>2, RowsOfSchema
      <4> QED
        BY <4>2, <4>3, <4>4 DEF U!Declared
    <3>4. ASSUME NEW q \in 1 .. w - 1, U!Declared(q, x)
          PROVE  FALSE
      <4>1. q \in 1 .. Len(tables) /\ q \in 1 .. Len(Datasrc)
        BY <1>2, <1>3, TablesAre
      <4>2. Datasrc[q].index \in Seq(IndexDef)
        BY <1>2, <4>1, RowsOfSchema
      <4>3. PICK k \in 1 .. Len(Datasrc[q].index) : Datasrc[q].index[k] = x
        <5>1. PICK k \in DOMAIN Datasrc[q].index : Datasrc[q].index[k] = x
          <6> HIDE DEF x
          <6> QED
            BY <3>4 DEF U!Declared
        <5>2. DOMAIN Datasrc[q].index = 1 .. Len(Datasrc[q].index)
          BY <4>2
        <5> HIDE DEF x
        <5> QED
          BY <5>1, <5>2
      <4>4. k \in 1 .. Len(tables[q].index)
        BY <1>4, <4>1, <4>3
      <4>5. tables[q].index[k].id = Datasrc[q].index[k].id /\ tables[q].index[k].type = Datasrc[q].index[k].type
        BY <1>2, <4>1, <4>4, DeclaredIsBuilt
      <4>6. tables[q].index[k].id = x.id /\ tables[q].index[k].type = "DB"
        BY <2>2, <4>3, <4>5
      <4>7. Builds(tables[q], dbIndex[j].id)
        BY <3>1, <4>4, <4>6 DEF Builds
      <4> QED
        BY <3>2, <4>7
    <3>5. w \in 1 .. Len(Datasrc) /\ tables[w].id = Datasrc[w].id
      BY <1>2, <1>3 DEF TablesInv
    <3>6. U!FirstDeclaring(x) = w
      <4> HIDE DEF x
      <4> QED
        BY <1>2, <3>3, <3>4, <3>5, FirstIs
    <3>7. h = y.hash
      BY <2>2, <3>1, <3>2, <3>5, <3>6
    <3> HIDE DEF h, x, y
    <3>8. y = [id |-> x.id, type |-> x.type, hash |-> h]
      BY <2>1, <3>7 DEF BuiltIndex
    <3> QED
      BY <3>8 DEF h, x, y
  <2>3. CASE x.type # "DB"
    <3>1. y.hash = tables[r].id
      BY <2>1, <2>3 DEF IndexBuilt
    <3>2. h = y.hash
      BY <1>4, <2>3, <3>1
    <3> HIDE DEF h, x, y
    <3>3. y = [id |-> x.id, type |-> x.type, hash |-> h]
      BY <2>1, <3>2 DEF BuiltIndex
    <3> QED
      BY <3>3 DEF h, x, y
  <2> QED
    BY <2>2, <2>3
<1> QED
  BY <1>3, <1>4, <1>5

LEMMA StoreIsReleased ==
  ASSUME StartInv
  PROVE  U!ReleasedOnce
BY DEF StartInv, U!ReleasedOnce

-----------------------------------------------------------------------------
(***************************************************************************)
(* The component that runs.                                                *)
(***************************************************************************)

PartsInv ==
  /\ part = "event" => EventInv
  /\ part = "cache" => CacheInv
  /\ part = "load" => LoadInv
  /\ part = "startup" => StartInv

\* The invariant of the component that runs holds in every reachable state.
LEMMA PartsInvariant == PartsSpec => []PartsInv
<1>1. PartsInit => PartsInv
  BY EventInitInv, CacheInitInv, LoadInitInv, StartInitInv,
     EventAssumption, CacheAssumption, LoadAssumption, StartAssumption
     DEF PartsInit, PartsInv
<1>2. PartsInv /\ [PartsNext]_PartsVars => PartsInv'
  <2> SUFFICES ASSUME PartsInv, [PartsNext]_PartsVars
               PROVE  PartsInv'
    OBVIOUS
  <2>1. part' = part
    BY DEF PartsNext, PartsVars
  <2>2. part = "event" => [E!EventNext]_(E!eventVars)
    BY DEF PartsNext, PartsVars, EventVars, E!eventVars
  <2>3. part = "cache" => [X!CacheNext]_(X!cacheVars)
    BY DEF PartsNext, PartsVars, CacheVars, X!cacheVars
  <2>4. part = "load" => [L!LoadNext]_(L!loadVars)
    BY DEF PartsNext, PartsVars, LoadVars, L!loadVars
  <2>8. part = "startup" => [U!StartNext]_(U!startVars)
    BY DEF PartsNext, PartsVars, StartVars, U!startVars
  <2>5. part = "event" => EventInv'
    BY <2>2, EventStepInv, EventAssumption DEF PartsInv
  <2>6. part = "cache" => CacheInv'
    BY <2>3, CacheStepInv, CacheAssumption DEF PartsInv
  <2>7. part = "load" => LoadInv'
    BY <2>4, LoadStepInv, LoadAssumption DEF PartsInv
  <2>9. part = "startup" => StartInv'
    BY <2>8, StartStepInv, StartAssumption DEF PartsInv
  <2> QED
    BY <2>1, <2>5, <2>6, <2>7, <2>9 DEF PartsInv
<1> QED
  BY <1>1, <1>2, PTL DEF PartsSpec

\* However handlers register and delete file events while reported ones
\* wait, the kernel watches what the loop has handlers for, and maxfd is the
\* highest such descriptor (kr_event_file_create, kr_event_file_delete).
THEOREM InterestIsExact == PartsSpec => []InterestExact
<1>1. EventInv => E!InterestExact
  BY DEF EventInv, Exact, E!InterestExact, E!Max, Max
<1>2. PartsInv => InterestExact
  BY <1>1 DEF PartsInv, InterestExact
<1> QED
  BY <1>2, PartsInvariant, PTL

\* However handlers create, delete and put off timers, a pass of
\* processTimeEvents ends with no timer left that was due when it began; and
\* kr_event_process never waits beyond the nearest timer, but for less than a
\* second when that timer is overdue.
THEOREM TimersAreServed == PartsSpec => []TimersServed
<1>1. EventInv => E!TimersServed /\ E!SleepsBounded
  BY DEF EventInv, PassInv, E!TimersServed
<1>2. PartsInv => TimersServed
  BY <1>1 DEF PartsInv, TimersServed
<1> QED
  BY <1>2, PartsInvariant, PTL

\* With one worker, whatever sizes the cache is given: list and hash table
\* hold the same keys, as many as the size allows at most and those used
\* last, and what is found for a key was computed for that key (kr_cache.c,
\* kr_hdi_cache.c).
THEOREM CacheIsExact == PartsSpec => []CacheExact
<1>1. CacheInv => X!CacheExact
  BY KeepsLatest, ComputedForKey, CacheAssumption DEF X!CacheExact
<1>2. PartsInv => CacheExact
  BY <1>1 DEF PartsInv, CacheExact
<1> QED
  BY <1>2, PartsInvariant, PTL

\* The active section holds every row and every rule the database held at the
\* last load that reported success, and the tables compiled from it find every
\* definition and every rule under its id (kr_shm_load, kr_dym_construct,
\* kr_dym_check): a load or a check of which any call fails leaves the section,
\* and no table that is half of one.
THEOREM LoadsAreWhole == PartsSpec => []LoadedWhole
<1>1. LoadInv => L!LoadedWhole
  BY InForceIsWhole, LoadAssumption
<1>2. PartsInv => LoadedWhole
  BY <1>1 DEF PartsInv, LoadedWhole
<1> QED
  BY <1>2, PartsInvariant, PTL

\* Every statement handle the loaders of krparam/kr_shm_*.c and kr_dym_set.c
\* allocate is freed again, whichever call to the database fails and however
\* deeply the cursors are nested; only openings that fail half way leave one.
THEOREM CursorsAreClosed == PartsSpec => []CursorsClosed
<1>1. LoadInv => L!CursorsClosed
  BY DEF LoadInv
<1>2. PartsInv => CursorsClosed
  BY <1>1 DEF PartsInv, CursorsClosed
<1> QED
  BY <1>2, PartsInvariant, PTL

\* However many tables declare a shared index, in whatever order, and wherever
\* the start gives up: a start that reports success without a failure it hides
\* has built every table and index of the database, a shared index on one hash
\* table; and a shutdown gives back every connection, module, table and hash
\* table once, and nothing it does not hold (kr_db_startup, kr_create_index,
\* kr_engine_shutdown, kr_drop_table_index, kr_drop_db_index).
THEOREM StoreIsGivenBack == PartsSpec => []StoreLifecycle
<1>1. StartInv => U!StoreWhole /\ U!ReleasedOnce
  BY StoreIsWhole, StoreIsReleased, StartAssumption
<1>2. PartsInv => StoreLifecycle
  BY <1>1 DEF PartsInv, StoreLifecycle
<1> QED
  BY <1>2, PartsInvariant, PTL
=============================================================================
