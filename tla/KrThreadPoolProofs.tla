------------------------- MODULE KrThreadPoolProofs -------------------------
(***************************************************************************)
(* Proofs of the safety of KrThreadPool, for any number of workers and     *)
(* callers and any high water mark.                                        *)
(***************************************************************************)
EXTENDS KrThreadPool, FiniteSetTheorems, SequenceTheorems, TLAPS

-----------------------------------------------------------------------------
\* What the other proofs need to know of the constants: kr_threadpool_create
\* asserts nthreads > 0.
LEMMA WorkerCount ==
  /\ Cardinality(Workers) \in Nat
  /\ Cardinality(Workers) >= 1
<1>1. Cardinality(Workers) \in Nat
  BY PoolAssumption, FS_CardinalityType
<1>2. Cardinality(Workers) # 0
  BY PoolAssumption, FS_EmptySet
<1> QED
  BY <1>1, <1>2

\* The empty hand of a worker is not a task.
LEMMA NoTaskIsNoTask == NoTask \notin Task
BY DEF NoTask, Task

\* The number of copies that a broadcast gets into the queue
\* (kr_queue_push, up to the high water mark).
LEMMA FitsType ==
  ASSUME queue \in Seq(Task), Len(queue) <= Hwm
  PROVE  /\ Fits \in 0 .. Cardinality(Workers)
         /\ Fits <= Hwm - Len(queue)
BY WorkerCount, PoolAssumption DEF Fits

-----------------------------------------------------------------------------
\* Every step keeps every variable in its type, and the queue below the high
\* water mark of kr_queue_push.
LEMMA TypeStep == TypeOK /\ [Next]_vars => TypeOK'
<1> SUFFICES ASSUME TypeOK, [Next]_vars
             PROVE  TypeOK'
  OBVIOUS
<1> USE PoolAssumption
<1>1. ASSUME NEW c \in Callers, NEW op \in Ops, Submit(c, op)
      PROVE  TypeOK'
  BY <1>1 DEF TypeOK, Submit, Goto, history, Call
<1>2. ASSUME NEW c \in Callers, Spin(c)
      PROVE  TypeOK'
  BY <1>2 DEF TypeOK, Spin, Goto, history
<1>3. ASSUME NEW c \in Callers, Enter(c)
      PROVE  TypeOK'
  BY <1>3 DEF TypeOK, Enter, Goto, Acquire, history
<1>4. ASSUME NEW c \in Callers, AddTask(c)
      PROVE  TypeOK'
  <2> DEFINE t == [id |-> call[c].id, copy |-> 1]
  <2>1. call[c] \in Call /\ pc[c] = "push"
    BY <1>4 DEF TypeOK, AddTask
  <2>2. t \in Task
    BY <2>1, WorkerCount DEF Call, Task
  <2>3. /\ queue' \in Seq(Task)
        /\ Len(queue') <= Hwm
        /\ accepted' \in SUBSET Task
        /\ refused' \in SUBSET Call
    BY <1>4, <2>1, <2>2 DEF TypeOK, AddTask
  <2>4. asleep' \in SUBSET Workers
    BY <1>4 DEF TypeOK, AddTask, Signal
  <2>5. /\ mutex' = Free
        /\ pc' = [pc EXCEPT ![c] = "out"]
        /\ call' = [call EXCEPT ![c] = NoCall]
        /\ UNCHANGED <<task, calls, done>>
    BY <1>4 DEF AddTask, Return, Goto
  <2> QED
    BY <2>3, <2>4, <2>5 DEF TypeOK
<1>5. ASSUME NEW c \in Callers, BroadcastTask(c)
      PROVE  TypeOK'
  <2> DEFINE copies == [i \in 1 .. Fits |-> [id |-> call[c].id, copy |-> i]]
  <2>1. call[c] \in Call /\ pc[c] = "push"
    BY <1>5 DEF TypeOK, BroadcastTask
  <2>2. /\ Fits \in 0 .. Cardinality(Workers)
        /\ Fits <= Hwm - Len(queue)
    BY FitsType DEF TypeOK
  <2>3. /\ copies \in Seq(Task)
        /\ Len(copies) = Fits
        /\ \A i \in 1 .. Fits : copies[i] \in Task
    <3>1. \A i \in 1 .. Fits : [id |-> call[c].id, copy |-> i] \in Task
      BY <2>1, <2>2, WorkerCount DEF Call, Task
    <3> QED
      BY <3>1, <2>2, WorkerCount
  <2> HIDE DEF copies
  <2>4. /\ queue' = queue \o copies
        /\ accepted' = accepted \cup {copies[i] : i \in 1 .. Fits}
        /\ refused' \in {refused, refused \cup {call[c]}}
        /\ asleep' \in {asleep, {}}
    BY <1>5 DEF BroadcastTask, copies
  <2>5. /\ queue' \in Seq(Task)
        /\ Len(queue') <= Hwm
    <3>1. queue \in Seq(Task) /\ Len(queue) \in Nat
      BY DEF TypeOK
    <3>2. queue \o copies \in Seq(Task) /\ Len(queue \o copies) = Len(queue) + Len(copies)
      BY <3>1, <2>3
    <3> QED
      BY <3>1, <3>2, <2>2, <2>3, <2>4, WorkerCount
  <2>6. /\ accepted' \in SUBSET Task
        /\ refused' \in SUBSET Call
        /\ asleep' \in SUBSET Workers
    BY <2>1, <2>3, <2>4 DEF TypeOK
  <2>7. /\ mutex' = Free
        /\ pc' = [pc EXCEPT ![c] = "out"]
        /\ call' = [call EXCEPT ![c] = NoCall]
        /\ UNCHANGED <<task, calls, done>>
    BY <1>5 DEF BroadcastTask, Return, Goto
  <2> QED
    BY <2>5, <2>6, <2>7 DEF TypeOK
<1>6. ASSUME NEW w \in Workers, Lock(w)
      PROVE  TypeOK'
  BY <1>6 DEF TypeOK, Lock, Goto, Acquire, history
<1>7. ASSUME NEW w \in Workers, Wait(w)
      PROVE  TypeOK'
  BY <1>7 DEF TypeOK, Wait, Goto, history
<1>8. ASSUME NEW w \in Workers, Pop(w)
      PROVE  TypeOK'
  <2>1. /\ Head(queue) \in Task
        /\ Tail(queue) \in Seq(Task)
        /\ Len(Tail(queue)) <= Hwm
    BY <1>8 DEF TypeOK, Pop
  <2> QED
    BY <1>8, <2>1 DEF TypeOK, Pop, Goto, history
<1>9. ASSUME NEW w \in Workers, Run(w)
      PROVE  TypeOK'
  BY <1>9, NoTaskIsNoTask DEF TypeOK, Run, Goto
<1>10. ASSUME NEW w \in Workers, WakeUp(w)
       PROVE  TypeOK'
  BY <1>10 DEF TypeOK, WakeUp, history
<1>11. CASE UNCHANGED vars
  BY <1>11 DEF TypeOK, vars
<1> QED
  BY <1>1, <1>2, <1>3, <1>4, <1>5, <1>6, <1>7, <1>8, <1>9, <1>10, <1>11
     DEF Next, CallerStep, WorkerStep

\* The type invariant of the thread pool.
THEOREM TypeCorrect == Spec => []TypeOK
<1>1. Init => TypeOK
  BY PoolAssumption, NoTaskIsNoTask DEF Init, TypeOK
<1> QED
  BY <1>1, TypeStep, PTL DEF Spec

-----------------------------------------------------------------------------
\* A step of a thread changes the mutex and its own program point together.
LEMMA MutexStep == TypeOK /\ MutexHeld /\ [Next]_vars => MutexHeld'
<1> SUFFICES ASSUME TypeOK, MutexHeld, [Next]_vars
             PROVE  MutexHeld'
  OBVIOUS
<1> USE PoolAssumption
<1>1. ASSUME NEW c \in Callers, NEW op \in Ops, Submit(c, op)
      PROVE  MutexHeld'
  BY <1>1 DEF TypeOK, MutexHeld, Submit, Goto
<1>2. ASSUME NEW c \in Callers, Spin(c)
      PROVE  MutexHeld'
  BY <1>2 DEF TypeOK, MutexHeld, Spin, Goto
<1>3. ASSUME NEW c \in Callers, Enter(c)
      PROVE  MutexHeld'
  BY <1>3 DEF TypeOK, MutexHeld, Enter, Goto, Acquire
<1>4. ASSUME NEW c \in Callers, AddTask(c) \/ BroadcastTask(c)
      PROVE  MutexHeld'
  <2>1. /\ pc[c] = "push"
        /\ mutex' = Free
        /\ pc' = [pc EXCEPT ![c] = "out"]
    BY <1>4 DEF AddTask, BroadcastTask, Return, Goto
  <2>2. asleep' \subseteq asleep
    <3>1. CASE AddTask(c)
      BY <3>1 DEF AddTask, Signal
    <3>2. CASE BroadcastTask(c)
      BY <3>2 DEF BroadcastTask
    <3> QED
      BY <1>4, <3>1, <3>2
  <2> QED
    BY <2>1, <2>2 DEF TypeOK, MutexHeld
<1>5. ASSUME NEW w \in Workers, Lock(w)
      PROVE  MutexHeld'
  BY <1>5 DEF TypeOK, MutexHeld, Lock, Goto, Acquire
<1>6. ASSUME NEW w \in Workers, Wait(w)
      PROVE  MutexHeld'
  BY <1>6 DEF TypeOK, MutexHeld, Wait, Goto
<1>7. ASSUME NEW w \in Workers, Pop(w)
      PROVE  MutexHeld'
  BY <1>7 DEF TypeOK, MutexHeld, Pop, Goto
<1>8. ASSUME NEW w \in Workers, Run(w)
      PROVE  MutexHeld'
  BY <1>8 DEF TypeOK, MutexHeld, Run, Goto
<1>9. ASSUME NEW w \in Workers, WakeUp(w)
      PROVE  MutexHeld'
  BY <1>9 DEF TypeOK, MutexHeld, WakeUp
<1>10. CASE UNCHANGED vars
  BY <1>10 DEF MutexHeld, vars
<1> QED
  BY <1>1, <1>2, <1>3, <1>4, <1>5, <1>6, <1>7, <1>8, <1>9, <1>10
     DEF Next, CallerStep, WorkerStep

\* The critical sections of the pool exclude each other.
THEOREM MutexSafe == Spec => []MutexHeld
<1>1. Init => MutexHeld
  BY PoolAssumption DEF Init, MutexHeld
<1> QED
  BY <1>1, MutexStep, TypeCorrect, PTL DEF Spec

-----------------------------------------------------------------------------
\* What a sole caller may rely on: the room it saw in the spin loop does not
\* go away, because only workers touch the queue until it pushes.
RoomKept ==
  (\A b, c \in Callers : b = c) =>
     /\ \A c \in Callers : pc[c] \in {"enter", "push"} => Len(queue) < Hwm
     /\ \A r \in refused : r.op # "add"

\* Every step keeps the room that a sole caller has seen.
LEMMA RoomStep == TypeOK /\ RoomKept /\ [Next]_vars => RoomKept'
<1> SUFFICES ASSUME TypeOK, RoomKept, [Next]_vars, \A b, c \in Callers : b = c
             PROVE  /\ \A c \in Callers : pc'[c] \in {"enter", "push"} => Len(queue') < Hwm
                    /\ \A r \in refused' : r.op # "add"
  BY DEF RoomKept
<1> DEFINE Goal == /\ \A c \in Callers : pc'[c] \in {"enter", "push"} => Len(queue') < Hwm
                   /\ \A r \in refused' : r.op # "add"
<1>0. /\ \A c \in Callers : pc[c] \in {"enter", "push"} => Len(queue) < Hwm
      /\ \A r \in refused : r.op # "add"
  BY DEF RoomKept
<1> USE PoolAssumption
<1>1. ASSUME NEW c \in Callers, NEW op \in Ops, Submit(c, op)
      PROVE  Goal
  BY <1>0, <1>1 DEF TypeOK, Submit, Goto, history
<1>2. ASSUME NEW c \in Callers, Spin(c)
      PROVE  Goal
  BY <1>0, <1>2 DEF TypeOK, Spin, Goto, history, HasRoom
<1>3. ASSUME NEW c \in Callers, Enter(c)
      PROVE  Goal
  BY <1>0, <1>3 DEF TypeOK, Enter, Goto, history
<1>4. ASSUME NEW c \in Callers, AddTask(c)
      PROVE  Goal
  <2>1. /\ pc[c] = "push"
        /\ pc' = [pc EXCEPT ![c] = "out"]
    BY <1>4 DEF AddTask, Return, Goto
  <2>2. refused' = refused
    BY <1>0, <1>4, <2>1 DEF AddTask
  <2> QED
    BY <1>0, <2>1, <2>2 DEF TypeOK
<1>5. ASSUME NEW c \in Callers, BroadcastTask(c)
      PROVE  Goal
  <2>1. /\ call[c].op = "broadcast"
        /\ pc' = [pc EXCEPT ![c] = "out"]
        /\ refused' \in {refused, refused \cup {call[c]}}
    BY <1>5 DEF BroadcastTask, Return, Goto
  <2> QED
    BY <1>0, <2>1 DEF TypeOK
<1>6. ASSUME NEW w \in Workers, Lock(w) \/ Wait(w) \/ Run(w) \/ WakeUp(w)
      PROVE  Goal
  BY <1>0, <1>6 DEF TypeOK, Lock, Wait, Run, WakeUp, Goto, history
<1>7. ASSUME NEW w \in Workers, Pop(w)
      PROVE  Goal
  <2>1. /\ Len(queue) \in Nat
        /\ Len(queue') = Len(queue) - 1
    BY <1>7 DEF TypeOK, Pop
  <2>2. /\ refused' = refused
        /\ \A c \in Callers : pc'[c] = pc[c]
    BY <1>7 DEF TypeOK, Pop, Goto, history
  <2> QED
    BY <1>0, <2>1, <2>2
<1>8. CASE UNCHANGED vars
  BY <1>0, <1>8 DEF vars
<1> QED
  BY <1>1, <1>2, <1>3, <1>4, <1>5, <1>6, <1>7, <1>8 DEF Next, CallerStep, WorkerStep

\* kr_threadpool_add_task never refuses a sole caller, whatever the number of
\* workers and the high water mark.
THEOREM SoleCaller == Spec => []SoleCallerNeverRefused
<1>1. Init => RoomKept
  BY DEF Init, RoomKept
<1>2. RoomKept => SoleCallerNeverRefused
  BY DEF RoomKept, SoleCallerNeverRefused
<1> QED
  BY <1>1, <1>2, RoomStep, TypeCorrect, PTL DEF Spec

-----------------------------------------------------------------------------
\* Alert is a finite set: its cardinality can be reasoned about.
LEMMA AlertFinite == IsFiniteSet(Alert) /\ Cardinality(Alert) \in Nat
<1>1. Alert \subseteq Workers
  BY DEF Alert
<1> QED
  BY <1>1, PoolAssumption, FS_Subset, FS_CardinalityType

\* One worker more, one worker less.
LEMMA OneMore ==
  ASSUME NEW S, IsFiniteSet(S), NEW w, w \notin S
  PROVE  Cardinality(S \cup {w}) = Cardinality(S) + 1
BY FS_AddElement

\* The same for a worker that leaves the set.
LEMMA OneLess ==
  ASSUME NEW S, IsFiniteSet(S), NEW w \in S
  PROVE  Cardinality(S \ {w}) = Cardinality(S) - 1
BY FS_RemoveElement

\* Every add_task wakes a sleeper for the task it pushes, and a worker goes to
\* sleep only when the queue is empty.
LEMMA AlertStep == TypeOK /\ MutexHeld /\ EnoughAlert /\ [Next]_vars => EnoughAlert'
<1> SUFFICES ASSUME TypeOK, MutexHeld, EnoughAlert, [Next]_vars, NoCutShort', asleep' # {}
             PROVE  Len(queue') <= Cardinality(Alert')
  BY DEF EnoughAlert
<1> DEFINE Goal == Len(queue') <= Cardinality(Alert')
<1> USE PoolAssumption
<1>a. /\ IsFiniteSet(Alert) /\ Cardinality(Alert) \in Nat
      /\ Len(queue) \in Nat
  BY AlertFinite DEF TypeOK
<1>b. Cardinality(Alert') \in Nat
  <2>1. Alert' \subseteq Workers
    BY DEF Alert
  <2> QED
    BY <2>1, FS_Subset, FS_CardinalityType
<1>c. ASSUME UNCHANGED refused, asleep # {}
      PROVE  Len(queue) <= Cardinality(Alert)
  BY <1>c DEF EnoughAlert, NoCutShort
<1>1. ASSUME NEW c \in Callers,
             (\E op \in Ops : Submit(c, op)) \/ Spin(c) \/ Enter(c)
      PROVE  Goal
  <2>1. UNCHANGED <<queue, asleep, refused>>
    BY <1>1 DEF Submit, Spin, Enter, history
  <2>2. \A w \in Workers : pc'[w] = pc[w]
    BY <1>1 DEF TypeOK, Submit, Spin, Enter, Goto
  <2>3. Alert' = Alert
    BY <2>1, <2>2 DEF Alert
  <2> QED
    BY <1>c, <2>1, <2>3
<1>2. ASSUME NEW c \in Callers, AddTask(c)
      PROVE  Goal
  <2>1. \A w \in Workers : pc'[w] = pc[w]
    BY <1>2 DEF TypeOK, AddTask, Return, Goto
  <2>2. CASE Len(queue) < Hwm
    <3>1. refused' = refused /\ Len(queue') = Len(queue) + 1
      BY <1>2, <2>2 DEF TypeOK, AddTask
    <3>2. asleep # {}
      BY <1>2, <2>2 DEF AddTask, Signal
    <3>3. PICK w \in asleep : asleep' = asleep \ {w}
      BY <1>2, <2>2, <3>2 DEF AddTask, Signal
    <3>4. w \in Workers /\ pc[w] = "wait"
      BY DEF TypeOK, MutexHeld
    <3>5. Alert' = Alert \cup {w} /\ w \notin Alert
      BY <2>1, <3>3, <3>4 DEF Alert
    <3>6. Cardinality(Alert') = Cardinality(Alert) + 1
      BY <1>a, <3>5, OneMore
    <3>7. Len(queue) <= Cardinality(Alert)
      BY <1>c, <3>1, <3>2
    <3> QED
      BY <1>a, <3>1, <3>6, <3>7
  <2>3. CASE ~ (Len(queue) < Hwm)
    <3>1. UNCHANGED <<queue, asleep>> /\ refused' = refused \cup {call[c]}
      BY <1>2, <2>3 DEF AddTask
    <3>2. NoCutShort
      BY <3>1 DEF NoCutShort
    <3>3. Alert' = Alert
      BY <2>1, <3>1 DEF Alert
    <3> QED
      BY <3>1, <3>2, <3>3 DEF EnoughAlert
  <2> QED
    BY <2>2, <2>3
<1>3. ASSUME NEW c \in Callers, BroadcastTask(c)
      PROVE  Goal
  <2>1. call[c].op = "broadcast" /\ refused' = refused \cup {call[c]}
    BY <1>3 DEF BroadcastTask
  <2> QED
    BY <2>1 DEF NoCutShort
<1>4. ASSUME NEW w \in Workers, Lock(w)
      PROVE  Goal
  <2>1. UNCHANGED <<queue, asleep, refused>>
    BY <1>4 DEF Lock, history
  <2>2. Alert' = Alert
    BY <1>4, <2>1 DEF TypeOK, Lock, Goto, Alert
  <2> QED
    BY <1>c, <2>1, <2>2
<1>5. ASSUME NEW w \in Workers, Wait(w)
      PROVE  Goal
  BY <1>5, <1>b DEF Wait
<1>6. ASSUME NEW w \in Workers, Pop(w)
      PROVE  Goal
  <2>1. /\ UNCHANGED <<asleep, refused>>
        /\ Len(queue') = Len(queue) - 1
    BY <1>6 DEF TypeOK, Pop, history
  <2>2. w \in Alert
    BY <1>6 DEF MutexHeld, Pop, Alert
  <2>3. Alert' = Alert \ {w}
    BY <1>6, <2>1 DEF TypeOK, Pop, Goto, Alert
  <2>4. Cardinality(Alert') = Cardinality(Alert) - 1
    BY <1>a, <2>2, <2>3, OneLess
  <2> QED
    BY <1>a, <1>c, <2>1, <2>4
<1>7. ASSUME NEW w \in Workers, Run(w)
      PROVE  Goal
  <2>1. UNCHANGED <<queue, asleep, refused>>
    BY <1>7 DEF Run
  <2>2. w \notin Alert /\ Alert' = Alert \cup {w}
    BY <1>7, <2>1 DEF TypeOK, MutexHeld, Run, Goto, Alert
  <2>3. Cardinality(Alert') = Cardinality(Alert) + 1
    BY <1>a, <2>2, OneMore
  <2> QED
    BY <1>a, <1>c, <2>1, <2>3
<1>8. ASSUME NEW w \in Workers, WakeUp(w)
      PROVE  Goal
  <2>1. UNCHANGED <<queue, refused, pc>> /\ asleep' = asleep \ {w} /\ w \in asleep
    BY <1>8 DEF WakeUp, history
  <2>2. w \notin Alert /\ Alert' = Alert \cup {w}
    BY <2>1 DEF MutexHeld, Alert
  <2>3. Cardinality(Alert') = Cardinality(Alert) + 1
    BY <1>a, <2>2, OneMore
  <2> QED
    BY <1>a, <1>c, <2>1, <2>3
<1>9. CASE UNCHANGED vars
  BY <1>9, <1>c DEF vars, Alert
<1> QED
  BY <1>1, <1>2, <1>3, <1>4, <1>5, <1>6, <1>7, <1>8, <1>9
     DEF Next, CallerStep, WorkerStep

\* No wakeup is lost: one pthread_cond_signal per task is enough, for any
\* number of workers.
THEOREM NoLostWakeup == Spec => []EnoughAlert
<1>1. Init => EnoughAlert
  BY DEF Init, EnoughAlert
<1> QED
  BY <1>1, AlertStep, TypeCorrect, MutexSafe, PTL DEF Spec

-----------------------------------------------------------------------------
\* Calls in progress have task numbers of their own, which no accepted task
\* has yet; finished tasks were accepted.
FreshCalls ==
  /\ \A c \in Callers : pc[c] # "out" =>
       /\ call[c].id <= calls
       /\ \A t \in accepted : t.id # call[c].id
  /\ \A b, c \in Callers : b # c /\ pc[b] # "out" /\ pc[c] # "out" => call[b].id # call[c].id
  /\ \A t \in accepted : t.id <= calls
  /\ done \subseteq accepted

OnceInv == FreshCalls /\ TaskInOnePlace

\* What a push of tasks that are new, and different from each other, does to
\* the queue (kr_list_add_tail).
LEMMA PushKeeps ==
  ASSUME TypeOK, OnceInv, NEW new \in Seq(Task),
         \A i \in 1 .. Len(new) : new[i] \notin accepted,
         \A i, j \in 1 .. Len(new) : new[i] = new[j] => i = j,
         queue' = queue \o new,
         accepted' = accepted \cup {new[i] : i \in 1 .. Len(new)},
         UNCHANGED <<task, done>>,
         \A w \in Workers : pc'[w] = pc[w]
  PROVE  TaskInOnePlace'
<1>1. /\ Len(queue) \in Nat /\ Len(new) \in Nat
      /\ Len(queue') = Len(queue) + Len(new)
      /\ \A i \in 1 .. Len(queue) : queue'[i] = queue[i]
      /\ \A i \in Len(queue) + 1 .. Len(queue') : queue'[i] = new[i - Len(queue)]
  BY DEF TypeOK
<1>2. \A i \in 1 .. Len(queue') : \/ i \in 1 .. Len(queue)
                                  \/ i - Len(queue) \in 1 .. Len(new) /\ i \in Len(queue) + 1 .. Len(queue')
  <2> TAKE i \in 1 .. Len(queue')
  <2>1. i \in Nat /\ 1 <= i /\ i <= Len(queue) + Len(new)
    BY <1>1
  <2> QED
    BY <1>1, <2>1
<1>3. \A i \in 1 .. Len(queue) : queue[i] \in accepted
  BY DEF OnceInv, TaskInOnePlace
<1>4. \A i, j \in 1 .. Len(queue') : queue'[i] = queue'[j] => i = j
  <2> SUFFICES ASSUME NEW i \in 1 .. Len(queue'), NEW j \in 1 .. Len(queue'),
                      queue'[i] = queue'[j]
               PROVE  i = j
    OBVIOUS
  <2>1. CASE i \in 1 .. Len(queue) /\ j \in 1 .. Len(queue)
    BY <1>1, <2>1 DEF OnceInv, TaskInOnePlace
  <2>2. CASE i \in 1 .. Len(queue) /\ j \notin 1 .. Len(queue)
    BY <1>1, <1>2, <1>3, <2>2
  <2>3. CASE i \notin 1 .. Len(queue) /\ j \in 1 .. Len(queue)
    BY <1>1, <1>2, <1>3, <2>3
  <2>4. CASE i \notin 1 .. Len(queue) /\ j \notin 1 .. Len(queue)
    <3>1. /\ i - Len(queue) \in 1 .. Len(new) /\ j - Len(queue) \in 1 .. Len(new)
          /\ new[i - Len(queue)] = new[j - Len(queue)]
      BY <1>1, <1>2, <2>4
    <3>2. i - Len(queue) = j - Len(queue)
      BY <3>1
    <3> QED
      BY <1>1, <3>2
  <2> QED
    BY <2>1, <2>2, <2>3, <2>4
<1>5. \A v, w \in Workers : pc'[v] = "run" /\ pc'[w] = "run" /\ task'[v] = task'[w] => v = w
  BY DEF OnceInv, TaskInOnePlace
<1>6. \A i \in 1 .. Len(queue') : queue'[i] \in accepted' \ done'
  <2>1. \A i \in 1 .. Len(queue) : queue'[i] \in accepted \ done
    BY <1>1 DEF OnceInv, TaskInOnePlace
  <2>2. done \subseteq accepted
    BY DEF OnceInv, FreshCalls
  <2> QED
    BY <1>1, <1>2, <2>1, <2>2
<1>7. \A w \in Workers : pc'[w] = "run" =>
        /\ task'[w] \in accepted' \ done'
        /\ \A i \in 1 .. Len(queue') : queue'[i] # task'[w]
  <2> SUFFICES ASSUME NEW w \in Workers, pc[w] = "run"
               PROVE  /\ task[w] \in accepted' \ done
                      /\ \A i \in 1 .. Len(queue') : queue'[i] # task[w]
    OBVIOUS
  <2>1. /\ task[w] \in accepted \ done
        /\ \A i \in 1 .. Len(queue) : queue[i] # task[w]
    BY DEF OnceInv, TaskInOnePlace
  <2> QED
    BY <1>1, <1>2, <2>1
<1>8. \A t \in accepted' : \/ t \in done'
                           \/ \E i \in 1 .. Len(queue') : queue'[i] = t
                           \/ \E w \in Workers : pc'[w] = "run" /\ task'[w] = t
  <2>1. ASSUME NEW t \in accepted
        PROVE  \/ t \in done'
               \/ \E i \in 1 .. Len(queue') : queue'[i] = t
               \/ \E w \in Workers : pc'[w] = "run" /\ task'[w] = t
    <3>1. \/ t \in done
          \/ \E i \in 1 .. Len(queue) : queue[i] = t
          \/ \E w \in Workers : pc[w] = "run" /\ task[w] = t
      BY DEF OnceInv, TaskInOnePlace
    <3>2. 1 .. Len(queue) \subseteq 1 .. Len(queue')
      BY <1>1
    <3> QED
      BY <1>1, <3>1, <3>2
  <2>2. ASSUME NEW i \in 1 .. Len(new)
        PROVE  \E j \in 1 .. Len(queue') : queue'[j] = new[i]
    <3>1. /\ Len(queue) + i \in Len(queue) + 1 .. Len(queue')
          /\ Len(queue) + i \in 1 .. Len(queue')
          /\ (Len(queue) + i) - Len(queue) = i
      BY <1>1
    <3> QED
      BY <1>1, <3>1
  <2>3. ASSUME NEW t \in accepted'
        PROVE  t \in accepted \/ \E i \in 1 .. Len(new) : t = new[i]
    OBVIOUS
  <2> TAKE t \in accepted'
  <2>4. CASE t \in accepted
    BY <2>1, <2>4
  <2>5. CASE \E i \in 1 .. Len(new) : t = new[i]
    BY <2>2, <2>5
  <2> QED
    BY <2>3, <2>4, <2>5
<1> QED
  BY <1>4, <1>5, <1>6, <1>7, <1>8 DEF TaskInOnePlace

\* Every step keeps the numbers of the calls apart.
LEMMA FreshStep == TypeOK /\ OnceInv /\ [Next]_vars => FreshCalls'
<1> SUFFICES ASSUME TypeOK, OnceInv, [Next]_vars
             PROVE  FreshCalls'
  OBVIOUS
<1> USE PoolAssumption
<1>a. FreshCalls
  BY DEF OnceInv
<1>1. ASSUME NEW c \in Callers, NEW op \in Ops, Submit(c, op)
      PROVE  FreshCalls'
  <2>1. /\ calls \in Nat
        /\ \A b \in Callers : pc[b] # "out" => call[b].id \in Nat
        /\ \A t \in accepted : t.id \in Nat
    BY DEF TypeOK, Call, Task
  <2> QED
    BY <1>a, <1>1, <2>1 DEF TypeOK, FreshCalls, Submit, Goto, history
<1>2. ASSUME NEW c \in Callers, Spin(c) \/ Enter(c)
      PROVE  FreshCalls'
  BY <1>a, <1>2 DEF TypeOK, FreshCalls, Spin, Enter, Goto, history
<1>3. ASSUME NEW c \in Callers, AddTask(c) \/ BroadcastTask(c)
      PROVE  FreshCalls'
  <2>1. /\ pc[c] = "push"
        /\ pc' = [pc EXCEPT ![c] = "out"]
        /\ call' = [call EXCEPT ![c] = NoCall]
        /\ UNCHANGED <<calls, done>>
    BY <1>3 DEF AddTask, BroadcastTask, Return, Goto
  <2>2. /\ accepted \subseteq accepted'
        /\ \A t \in accepted' : t \in accepted \/ t.id = call[c].id
    <3>1. CASE AddTask(c)
      BY <3>1 DEF AddTask
    <3>2. CASE BroadcastTask(c)
      BY <3>2 DEF BroadcastTask
    <3> QED
      BY <1>3, <3>1, <3>2
  <2> QED
    BY <1>a, <2>1, <2>2 DEF TypeOK, FreshCalls
<1>4. ASSUME NEW w \in Workers, Lock(w) \/ Wait(w) \/ Pop(w) \/ WakeUp(w)
      PROVE  FreshCalls'
  BY <1>a, <1>4 DEF TypeOK, FreshCalls, Lock, Wait, Pop, WakeUp, Goto, history
<1>5. ASSUME NEW w \in Workers, Run(w)
      PROVE  FreshCalls'
  <2>1. task[w] \in accepted
    BY <1>5 DEF OnceInv, TaskInOnePlace, Run
  <2> QED
    BY <1>a, <1>5, <2>1 DEF TypeOK, FreshCalls, Run, Goto
<1>6. CASE UNCHANGED vars
  BY <1>a, <1>6 DEF FreshCalls, vars
<1> QED
  BY <1>1, <1>2, <1>3, <1>4, <1>5, <1>6 DEF Next, CallerStep, WorkerStep

\* What a pop does to the queue: the tasks that are left are one place further
\* to the front (kr_list_remove_head).
LEMMA PopShifts ==
  ASSUME queue \in Seq(Task), queue # <<>>, queue' = Tail(queue)
  PROVE  /\ Len(queue) \in Nat /\ Len(queue) >= 1
         /\ Len(queue') = Len(queue) - 1
         /\ \A i \in 1 .. Len(queue') : i + 1 \in 2 .. Len(queue) /\ queue'[i] = queue[i + 1]
         /\ Head(queue) = queue[1]
OBVIOUS

\* The pop of one worker moves the oldest task into its hands and leaves the
\* other tasks where they are (kr_threadpool_get_task).
LEMMA PopKeeps ==
  ASSUME TypeOK, OnceInv, NEW w \in Workers, Pop(w)
  PROVE  TaskInOnePlace'
<1>1. /\ pc[w] = "test" /\ queue # <<>>
      /\ pc' = [pc EXCEPT ![w] = "run"]
      /\ task' = [task EXCEPT ![w] = Head(queue)]
      /\ queue' = Tail(queue)
      /\ UNCHANGED <<accepted, done>>
  BY DEF Pop, Goto, history
<1>2. /\ Len(queue) \in Nat /\ Len(queue) >= 1
      /\ Len(queue') = Len(queue) - 1
      /\ \A i \in 1 .. Len(queue') : i + 1 \in 2 .. Len(queue) /\ queue'[i] = queue[i + 1]
      /\ Head(queue) = queue[1]
  BY <1>1, PopShifts DEF TypeOK
<1>3. /\ pc'[w] = "run" /\ task'[w] = queue[1]
      /\ \A v \in Workers : v # w => pc'[v] = pc[v] /\ task'[v] = task[v]
  BY <1>1, <1>2 DEF TypeOK
<1>4. TaskInOnePlace
  BY DEF OnceInv
<1>5. \A i \in 1 .. Len(queue') : i + 1 \in 1 .. Len(queue) /\ i + 1 # 1
  BY <1>2
<1>6. \A i, j \in 1 .. Len(queue') : queue'[i] = queue'[j] => i = j
  <2> SUFFICES ASSUME NEW i \in 1 .. Len(queue'), NEW j \in 1 .. Len(queue'),
                      queue'[i] = queue'[j]
               PROVE  i = j
    OBVIOUS
  <2>1. i + 1 = j + 1
    BY <1>2, <1>4, <1>5 DEF TaskInOnePlace
  <2> QED
    BY <2>1
<1>7. \A u, v \in Workers : pc'[u] = "run" /\ pc'[v] = "run" /\ task'[u] = task'[v] => u = v
  <2>1. 1 \in 1 .. Len(queue)
    BY <1>2
  <2> QED
    BY <1>3, <1>4, <2>1 DEF TaskInOnePlace
<1>8. \A i \in 1 .. Len(queue') : queue'[i] \in accepted' \ done'
  BY <1>1, <1>2, <1>4, <1>5 DEF TaskInOnePlace
<1>9. ASSUME NEW v \in Workers, pc'[v] = "run"
      PROVE  /\ task'[v] \in accepted' \ done'
             /\ \A i \in 1 .. Len(queue') : queue'[i] # task'[v]
  <2>1. 1 \in 1 .. Len(queue)
    BY <1>2
  <2>2. CASE v = w
    BY <1>1, <1>2, <1>3, <1>4, <1>5, <2>1, <2>2 DEF TaskInOnePlace
  <2>3. CASE v # w
    BY <1>1, <1>2, <1>3, <1>4, <1>5, <1>9, <2>3 DEF TaskInOnePlace
  <2> QED
    BY <2>2, <2>3
<1>10. ASSUME NEW t \in accepted'
       PROVE  \/ t \in done'
              \/ \E i \in 1 .. Len(queue') : queue'[i] = t
              \/ \E v \in Workers : pc'[v] = "run" /\ task'[v] = t
  <2>1. CASE t \in done
    BY <1>1, <2>1
  <2>2. ASSUME NEW i \in 1 .. Len(queue), queue[i] = t
        PROVE  \/ \E j \in 1 .. Len(queue') : queue'[j] = t
               \/ task'[w] = t
    <3>1. CASE i = 1
      BY <1>3, <2>2, <3>1
    <3>2. CASE i # 1
      <4>1. i - 1 \in 1 .. Len(queue') /\ (i - 1) + 1 = i
        BY <1>2, <3>2
      <4> QED
        BY <1>2, <2>2, <4>1
    <3> QED
      BY <3>1, <3>2
  <2>3. ASSUME NEW v \in Workers, pc[v] = "run", task[v] = t
        PROVE  pc'[v] = "run" /\ task'[v] = t
    BY <1>1, <1>3, <2>3
  <2> QED
    BY <1>1, <1>3, <1>4, <2>1, <2>2, <2>3 DEF TaskInOnePlace
<1> QED
  BY <1>6, <1>7, <1>8, <1>9, <1>10 DEF TaskInOnePlace

\* The end of a task: it leaves the hands of its worker and is done
\* (thread_func, after task_func has returned).
LEMMA RunKeeps ==
  ASSUME TypeOK, OnceInv, NEW w \in Workers, Run(w)
  PROVE  TaskInOnePlace'
<1>1. /\ pc[w] = "run" /\ pc' = [pc EXCEPT ![w] = "get"]
      /\ task' = [task EXCEPT ![w] = NoTask]
      /\ done' = done \cup {task[w]}
      /\ UNCHANGED <<queue, accepted>>
  BY DEF Run, Goto
<1>2. /\ pc'[w] = "get"
      /\ \A v \in Workers : v # w => pc'[v] = pc[v] /\ task'[v] = task[v]
  BY <1>1 DEF TypeOK
<1> QED
  BY <1>1, <1>2 DEF OnceInv, TaskInOnePlace

\* Every step of the pool leaves every accepted task in exactly one place.
LEMMA OnceStep == TypeOK /\ OnceInv /\ [Next]_vars => OnceInv'
<1> SUFFICES ASSUME TypeOK, OnceInv, [Next]_vars
             PROVE  TaskInOnePlace'
  BY FreshStep DEF OnceInv
<1> USE PoolAssumption
<1>1. ASSUME UNCHANGED <<queue, task, accepted, done>>,
             \A w \in Workers : (pc'[w] = "run") <=> (pc[w] = "run")
      PROVE  TaskInOnePlace'
  BY <1>1 DEF OnceInv, TaskInOnePlace
<1>2. ASSUME NEW c \in Callers,
             (\E op \in Ops : Submit(c, op)) \/ Spin(c) \/ Enter(c)
      PROVE  TaskInOnePlace'
  <2>1. UNCHANGED <<queue, task, accepted, done>>
    BY <1>2 DEF Submit, Spin, Enter, history
  <2>2. \A w \in Workers : pc'[w] = pc[w]
    BY <1>2 DEF TypeOK, Submit, Spin, Enter, Goto
  <2> QED
    BY <1>1, <2>1, <2>2
<1>3. ASSUME NEW c \in Callers, AddTask(c)
      PROVE  TaskInOnePlace'
  <2> DEFINE t == [id |-> call[c].id, copy |-> 1]
             new == <<t>>
  <2>1. call[c] \in Call /\ pc[c] = "push"
    BY <1>3 DEF TypeOK, AddTask
  <2>2. t \in Task /\ t \notin accepted
    <3>1. t \in Task
      BY <2>1, WorkerCount DEF Call, Task
    <3>2. \A u \in accepted : u.id # call[c].id
      BY <2>1 DEF OnceInv, FreshCalls
    <3> QED
      BY <3>1, <3>2
  <2>3. /\ UNCHANGED <<task, done>>
        /\ \A w \in Workers : pc'[w] = pc[w]
    BY <1>3 DEF TypeOK, AddTask, Return, Goto
  <2>4. CASE Len(queue) < Hwm
    <3>1. /\ queue' = Append(queue, t)
          /\ accepted' = accepted \cup {t}
      BY <1>3, <2>4 DEF AddTask
    <3>2. queue' = queue \o new
      BY <2>2, <3>1 DEF TypeOK
    <3> HIDE DEF t
    <3>3. new \in Seq(Task) /\ Len(new) = 1 /\ new[1] = t
      BY <2>2
    <3>4. accepted' = accepted \cup {new[i] : i \in 1 .. Len(new)}
      BY <3>1, <3>3
    <3>5. /\ \A i \in 1 .. Len(new) : new[i] \notin accepted
          /\ \A i, j \in 1 .. Len(new) : new[i] = new[j] => i = j
      BY <2>2, <3>3
    <3> HIDE DEF new
    <3> QED
      BY <2>3, <3>2, <3>3, <3>4, <3>5, PushKeeps
  <2>5. CASE ~ (Len(queue) < Hwm)
    <3>1. UNCHANGED <<queue, accepted>>
      BY <1>3, <2>5 DEF AddTask
    <3> QED
      BY <1>1, <2>3, <3>1
  <2> QED
    BY <2>4, <2>5
<1>4. ASSUME NEW c \in Callers, BroadcastTask(c)
      PROVE  TaskInOnePlace'
  <2> DEFINE copies == [i \in 1 .. Fits |-> [id |-> call[c].id, copy |-> i]]
  <2>1. call[c] \in Call /\ pc[c] = "push"
    BY <1>4 DEF TypeOK, BroadcastTask
  <2>2. Fits \in 0 .. Cardinality(Workers)
    BY FitsType DEF TypeOK
  <2>3. copies \in Seq(Task) /\ Len(copies) = Fits
    <3>1. Fits \in Nat
      BY <2>2, WorkerCount
    <3>2. \A i \in 1 .. Fits : [id |-> call[c].id, copy |-> i] \in Task
      BY <2>1, <2>2, WorkerCount DEF Call, Task
    <3> QED
      BY <3>1, <3>2
  <2>4. \A i \in 1 .. Len(copies) : copies[i] \notin accepted
    <3>1. \A u \in accepted : u.id # call[c].id
      BY <2>1 DEF OnceInv, FreshCalls
    <3> QED
      BY <2>3, <3>1
  <2>5. \A i, j \in 1 .. Len(copies) : copies[i] = copies[j] => i = j
    BY <2>3
  <2>6. /\ UNCHANGED <<task, done>>
        /\ \A w \in Workers : pc'[w] = pc[w]
    BY <1>4 DEF TypeOK, BroadcastTask, Return, Goto
  <2>7. /\ queue' = queue \o copies
        /\ accepted' = accepted \cup {copies[i] : i \in 1 .. Len(copies)}
    BY <1>4, <2>3 DEF BroadcastTask
  <2> HIDE DEF copies
  <2> QED
    BY <2>3, <2>4, <2>5, <2>6, <2>7, PushKeeps
<1>5. ASSUME NEW w \in Workers, Lock(w) \/ Wait(w) \/ WakeUp(w)
      PROVE  TaskInOnePlace'
  <2>1. UNCHANGED <<queue, task, accepted, done>>
    BY <1>5 DEF Lock, Wait, WakeUp, history
  <2>2. \A v \in Workers : (pc'[v] = "run") <=> (pc[v] = "run")
    BY <1>5 DEF TypeOK, Lock, Wait, WakeUp, Goto
  <2> QED
    BY <1>1, <2>1, <2>2
<1>6. CASE UNCHANGED vars
  BY <1>1, <1>6 DEF vars
<1> QED
  BY <1>2, <1>3, <1>4, <1>5, <1>6, PopKeeps, RunKeeps DEF Next, CallerStep, WorkerStep

\* No task is lost and none is run twice: kr_queue_push and kr_queue_pop under
\* the pool's mutex, for any number of workers, callers and tasks.
THEOREM TaskOnce == Spec => []TaskInOnePlace
<1>1. Init => OnceInv
  BY PoolAssumption DEF Init, OnceInv, FreshCalls, TaskInOnePlace
<1>2. OnceInv => TaskInOnePlace
  BY DEF OnceInv
<1> QED
  BY <1>1, <1>2, OnceStep, TypeCorrect, PTL DEF Spec

-----------------------------------------------------------------------------
\* What was put behind a line is read back by its positions.
LEMMA AppendedIs ==
  ASSUME NEW q \in Seq(Task), NEW new \in Seq(Task)
  PROVE  /\ q \o new \in Seq(Task)
         /\ Len(q \o new) = Len(q) + Len(new)
         /\ SubSeq(q \o new, Len(q) + 1, Len(q \o new)) = new
<1>0. q \o new \in Seq(Task)
  BY ConcatProperties
<1>1. PICK r \in Seq(Task) : r = q \o new
  BY <1>0
<1>2. /\ Len(q) \in Nat /\ Len(new) \in Nat /\ Len(r) = Len(q) + Len(new)
      /\ \A i \in 1 .. Len(new) : r[Len(q) + i] = new[i]
  <2>1. /\ Len(q) \in Nat /\ Len(new) \in Nat /\ Len(r) = Len(q) + Len(new)
    BY <1>1
  <2>2. ASSUME NEW i \in 1 .. Len(new) PROVE r[Len(q) + i] = new[i]
    <3>1. Len(q) + i \in 1 .. Len(q) + Len(new) /\ ~(Len(q) + i <= Len(q))
      BY <2>1
    <3>2. (Len(q) + i) - Len(q) = i
      BY <2>1
    <3> QED
      BY <1>1, <3>1, <3>2, ConcatProperties
  <2> QED
    BY <2>1, <2>2
<1>3. PICK sub : sub = SubSeq(r, Len(q) + 1, Len(r))
  OBVIOUS
<1>4. \A i \in Len(q) + 1 .. Len(r) : r[i] \in Task
  BY <1>1, <1>2
<1>5. /\ sub \in Seq(Task) /\ Len(sub) = Len(new)
      /\ \A i \in 1 .. Len(new) : sub[i] = r[Len(q) + i]
  <2>1. Len(q) + 1 \in Int /\ Len(r) \in Int /\ Len(q) + 1 \in 1 .. Len(r) + 1
    BY <1>2
  <2>2. /\ sub \in Seq(Task)
        /\ Len(sub) = IF Len(q) + 1 <= Len(r) THEN Len(r) - (Len(q) + 1) + 1 ELSE 0
        /\ \A i \in 1 .. Len(r) - (Len(q) + 1) + 1 : sub[i] = r[Len(q) + 1 + i - 1]
    BY <1>3, <1>4, <2>1, SubSeqProperties
  <2>3. Len(sub) = Len(new)
    BY <1>2, <2>2
  <2>4. Len(r) - (Len(q) + 1) + 1 = Len(new)
    BY <1>2
  <2>5. ASSUME NEW i \in 1 .. Len(new) PROVE sub[i] = r[Len(q) + i]
    <3>1. Len(q) + 1 + i - 1 = Len(q) + i
      BY <1>2
    <3> QED
      BY <2>2, <2>4, <3>1
  <2> QED
    BY <2>2, <2>3, <2>5
<1>6. sub = new
  <2>1. \A i \in 1 .. Len(new) : sub[i] = new[i]
    BY <1>2, <1>5
  <2> QED
    BY <1>5, <2>1
<1> QED
  BY <1>1, <1>2, <1>3, <1>6

\* A push of new tasks, however many, is an Accept or changes nothing.
LEMMA PushAccepts ==
  ASSUME TypeOK, NEW new \in Seq(Task), queue' = queue \o new, UNCHANGED <<task, done>>
  PROVE  [Pool!Next]_(Pool!vars)
<1>1. queue \in Seq(Task)
  BY DEF TypeOK
<1>2. Len(queue) \in Nat /\ Len(new) \in Nat /\ Len(queue') = Len(queue) + Len(new)
  BY <1>1, AppendedIs
<1>3. Pool!Appended = new
  BY <1>1, AppendedIs DEF Pool!Appended
<1>4. CASE Len(new) = 0
  <2>1. queue' = queue
    BY <1>1, <1>4
  <2> QED
    BY <2>1 DEF Pool!vars
<1>5. CASE Len(new) # 0
  <2>1. Len(queue') > Len(queue)
    BY <1>2, <1>5
  <2>2. Pool!Accept(Pool!Appended)
    BY <1>3 DEF Pool!Accept
  <2> QED
    BY <2>1, <2>2 DEF Pool!Next
<1> QED
  BY <1>4, <1>5

\* Every step of the pool is one of KrTaskPool, or changes nothing there.
LEMMA PoolStep == TypeOK /\ [Next]_vars => [Pool!Next]_(Pool!vars)
<1> SUFFICES ASSUME TypeOK, [Next]_vars
             PROVE  [Pool!Next]_(Pool!vars)
  OBVIOUS
<1>1. ASSUME UNCHANGED <<queue, task, done>>
      PROVE  [Pool!Next]_(Pool!vars)
  BY <1>1 DEF Pool!vars
<1>2. ASSUME NEW c \in Callers, NEW op \in Ops, Submit(c, op)
      PROVE  [Pool!Next]_(Pool!vars)
  BY <1>1, <1>2 DEF Submit, history
<1>3. ASSUME NEW c \in Callers, Spin(c) \/ Enter(c)
      PROVE  [Pool!Next]_(Pool!vars)
  BY <1>1, <1>3 DEF Spin, Enter, history
<1>4. ASSUME NEW c \in Callers, AddTask(c)
      PROVE  [Pool!Next]_(Pool!vars)
  <2>1. pc[c] = "push" /\ call[c].id \in 1 .. MaxTasks
    BY <1>4 DEF AddTask, TypeOK, Call
  <2>2. UNCHANGED <<task, done>>
    BY <1>4 DEF AddTask, Return
  <2>3. CASE Len(queue) < Hwm
    <3>0. 1 \in 1 .. Cardinality(Workers)
      BY WorkerCount
    <3>1. PICK t \in Task : t = [id |-> call[c].id, copy |-> 1]
      <4>1. [id |-> call[c].id, copy |-> 1] \in Task
        BY <2>1, <3>0 DEF Task
      <4> QED
        BY <4>1
    <3>2. queue' = queue \o <<t>> /\ <<t>> \in Seq(Task)
      <4>1. queue' = Append(queue, t) /\ queue \in Seq(Task)
        BY <1>4, <2>3, <3>1 DEF AddTask, TypeOK
      <4> QED
        BY <4>1
    <3> QED
      BY <2>2, <3>2, PushAccepts
  <2>4. CASE ~(Len(queue) < Hwm)
    <3>1. UNCHANGED queue
      BY <1>4, <2>4 DEF AddTask
    <3> QED
      BY <1>1, <2>2, <3>1
  <2> QED
    BY <2>3, <2>4
<1>5. ASSUME NEW c \in Callers, BroadcastTask(c)
      PROVE  [Pool!Next]_(Pool!vars)
  <2>1. pc[c] = "push" /\ call[c].id \in 1 .. MaxTasks
    BY <1>5 DEF BroadcastTask, TypeOK, Call
  <2>2. UNCHANGED <<task, done>>
    BY <1>5 DEF BroadcastTask, Return
  <2>3. PICK new : new = [i \in 1 .. Fits |-> [id |-> call[c].id, copy |-> i]]
    OBVIOUS
  <2>4. Fits \in 0 .. Cardinality(Workers)
    BY FitsType DEF TypeOK
  <2>5. new \in Seq(Task)
    <3>1. \A i \in 1 .. Fits : [id |-> call[c].id, copy |-> i] \in Task
      BY <2>1, <2>4, WorkerCount DEF Task
    <3> QED
      BY <2>3, <2>4, <3>1, WorkerCount
  <2>6. queue' = queue \o new
    BY <1>5, <2>3 DEF BroadcastTask
  <2> QED
    BY <2>2, <2>5, <2>6, PushAccepts
<1>6. ASSUME NEW w \in Workers, Lock(w) \/ Wait(w) \/ WakeUp(w)
      PROVE  [Pool!Next]_(Pool!vars)
  BY <1>1, <1>6 DEF Lock, Wait, WakeUp, history
<1>7. ASSUME NEW w \in Workers, Pop(w)
      PROVE  [Pool!Next]_(Pool!vars)
  <2>1. task[w] = NoTask
    <3>1. task[w] \in Task \cup {NoTask} /\ (task[w] \in Task <=> pc[w] = "run")
      BY DEF TypeOK
    <3>2. pc[w] = "test"
      BY <1>7 DEF Pop
    <3> QED
      BY <3>1, <3>2
  <2>2. Pool!Start(w)
    BY <1>7, <2>1 DEF Pop, Pool!Start, history
  <2> QED
    BY <2>2 DEF Pool!Next
<1>8. ASSUME NEW w \in Workers, Run(w)
      PROVE  [Pool!Next]_(Pool!vars)
  <2>1. task[w] # NoTask
    BY <1>8, NoTaskIsNoTask DEF Run, TypeOK
  <2>2. Pool!Finish(w)
    BY <1>8, <2>1 DEF Run, Pool!Finish
  <2> QED
    BY <2>2 DEF Pool!Next
<1>9. CASE UNCHANGED vars
  BY <1>1, <1>9 DEF vars, history
<1> QED
  BY <1>2, <1>3, <1>4, <1>5, <1>6, <1>7, <1>8, <1>9 DEF Next, CallerStep, WorkerStep

\* The pool implements the steps of KrTaskPool, for any number of workers,
\* callers and tasks and any room: kr_threadpool_add_task and _broadcast_task
\* put tasks at the end of the line, a worker that has none starts the first
\* of it, and finishes what it started.
THEOREM PoolImplements == Spec => PoolSafe
<1>1. Init => Pool!Init
  BY DEF Init, Pool!Init
<1> QED
  BY <1>1, PoolStep, TypeCorrect, PTL DEF Spec, PoolSafe, Pool!Safe

=============================================================================
