---------------------------- MODULE KrThreadPool ----------------------------
(***************************************************************************)
(* The thread pool of krutils/kr_threadpool.c and its bounded queue,       *)
(* krutils/kr_queue.c: callers that add tasks, workers that run them, one  *)
(* mutex, one condition variable.                                          *)
(*                                                                         *)
(* A caller waits for room WITHOUT the mutex (it spins on the length of    *)
(* the queue), then takes the mutex, and pushes; the push fails when the   *)
(* room is gone again.  kr_malloc aborts the process when memory is out,   *)
(* so the copy of a task never fails.                                      *)
(***************************************************************************)
EXTENDS Integers, FiniteSets, Sequences

CONSTANTS
  Workers,      \* the nthreads threads of kr_threadpool_run
  Callers,      \* the threads that call add_task and broadcast_task
  Hwm,          \* high water mark of the queue
  MaxTasks,     \* bound on the number of calls
  Free          \* no thread; no task

ASSUME PoolAssumption ==
  /\ Workers # {}
  /\ IsFiniteSet(Workers)
  /\ Workers \cap Callers = {}
  /\ Hwm \in Nat \ {0}
  /\ MaxTasks \in Nat
  /\ Free \notin Workers \cup Callers

VARIABLES
  queue,        \* tp->queue
  mutex,        \* the thread that holds tp->mutex
  asleep,       \* the workers blocked in pthread_cond_wait
  pc,           \* where each thread is
  call,         \* the call of each caller
  task,         \* the task each worker has popped
  calls,        \* number of calls made so far
  accepted,     \* history: the tasks pushed to the queue
  refused,      \* history: the calls that returned -1
  done          \* history: the tasks that task_func has finished

vars == <<queue, mutex, asleep, pc, call, task, calls, accepted, refused, done>>
history == <<accepted, refused, done>>

Ops == {"add", "broadcast"}
Call == [op : Ops, id : 1 .. MaxTasks]

\* A queued copy of a call's task; a broadcast queues one for each worker.
Task == [id : 1 .. MaxTasks, copy : 1 .. Cardinality(Workers)]

NoTask == [id |-> 0, copy |-> 0]
NoCall == [op |-> "none", id |-> 0]

-----------------------------------------------------------------------------
\* kr_threadpool_create, and the threads of kr_threadpool_run about to call
\* kr_threadpool_get_task.
Init ==
  /\ queue = <<>>
  /\ mutex = Free
  /\ asleep = {}
  /\ pc = [t \in Workers \cup Callers |-> IF t \in Workers THEN "get" ELSE "out"]
  /\ call = [c \in Callers |-> NoCall]
  /\ task = [w \in Workers |-> NoTask]
  /\ calls = 0
  /\ accepted = {}
  /\ refused = {}
  /\ done = {}

Goto(t, label) == pc' = [pc EXCEPT ![t] = label]

\* pthread_mutex_lock.
Acquire(t) == mutex = Free /\ mutex' = t

\* A call of kr_threadpool_add_task or kr_threadpool_broadcast_task.
Submit(c, op) ==
  /\ pc[c] = "out"
  /\ calls < MaxTasks
  /\ calls' = calls + 1
  /\ call' = [call EXCEPT ![c] = [op |-> op, id |-> calls + 1]]
  /\ Goto(c, "spin")
  /\ UNCHANGED <<queue, mutex, asleep, task, history>>

\* Mutant of HasRoom: one task too many.
HasRoomOffByOne(q) == Len(q) <= Hwm

\* The test of the spin loop.
HasRoom(q) == Len(q) < Hwm

\* The spin loop ends: at that moment the queue has room.
Spin(c) ==
  /\ pc[c] = "spin"
  /\ HasRoom(queue)
  /\ Goto(c, "enter")
  /\ UNCHANGED <<queue, mutex, asleep, call, task, calls, history>>

Enter(c) ==
  /\ pc[c] = "enter"
  /\ Acquire(c)
  /\ Goto(c, "push")
  /\ UNCHANGED <<queue, asleep, call, task, calls, history>>

\* Mutant of Signal: pthread_cond_signal is forgotten.
SignalMissing == UNCHANGED asleep

\* pthread_cond_signal: one of the sleepers, if there is one.
Signal ==
  IF asleep = {} THEN UNCHANGED asleep ELSE \E w \in asleep : asleep' = asleep \ {w}

\* The return from the call: the mutex is released.
Return(c) ==
  /\ mutex' = Free
  /\ Goto(c, "out")
  /\ call' = [call EXCEPT ![c] = NoCall]
  /\ UNCHANGED <<task, calls, done>>

\* kr_threadpool_add_task under the mutex.
AddTask(c) ==
  LET t == [id |-> call[c].id, copy |-> 1]
  IN  /\ pc[c] = "push"
      /\ call[c].op = "add"
      /\ IF Len(queue) < Hwm
         THEN /\ queue' = Append(queue, t)
              /\ accepted' = accepted \cup {t}
              /\ Signal
              /\ UNCHANGED refused
         ELSE /\ refused' = refused \cup {call[c]}
              /\ UNCHANGED <<queue, accepted, asleep>>
      /\ Return(c)

\* The copies that kr_queue_push takes before it refuses one.
Fits == IF Cardinality(Workers) <= Hwm - Len(queue) THEN Cardinality(Workers)
                                                    ELSE Hwm - Len(queue)

\* kr_threadpool_broadcast_task under the mutex: one copy for each worker.
\* The copies pushed before a push that fails stay in the queue, and the
\* condition is not broadcast then.
BroadcastTask(c) ==
  LET copies == [i \in 1 .. Fits |-> [id |-> call[c].id, copy |-> i]]
  IN  /\ pc[c] = "push"
      /\ call[c].op = "broadcast"
      /\ queue' = queue \o copies
      /\ accepted' = accepted \cup {copies[i] : i \in 1 .. Fits}
      /\ IF Fits = Cardinality(Workers)
         THEN asleep' = {} /\ UNCHANGED refused
         ELSE refused' = refused \cup {call[c]} /\ UNCHANGED asleep
      /\ Return(c)

-----------------------------------------------------------------------------
\* kr_threadpool_get_task takes the mutex: on entry, or on the way out of
\* pthread_cond_wait once it has been woken.
Lock(w) ==
  /\ pc[w] \in {"get", "wait"}
  /\ w \notin asleep
  /\ Acquire(w)
  /\ Goto(w, "test")
  /\ UNCHANGED <<queue, asleep, call, task, calls, history>>

\* The queue is empty: pthread_cond_wait releases the mutex and sleeps.
Wait(w) ==
  /\ pc[w] = "test"
  /\ queue = <<>>
  /\ mutex' = Free
  /\ asleep' = asleep \cup {w}
  /\ Goto(w, "wait")
  /\ UNCHANGED <<queue, call, task, calls, history>>

\* Mutant of Pop: the youngest task first.
PopLast(w) ==
  /\ pc[w] = "test"
  /\ queue # <<>>
  /\ task' = [task EXCEPT ![w] = queue[Len(queue)]]
  /\ queue' = SubSeq(queue, 1, Len(queue) - 1)
  /\ mutex' = Free
  /\ Goto(w, "run")
  /\ UNCHANGED <<asleep, call, calls, history>>

\* kr_queue_pop of the oldest task, and the mutex is released.
Pop(w) ==
  /\ pc[w] = "test"
  /\ queue # <<>>
  /\ task' = [task EXCEPT ![w] = Head(queue)]
  /\ queue' = Tail(queue)
  /\ mutex' = Free
  /\ Goto(w, "run")
  /\ UNCHANGED <<asleep, call, calls, history>>

\* thread_func: task_func runs, the task is freed, the loop goes on.
Run(w) ==
  /\ pc[w] = "run"
  /\ done' = done \cup {task[w]}
  /\ task' = [task EXCEPT ![w] = NoTask]
  /\ Goto(w, "get")
  /\ UNCHANGED <<queue, mutex, asleep, call, calls, accepted, refused>>

\* POSIX lets pthread_cond_wait return without a signal.
WakeUp(w) ==
  /\ w \in asleep
  /\ asleep' = asleep \ {w}
  /\ UNCHANGED <<queue, mutex, pc, call, task, calls, history>>

CallerStep(c) == Spin(c) \/ Enter(c) \/ AddTask(c) \/ BroadcastTask(c)
WorkerStep(w) == Lock(w) \/ Wait(w) \/ Pop(w) \/ Run(w)

Next ==
  \/ \E c \in Callers : (\E op \in Ops : Submit(c, op)) \/ CallerStep(c)
  \/ \E w \in Workers : WorkerStep(w) \/ WakeUp(w)

\* Threads that can run do run.  Nobody has to make a call, and no wakeup
\* without a signal has to happen.
Fairness ==
  /\ \A c \in Callers : WF_vars(CallerStep(c))
  /\ \A w \in Workers : WF_vars(WorkerStep(w))

Spec == Init /\ [][Next]_vars /\ Fairness

-----------------------------------------------------------------------------
\* Each variable ranges over what the code can store in it; the queue never
\* grows past the high water mark.
TypeOK ==
  /\ queue \in Seq(Task)
  /\ Len(queue) <= Hwm
  /\ mutex \in Workers \cup Callers \cup {Free}
  /\ asleep \in SUBSET Workers
  /\ pc \in [Workers \cup Callers -> {"get", "test", "wait", "run", "out", "spin", "enter", "push"}]
  /\ \A w \in Workers : pc[w] \in {"get", "test", "wait", "run"}
  /\ \A c \in Callers : pc[c] \in {"out", "spin", "enter", "push"}
  /\ call \in [Callers -> Call \cup {NoCall}]
  /\ \A c \in Callers : pc[c] # "out" => call[c] \in Call
  /\ task \in [Workers -> Task \cup {NoTask}]
  /\ \A w \in Workers : task[w] \in Task <=> pc[w] = "run"
  /\ calls \in 0 .. MaxTasks
  /\ accepted \in SUBSET Task
  /\ refused \in SUBSET Call
  /\ done \in SUBSET Task

\* The critical sections of add_task, broadcast_task and get_task exclude
\* each other, and a worker asleep is at its pthread_cond_wait.
MutexHeld ==
  /\ \A t \in Workers \cup Callers : pc[t] \in {"test", "push"} <=> mutex = t
  /\ \A w \in asleep : pc[w] = "wait"

\* An accepted task is in the queue, or in the hands of exactly one worker,
\* or done: kr_queue_push and kr_queue_pop lose and duplicate nothing.
TaskInOnePlace ==
  /\ \A i, j \in 1 .. Len(queue) : queue[i] = queue[j] => i = j
  /\ \A v, w \in Workers : pc[v] = "run" /\ pc[w] = "run" /\ task[v] = task[w] => v = w
  /\ \A i \in 1 .. Len(queue) : queue[i] \in accepted \ done
  /\ \A w \in Workers : pc[w] = "run" =>
       /\ task[w] \in accepted \ done
       /\ \A i \in 1 .. Len(queue) : queue[i] # task[w]
  /\ \A t \in accepted : \/ t \in done
                         \/ \E i \in 1 .. Len(queue) : queue[i] = t
                         \/ \E w \in Workers : pc[w] = "run" /\ task[w] = t

\* The workers that will look at the queue before they sleep.
Alert == {w \in Workers : pc[w] \in {"get", "test", "wait"}} \ asleep

\* No broadcast has been cut short.
NoCutShort == \A r \in refused : r.op # "broadcast"

\* No lost wakeup: while a worker sleeps, the others that are on their way to
\* the queue are enough for the tasks in it (one pthread_cond_signal per
\* kr_threadpool_add_task is enough).
EnoughAlert == NoCutShort /\ asleep # {} => Len(queue) <= Cardinality(Alert)

\* kr_threadpool_add_task never returns -1 when one thread makes the calls
\* ("main thread invoke this function"): the room it saw without the mutex is
\* still there when it has the mutex.
SoleCallerNeverRefused ==
  (\A b, c \in Callers : b = c) => \A r \in refused : r.op # "add"

Pool == INSTANCE KrTaskPool WITH
  pending <- queue,
  running <- task

\* The pool implements KrTaskPool, its steps: tasks are put at the end of the
\* line, a worker without a task starts the first of it and finishes what it
\* started (kr_queue_push, kr_queue_pop, thread_func).
PoolSafe == Pool!Safe

\* And its fairness: as long as tasks wait some worker starts one in the end,
\* and every started task is finished (pthread_cond_signal wakes a worker).
PoolFair == Pool!Fairness

=============================================================================
