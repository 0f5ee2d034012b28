----------------------------- MODULE KrTaskPool -----------------------------
(***************************************************************************)
(* What the thread pool promises the engine: an accepted task waits in     *)
(* line, is started once, by one worker, in the order of acceptance, and   *)
(* is run to its end.                                                      *)
(***************************************************************************)
EXTENDS Naturals, Sequences

CONSTANTS Workers, Task, NoTask

VARIABLES pending, running, done

vars == <<pending, running, done>>

Init ==
  /\ pending = <<>>
  /\ running = [w \in Workers |-> NoTask]
  /\ done = {}

Accept(tasks) ==
  /\ pending' = pending \o tasks
  /\ UNCHANGED <<running, done>>

Start(w) ==
  /\ pending # <<>>
  /\ running[w] = NoTask
  /\ running' = [running EXCEPT ![w] = Head(pending)]
  /\ pending' = Tail(pending)
  /\ UNCHANGED done

Finish(w) ==
  /\ running[w] # NoTask
  /\ done' = done \cup {running[w]}
  /\ running' = [running EXCEPT ![w] = NoTask]
  /\ UNCHANGED pending

\* The tasks that a step appends to the line.
Appended == SubSeq(pending', Len(pending) + 1, Len(pending'))

Next ==
  \/ Len(pending') > Len(pending) /\ Accept(Appended)
  \/ \E w \in Workers : Start(w) \/ Finish(w)

Fairness ==
  /\ WF_vars(\E w \in Workers : Start(w))
  /\ \A w \in Workers : WF_vars(Finish(w))

\* What never goes wrong, and what happens in the end.
Safe == Init /\ [][Next]_vars

Spec == Safe /\ Fairness

=============================================================================
