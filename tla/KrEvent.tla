------------------------------ MODULE KrEvent ------------------------------
(***************************************************************************)
(* krutils/kr_event.c: the event loop of the server and of the             *)
(* coordinator, with its epoll and its select layer.  A turn of the loop   *)
(* waits for file events until the nearest timer, calls the handlers of    *)
(* the events that fired, then those of the timers that are due.  Handlers *)
(* are the callers' code: here they register and delete events of every    *)
(* kind, may take a tick of time, and may stop the loop.                   *)
(*                                                                         *)
(* A time is [sec, ms], as the loop keeps it; SEC is 1000 in the code.     *)
(***************************************************************************)
EXTENDS Integers, FiniteSets, FiniteSetsExt, SequencesExt

CONSTANTS Fd,        \* 0 .. setsize - 1
          SEC,       \* milliseconds of a second
          Delay,     \* the delays timers are created with and return
          Proc,      \* handlers of file events
          Api,       \* "epoll" and "select": the layer is a build option
          MaxTimer,  \* bound: timers ever created
          MaxTime    \* bound: milliseconds that pass

VARIABLES el,        \* the T_KREventLoop
          api,       \* the layer it was built with
          now,
          pc,        \* "setup", "top", "file", "time", "done"
          fired,     \* of [fd, mask, rproc]: reported and not yet handled
          cursor,    \* position in el.timers, 0: the end
          maxId,     \* of processTimeEvents
          slept,     \* history: [due, timeout] of the last wait
          passAt     \* history: when the pass over the timers began

eventVars == <<el, api, now, pc, fired, cursor, maxId, slept, passAt>>

Kinds == {"r", "w"}

Masks == (SUBSET Kinds) \ {{}}

Millis(t) == t.sec * SEC + t.ms

\* aeAddMillisecondsToNow
FromNow(t, d) ==
    LET ms == t.ms + (d % SEC)
        sec == t.sec + (d \div SEC)
    IN  IF ms >= SEC THEN [sec |-> sec + 1, ms |-> ms - SEC] ELSE [sec |-> sec, ms |-> ms]

Due(te) == now.sec > te.when.sec \/ (now.sec = te.when.sec /\ now.ms >= te.when.ms)

---------------------------------------------------------------------------
(* What handlers and owners of a loop call: the loop afterwards *)

\* kr_event_loop_create: no file event, no timer.
LoopCreate == [mask |-> [fd \in Fd |-> {}], proc |-> [fd \in Fd |-> [k \in Kinds |-> 0]],
               interest |-> [fd \in Fd |-> {}], maxfd |-> -1,
               timers |-> <<>>, nextId |-> 0, stop |-> FALSE]

\* kr_event_file_create and kr_event_api_add: the kernel is told the old
\* events and the new ones.
FileCreate(s, fd, m, p) ==
    [s EXCEPT !.mask[fd] = @ \cup m,
              !.interest[fd] = s.mask[fd] \cup m,
              !.proc[fd] = [k \in Kinds |-> IF k \in m THEN p ELSE s.proc[fd][k]],
              !.maxfd = IF fd > @ THEN fd ELSE @]

\* The search from fd - 1 down to 0 for a descriptor with an event.
HighestBelow(s, fd) == Max({-1} \cup {f \in Fd : f < fd /\ s.mask[f] # {}})

\* Mutant of FileDelete: the highest descriptor is not looked for again.
FileDeleteKeepsMax(s, fd, m) ==
    IF s.mask[fd] = {} THEN s
    ELSE [s EXCEPT !.mask[fd] = @ \ m,
                   !.interest[fd] = s.mask[fd] \ m,
                   !.proc[fd] = [k \in Kinds |-> IF k \in m THEN 0 ELSE s.proc[fd][k]]]

\* kr_event_file_delete and kr_event_api_del; the highest descriptor is
\* looked for again when this one was it.
FileDelete(s, fd, m) ==
    IF s.mask[fd] = {} THEN s
    ELSE [s EXCEPT !.mask[fd] = @ \ m,
                   !.interest[fd] = s.mask[fd] \ m,
                   !.proc[fd] = [k \in Kinds |-> IF k \in m THEN 0 ELSE s.proc[fd][k]],
                   !.maxfd = IF fd = @ /\ s.mask[fd] \subseteq m THEN HighestBelow(s, fd) ELSE @]

\* kr_event_time_create: at the head of the list.
TimeCreate(s, d) ==
    [s EXCEPT !.timers = <<[id |-> s.nextId, when |-> FromNow(now, d)]>> \o @, !.nextId = @ + 1]

\* kr_event_time_delete: the first in the list with this id.
TimeDelete(s, id) == [s EXCEPT !.timers = RemoveFirstMatch(@, LAMBDA te : te.id = id)]

\* Everything a handler may make of the loop with at most one call; own is
\* the timer whose handler runs, which it leaves to the loop.
AfterCall(s, own) ==
    {s, [s EXCEPT !.stop = TRUE]}
    \cup {FileCreate(s, fd, m, p) : fd \in Fd, m \in Masks, p \in Proc}
    \cup {FileDelete(s, fd, m) : fd \in Fd, m \in Masks}
    \cup {TimeCreate(s, d) : d \in {d \in Delay : s.nextId < MaxTimer}}
    \cup {TimeDelete(s, s.timers[i].id) : i \in {i \in DOMAIN s.timers : s.timers[i].id # own}}

NoTimer == -1

Tick(d) == Millis(now) + d <= MaxTime /\ now' = FromNow(now, d)

---------------------------------------------------------------------------
(* kr_event_process with KR_EVENT_ALL_EVENTS, and kr_event_loop_run *)

EventInit ==
    /\ el = LoopCreate /\ api \in Api
    /\ now = [sec |-> 0, ms |-> 0]
    /\ pc = "setup" /\ fired = <<>> /\ cursor = 0 /\ maxId = NoTimer
    /\ slept = [due |-> 0, timeout |-> 0] /\ passAt = now

\* The owner registers its events, then runs the loop.
SetUp ==
    /\ pc = "setup"
    /\ el' \in AfterCall(el, NoTimer) /\ ~el'.stop
    /\ pc' \in {pc, "top"}
    /\ UNCHANGED <<api, now, fired, cursor, maxId, slept, passAt>>

\* aeSearchNearestTimer: the first in the list of those that come first.
Nearest ==
    LET best == Min({Millis(el.timers[i].when) : i \in DOMAIN el.timers})
    IN  el.timers[Min({i \in DOMAIN el.timers : Millis(el.timers[i].when) = best})]

\* The time missing to a timer, seconds and milliseconds apart; a negative
\* number of seconds becomes zero, and the milliseconds stay as they are.
PollTimeout(when) ==
    LET borrow == when.ms < now.ms
        sec == when.sec - now.sec - (IF borrow THEN 1 ELSE 0)
        ms  == IF borrow THEN when.ms + SEC - now.ms ELSE when.ms - now.ms
    IN  [sec |-> Max({sec, 0}), ms |-> Max({ms, 0})]

\* What kr_event_api_poll puts into fired when hits are ready: epoll the
\* ready ones, select every registered one up to maxfd, ready or not.
Report(hits) ==
    SelectSeq([i \in 1 .. Cardinality(Fd) |-> [fd |-> i - 1, mask |-> hits[i - 1], rproc |-> 0]],
              LAMBDA f : IF api = "epoll" THEN f.mask # {}
                         ELSE f.fd <= el.maxfd /\ el.mask[f.fd] # {})

\* Nothing fires until the nearest timer, or something does earlier.
Poll ==
    /\ pc = "top"
    /\ \/ /\ el.timers # <<>>
          /\ LET left == Millis(PollTimeout(Nearest.when))
             IN  /\ slept' = [due |-> Millis(Nearest.when) - Millis(now), timeout |-> left]
                 /\ Tick(left)
          /\ fired' = <<>>
       \/ \E hits \in [Fd -> SUBSET Kinds] :
            /\ \A fd \in Fd : hits[fd] \subseteq el.interest[fd]
            /\ \E fd \in Fd : hits[fd] # {}
            /\ fired' = Report(hits)
            /\ UNCHANGED <<now, slept>>
    /\ pc' = "file"
    /\ UNCHANGED <<el, api, cursor, maxId, passAt>>

\* The handler for reading, if the event is still registered; if it fired
\* for writing too, that comes next.
ReadEvent ==
    /\ pc = "file" /\ fired # <<>> /\ "r" \in fired[1].mask
    /\ LET f == fired[1]
           rest == IF "w" \in f.mask THEN <<[fd |-> f.fd, mask |-> {"w"}, rproc |->
                                             IF "r" \in el.mask[f.fd] THEN el.proc[f.fd]["r"] ELSE 0]>>
                   ELSE <<>>
       IN  /\ fired' = rest \o Tail(fired)
           /\ IF "r" \in el.mask[f.fd] THEN el' \in AfterCall(el, NoTimer) /\ \E d \in {0, 1} : Tick(d)
              ELSE UNCHANGED <<el, now>>
    /\ UNCHANGED <<api, pc, cursor, maxId, slept, passAt>>

\* The handler for writing, unless the same one was just called for reading.
WriteEvent ==
    /\ pc = "file" /\ fired # <<>> /\ "r" \notin fired[1].mask
    /\ LET f == fired[1]
       IN  IF "w" \in f.mask \cap el.mask[f.fd] /\ f.rproc # el.proc[f.fd]["w"]
           THEN el' \in AfterCall(el, NoTimer) /\ \E d \in {0, 1} : Tick(d)
           ELSE UNCHANGED <<el, now>>
    /\ fired' = Tail(fired)
    /\ UNCHANGED <<api, pc, cursor, maxId, slept, passAt>>

First(s) == IF s.timers = <<>> THEN 0 ELSE 1

\* processTimeEvents begins.
BeginTimers ==
    /\ pc = "file" /\ fired = <<>>
    /\ pc' = "time" /\ cursor' = First(el)
    /\ maxId' = el.nextId - 1
    /\ passAt' = now
    /\ UNCHANGED <<el, api, now, fired, slept>>

\* Mutant of Fires: off by one.
FiresOlder(te) == te.id < maxId /\ Due(te)

Fires(te) == te.id <= maxId /\ Due(te)

\* A timer that a handler of this pass created, or one that is not due.
PassTimer ==
    /\ pc = "time" /\ cursor # 0 /\ ~Fires(el.timers[cursor])
    /\ cursor' = IF cursor < Len(el.timers) THEN cursor + 1 ELSE 0
    /\ UNCHANGED <<el, api, now, pc, fired, maxId, slept, passAt>>

\* A due timer: its handler runs, then it is put off by what the handler
\* returned, or deleted (KR_EVENT_NOMORE); the list may have changed, so it
\* is gone through again from its head.
FireTimer ==
    /\ pc = "time" /\ cursor # 0 /\ Fires(el.timers[cursor])
    /\ \E d \in {0, 1} : Tick(d)
    /\ LET id == el.timers[cursor].id
       IN  \E s \in AfterCall(el, id) :
             \/ el' = TimeDelete(s, id)
             \/ \E again \in Delay :
                  el' = [s EXCEPT !.timers = [i \in DOMAIN @ |->
                           IF @[i].id = id THEN [@[i] EXCEPT !.when = FromNow(now', again)] ELSE @[i]]]
    /\ cursor' = First(el')
    /\ UNCHANGED <<api, pc, fired, maxId, slept, passAt>>

EndTurn ==
    /\ pc = "time" /\ cursor = 0
    /\ pc' = IF el.stop THEN "done" ELSE "top"
    /\ UNCHANGED <<el, api, now, fired, cursor, maxId, slept, passAt>>

EventNext == SetUp \/ Poll \/ ReadEvent \/ WriteEvent \/ BeginTimers \/ PassTimer \/ FireTimer \/ EndTurn

EventSpec == EventInit /\ [][EventNext]_eventVars

---------------------------------------------------------------------------
(* Properties *)

\* What the kernel watches is what the loop has handlers for, and maxfd,
\* which select is given, is the highest descriptor of them, whatever
\* handlers register and delete while reported events wait.
InterestExact ==
    /\ el.interest = el.mask
    /\ el.maxfd = Max({-1} \cup {fd \in Fd : el.mask[fd] # {}})
    /\ \A fd \in Fd : \A k \in el.mask[fd] : el.proc[fd][k] # 0

\* When a pass over the timers ends, every timer that was there when it
\* began and is still there lies after the beginning of the pass: however
\* the handlers reshape the list, no timer that was due is passed over.
TimersServed ==
    (pc = "time" /\ cursor = 0) =>
        \A i \in DOMAIN el.timers : el.timers[i].id <= maxId => Millis(el.timers[i].when) > Millis(passAt)

\* The loop waits until the nearest timer at most, and if that is overdue
\* less than a second: the seconds of a negative difference are cut off, the
\* milliseconds are waited for (kr_event_process).  "how many time the select
\* can be put in sleep without to delay any event" (kr_event.c:173) would be
\* slept.timeout <= 0 for an overdue timer, which the code does not keep.
SleepsBounded ==
    \/ slept.timeout <= Max({slept.due, 0})
    \/ slept.due < 0 /\ slept.timeout < SEC
=============================================================================
