------------------------------ MODULE KrWindow ------------------------------
(***************************************************************************)
(* What krdb promises its readers: each table is a sliding window over its *)
(* events.  An insert appends an event and, once the window holds          *)
(* lSizeKeepValue of them, drops the oldest one.                           *)
(***************************************************************************)
EXTENDS Naturals, Sequences

CONSTANTS Tables, Keep, Record(_)

VARIABLE window   \* the events of each table, oldest first

Init == window = [t \in Tables |-> <<>>]

Kept(t) == IF Len(window[t]) = Keep[t] THEN Tail(window[t]) ELSE window[t]

Insert(t, data) == window' = [window EXCEPT ![t] = Append(Kept(t), data)]

Next == \E t \in Tables : \E data \in Record(t) : Insert(t, data)

Spec == Init /\ [][Next]_window

=============================================================================
