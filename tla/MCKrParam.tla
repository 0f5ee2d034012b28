----------------------------- MODULE MCKrParam ------------------------------
(***************************************************************************)
(* KrParam with two workers, either of which may run a reload.             *)
(***************************************************************************)
EXTENDS KrParam

CONSTANTS w1, w2

MCWorkers == {w1, w2}

=============================================================================
