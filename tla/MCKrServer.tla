----------------------------- MODULE MCKrServer -----------------------------
(***************************************************************************)
(* KrServer with two workers.                                              *)
(***************************************************************************)
EXTENDS KrServer, TLC

CONSTANTS w1, w2

MCWorkers == {w1, w2}

\* Sound for the invariants; the run with a liveness property does not use it.
Symmetry == Permutations(MCWorkers)

=============================================================================
