--------------------------- MODULE MCKrThreadPool ---------------------------
(***************************************************************************)
(* KrThreadPool with one caller, the main thread, and a few workers.       *)
(***************************************************************************)
EXTENDS KrThreadPool

CONSTANTS w1, w2, w3, main

ThreeWorkers == {w1, w2, w3}
MainOnly == {main}

=============================================================================
