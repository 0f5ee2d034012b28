---------------------------- MODULE MCKrDbInsert ----------------------------
(***************************************************************************)
(* KrDbInsert on two workers and two tables: t1 keeps two records in one   *)
(* index, t2 keeps one record in two indexes.                              *)
(***************************************************************************)
EXTENDS KrDbInsert

CONSTANTS w1, w2, t1, t2, k1, k2

MCWorkers == {w1, w2}
MCTables == {t1, t2}
MCKeep == (t1 :> 2) @@ (t2 :> 1)
MCKeys == {k1, k2}
MCTableIndexes == (t1 :> {1}) @@ (t2 :> {1, 2})

\* Each index belongs to one table.
OwnIndexes == {}
\* Index 1 of both tables is one index of the database.
SharedIndexes == {<<t1, 1>>, <<t2, 1>>}

Unsorted == {}

=============================================================================
