------------------------------- MODULE MCKrDb -------------------------------
(***************************************************************************)
(* The event store, and the hash table that its indexes are made of.  A    *)
(* behaviour is one of the two; the other stays as it was created.         *)
(*                                                                         *)
(* KrDb on two tables.  Table t1 has a table index (id 1) and a db index   *)
(* (id 2); table t2 shares the db index, and sorts it.                     *)
(*                                                                         *)
(* KrHashTable with eight keys for eight buckets, with equal hashes and    *)
(* hashes that collide; the eighth bucket filled makes the table grow, and *)
(* removals shrink it.                                                     *)
(***************************************************************************)
EXTENDS KrDb, KrHashTable

CONSTANTS t1, t2, k1, k2

MCTables == {t1, t2}
MCKeep == (t1 :> 3) @@ (t2 :> 2)
MCKeys == {k1, k2}
MCTableIndexes == (t1 :> {1, 2}) @@ (t2 :> {2})
MCDbIndexes == {<<t1, 2>>, <<t2, 2>>}
MCSortIndexes == {<<t2, 2>>}

HashKeys == 1 .. 8
HashValues == [k \in HashKeys |-> IF k = 1 THEN {10, 11} ELSE {10 * k}]
HashOfKey == <<2, 9, 0, 4, 12, 6, 13, 20>>
Predicates == {{1, 2}, {2, 3, 5}}

VARIABLE part

MCInit == Init /\ HashInit /\ part \in {"store", "hash table"}

MCNext ==
  /\ \/ part = "store" /\ Next /\ UNCHANGED hashVars
     \/ part = "hash table" /\ HashNext /\ UNCHANGED vars
  /\ UNCHANGED part

MCSpec == MCInit /\ [][MCNext]_<<vars, hashVars, part>>

=============================================================================
