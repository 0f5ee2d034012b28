---------------------------- MODULE KrHashTable ----------------------------
(***************************************************************************)
(* krutils/kr_hashtable.c: the open addressing hash table under the        *)
(* indexes of krdb, the data item tables, the hash sets and the function   *)
(* tables.  A bucket keeps the full hash of its key: 0 says never used, 1  *)
(* is a tombstone, 2 and above is an entry.  The first bucket of a key is  *)
(* its hash modulo a prime below the size; further buckets are reached by  *)
(* steps of 1, 2, 3, ... modulo the size, a power of two.                  *)
(*                                                                         *)
(* Names of the keys' and values' memory are left out; how many of them    *)
(* the table owns is kept, since it must destroy each of them once.        *)
(***************************************************************************)
EXTENDS Integers, FiniteSets, FiniteSetsExt, Sequences

CONSTANTS Key,        \* the keys (key_equal_func is equality)
          Value,      \* Value[k]: the values callers store under k
          HashFunc,   \* hash_func: Key -> Nat
          Predicate,  \* the sets of keys foreach_remove may be asked to drop
          NULL        \* the null pointer, not a value

\* nnodes * 4 is an int; a lookup tells no entry from one with the value NULL.
ASSUME HashAssumption ==
    /\ IsFiniteSet(Key) /\ Cardinality(Key) < 2 ^ 29
    /\ HashFunc \in [Key -> Nat]
    /\ \A k \in Key : NULL \notin Value[k]

VARIABLES shift,      \* the table has 2^shift buckets
          nodes,      \* the buckets
          nnodes,     \* entries
          noccupied,  \* entries and tombstones
          owned,      \* [key, value]: objects handed over and not destroyed
          contents    \* history: what the callers put in and did not remove

hashVars == <<shift, nodes, nnodes, noccupied, owned, contents>>

HASH_TABLE_MIN_SHIFT == 3

prime_mod ==
    <<1, 2, 3, 7, 13, 31, 61, 127, 251, 509, 1021, 2039, 4093, 8191, 16381, 32749,
      65521, 131071, 262139, 524287, 1048573, 2097143, 4194301, 8388593, 16777213, 33554393,
      67108859, 134217689, 268435399, 536870909, 1073741789, 2147483647>>

Mod(sh) == prime_mod[sh + 1]

Buckets(sh) == 0 .. 2 ^ sh - 1

EmptyNode == [hash |-> 0, key |-> NULL, value |-> NULL]

Tombstone == [hash |-> 1, key |-> NULL, value |-> NULL]

\* kr_hashtable_find_closest_shift: the number of bits of n.
ClosestShift(n) == CHOOSE b \in 0 .. 31 : n < 2 ^ b /\ (b > 0 => 2 ^ (b - 1) <= n)

ShiftFromSize(n) == LET s == ClosestShift(n)
                    IN  IF s > HASH_TABLE_MIN_SHIFT THEN s ELSE HASH_TABLE_MIN_SHIFT

\* The hash a key is stored under: 0 and 1 are reserved.
KeyHash(k) == IF HashFunc[k] <= 1 THEN 2 ELSE HashFunc[k]

\* The bucket looked at after s steps: 1 + 2 + ... + s past the first.
Probe(sh, h, s) == ((h % Mod(sh)) + (s * (s + 1)) \div 2) % (2 ^ sh)

---------------------------------------------------------------------------
(* Lookups *)

Matches(node, k) == node.hash = KeyHash(k) /\ node.key = k

\* The steps at which the loop of kr_hashtable_lookup_node can stop.  The
\* triangular steps visit every bucket in 2^shift of them, so the loop ends
\* exactly when this set is not empty.
StopSteps(sh, nds, k) ==
    {s \in Buckets(sh) : LET n == nds[Probe(sh, KeyHash(k), s)]
                         IN  n.hash = 0 \/ Matches(n, k)}

LookupNode(k) == Probe(shift, KeyHash(k), Min(StopSteps(shift, nodes, k)))

\* Mutant of LookupNodeForInsertion: the first tombstone is taken without
\* looking for the key behind it.
LookupFirstFree(k) ==
    Probe(shift, KeyHash(k), Min({s \in Buckets(shift) :
        LET n == nodes[Probe(shift, KeyHash(k), s)] IN n.hash <= 1 \/ Matches(n, k)}))

\* kr_hashtable_lookup_node_for_insertion: the entry, or else the first
\* tombstone passed on the way to the empty bucket, or else that bucket.
LookupNodeForInsertion(k) ==
    LET stop  == Min(StopSteps(shift, nodes, k))
        tombs == {s \in 0 .. stop - 1 : nodes[Probe(shift, KeyHash(k), s)].hash = 1}
        found == Matches(nodes[Probe(shift, KeyHash(k), stop)], k)
    IN  Probe(shift, KeyHash(k), IF found \/ tombs = {} THEN stop ELSE Min(tombs))

LookupValue(k) == LET n == nodes[LookupNode(k)]
             IN  IF n.hash # 0 THEN n.value ELSE NULL

\* The buckets with an entry: those kr_hashtable_foreach meets, in order.
Entries(nds) == {i \in DOMAIN nds : nds[i].hash > 1}

\* kr_hashtable_find: the value of the first entry that the predicate picks.
Find(pred) == LET hits == {i \in Entries(nodes) : nodes[i].key \in pred}
              IN  IF hits = {} THEN NULL ELSE nodes[Min(hits)].value

---------------------------------------------------------------------------
(* Resizing *)

\* Place one entry in a table that holds no equal key and no tombstone.
Place(sh, nds, node) ==
    LET s == Min({t \in Buckets(sh) : nds[Probe(sh, node.hash, t)].hash = 0})
    IN  [nds EXCEPT ![Probe(sh, node.hash, s)] = node]

\* The loop of kr_hashtable_resize: the new buckets after i of the old ones.
Placed(sh, nds, new) ==
    LET placed[i \in 0 .. 2 ^ sh] ==
          IF i = 0 THEN [b \in Buckets(new) |-> EmptyNode]
          ELSE IF nds[i - 1].hash > 1 THEN Place(new, placed[i - 1], nds[i - 1])
          ELSE placed[i - 1]
    IN  placed

\* kr_hashtable_resize: every entry, in bucket order, into a table sized
\* for the entries alone; the tombstones are gone.
Resize(sh, nds, cnt) ==
    LET new == ShiftFromSize(cnt * 2)
    IN  [shift |-> new, nodes |-> Placed(sh, nds, new)[2 ^ sh], noccupied |-> cnt]

\* Mutant of MustResize: the tombstones are not counted.
MustResizeByEntries(sh, cnt, occ) ==
    \/ 2 ^ sh > cnt * 4 /\ sh > HASH_TABLE_MIN_SHIFT
    \/ 2 ^ sh <= cnt + cnt \div 16

MustResize(sh, cnt, occ) ==
    \/ 2 ^ sh > cnt * 4 /\ sh > HASH_TABLE_MIN_SHIFT
    \/ 2 ^ sh <= occ + occ \div 16

\* kr_hashtable_maybe_resize, and the assignment of the table's state.
MaybeResize(nds, cnt, occ) ==
    LET t == IF MustResize(shift, cnt, occ) THEN Resize(shift, nds, cnt)
             ELSE [shift |-> shift, nodes |-> nds, noccupied |-> occ]
    IN  /\ shift' = t.shift
        /\ nodes' = t.nodes
        /\ noccupied' = t.noccupied
        /\ nnodes' = cnt

---------------------------------------------------------------------------
(* Operations *)

HashInit ==
    /\ shift = HASH_TABLE_MIN_SHIFT
    /\ nodes = [i \in Buckets(HASH_TABLE_MIN_SHIFT) |-> EmptyNode]
    /\ nnodes = 0 /\ noccupied = 0
    /\ owned = [key |-> 0, value |-> 0]
    /\ contents = [k \in Key |-> NULL]

\* kr_hashtable_insert_internal.  An equal key: the value is replaced and one
\* of the two keys is destroyed, the new one by insert, the old one by
\* replace.  Otherwise a bucket is taken, and only one that was never used
\* counts as newly occupied and may make the table grow.
InsertKey(k, v) ==
    LET i    == LookupNodeForInsertion(k)
        old  == nodes[i].hash
        node == [hash |-> KeyHash(k), key |-> k, value |-> v]
    IN  /\ contents' = [contents EXCEPT ![k] = v]
        /\ \/ /\ old > 1
              /\ nodes' = [nodes EXCEPT ![i].value = v]
              /\ UNCHANGED <<shift, nnodes, noccupied, owned>>
           \/ /\ old = 1
              /\ nodes' = [nodes EXCEPT ![i] = node]
              /\ nnodes' = nnodes + 1
              /\ owned' = [key |-> owned.key + 1, value |-> owned.value + 1]
              /\ UNCHANGED <<shift, noccupied>>
           \/ /\ old = 0
              /\ MaybeResize([nodes EXCEPT ![i] = node], nnodes + 1, noccupied + 1)
              /\ owned' = [key |-> owned.key + 1, value |-> owned.value + 1]

\* kr_hashtable_remove and, when the caller takes the entry, _steal: either
\* way the table owns one key and one value less.
RemoveKey(k) ==
    LET i == LookupNode(k)
    IN  /\ nodes[i].hash # 0
        /\ MaybeResize([nodes EXCEPT ![i] = Tombstone], nnodes - 1, noccupied)
        /\ owned' = [key |-> owned.key - 1, value |-> owned.value - 1]
        /\ contents' = [contents EXCEPT ![k] = NULL]

\* kr_hashtable_remove_all and _steal_all.
RemoveAll ==
    /\ MaybeResize([i \in Buckets(shift) |-> EmptyNode], 0, 0)
    /\ LET n == Cardinality(Entries(nodes))
       IN  owned' = [key |-> owned.key - n, value |-> owned.value - n]
    /\ contents' = [k \in Key |-> NULL]

\* kr_hashtable_foreach_remove and _foreach_steal, with a predicate that
\* holds of the keys in pred: a tombstone for each, one resize at the end.
ForeachRemove(pred) ==
    LET hit == {i \in Entries(nodes) : nodes[i].key \in pred}
    IN  /\ MaybeResize([i \in Buckets(shift) |-> IF i \in hit THEN Tombstone ELSE nodes[i]],
                       nnodes - Cardinality(hit), noccupied)
        /\ owned' = [key   |-> owned.key - Cardinality(hit),
                     value |-> owned.value - Cardinality(hit)]
        /\ contents' = [k \in Key |-> IF k \in pred THEN NULL ELSE contents[k]]

HashNext ==
    \/ \E k \in Key : \E v \in Value[k] : InsertKey(k, v)
    \/ \E k \in Key : RemoveKey(k)
    \/ RemoveAll
    \/ \E pred \in Predicate : ForeachRemove(pred)

HashSpec == HashInit /\ [][HashNext]_hashVars

---------------------------------------------------------------------------
(* Properties *)

\* Every lookup loop ends (kr_hashtable_lookup_node spins until a bucket
\* with hash 0): counting only the buckets taken for the first time, never
\* the tombstones taken again, still keeps one bucket empty whatever mix of
\* insertions and removals came before.
LookupEnds ==
    /\ \A k \in Key : StopSteps(shift, nodes, k) # {}
    /\ noccupied = Cardinality({i \in Buckets(shift) : nodes[i].hash > 0})
    /\ noccupied < 2 ^ shift

\* A lookup returns exactly what was put in under the key, through
\* collisions, equal hashes, tombstones and resizes, and the traversal meets
\* every entry once: no key is lost and none is stored twice
\* (kr_hashtable_lookup_node_for_insertion, kr_hashtable_resize).
LookupExact ==
    /\ \A k \in Key : LookupValue(k) = contents[k] /\ Find({k}) = contents[k]
    /\ {nodes[i].key : i \in Entries(nodes)} = {k \in Key : contents[k] # NULL}
    /\ nnodes = Cardinality(Entries(nodes))
    /\ nnodes = Cardinality({k \in Key : contents[k] # NULL})
    /\ owned = [key |-> nnodes, value |-> nnodes]
=============================================================================
