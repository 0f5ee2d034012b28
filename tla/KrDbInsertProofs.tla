-------------------------- MODULE KrDbInsertProofs --------------------------
(***************************************************************************)
(* The interleaved inserts of KrDbInsert are safe, and are the atomic      *)
(* inserts of KrDb, as long as no index is shared by two tables: for any   *)
(* number of workers and tables, any schema, ring sizes and keys.          *)
(***************************************************************************)
EXTENDS KrDbInsert, KrListProofs, FiniteSetTheorems, WellFoundedInduction

\* The proofs about KrDb, over the state that the unlocks have published.
DbP == INSTANCE KrDbProofs WITH
  pRecordBuff <- committed.buff,
  uiRecordLoc <- committed.loc,
  uiRecordNum <- committed.num,
  pHashTable  <- committed.hash

\* Every hash table belongs to one table (MCKrDbShared shows what happens
\* otherwise).
Unshared == \A h \in Db!Hashes : \A t, u \in h.tables : t = u

-----------------------------------------------------------------------------
(***************************************************************************)
(* What is known of KrDb, in the words of this module.                     *)
(***************************************************************************)

LEMMA Schema == DbP!SchemaAssumption
BY InsertAssumption DEF DbP!SchemaAssumption, DbP!RecordOf

\* Both instances of KrDb are the same operators.
LEMMA SameDb ==
  /\ DbP!Addr = Db!Addr
  /\ \A t : DbP!Slots(t) = Db!Slots(t) /\ DbP!RecordOf(t) = Db!RecordOf(t)
  /\ \A t, x : DbP!HashOf(t, x) = Db!HashOf(t, x)
  /\ DbP!Hashes = Db!Hashes
  /\ \A buff, a, x : DbP!FieldAt(buff, a, x) = Db!FieldAt(buff, a, x)
<1>1. \A t : DbP!Slots(t) = Db!Slots(t) /\ DbP!RecordOf(t) = Db!RecordOf(t)
  BY DEF DbP!Slots, Db!Slots, DbP!RecordOf, Db!RecordOf
<1>2. DbP!Addr = Db!Addr
  BY <1>1 DEF DbP!Addr, Db!Addr
<1>3. \A t, x : DbP!HashOf(t, x) = Db!HashOf(t, x)
  BY DEF DbP!HashOf, Db!HashOf
<1>4. DbP!Hashes = Db!Hashes
  BY <1>3 DEF DbP!Hashes, Db!Hashes
<1> QED
  BY <1>1, <1>2, <1>3, <1>4 DEF DbP!FieldAt, Db!FieldAt

\* So are the operators on lists that they use.
LEMMA SameLists ==
  /\ \A s : DbP!ToSet(s) = ToSet(s) /\ (DbP!IsInjective(s) <=> IsInjective(s))
  /\ \A s : DbP!Last(s) = Last(s) /\ Db!Last(s) = Last(s)
  /\ \A s, i, e : DbP!InsertAt(s, i, e) = InsertAt(s, i, e) /\ Db!InsertAt(s, i, e) = InsertAt(s, i, e)
  /\ \A s, e : DbP!RemoveFirst(s, e) = RemoveFirst(s, e) /\ Db!RemoveFirst(s, e) = RemoveFirst(s, e)
<1>1. \A s : DbP!ToSet(s) = ToSet(s) /\ (DbP!IsInjective(s) <=> IsInjective(s))
  BY DEF DbP!ToSet, ToSet, DbP!IsInjective, IsInjective
<1>2. \A s : DbP!Last(s) = Last(s) /\ Db!Last(s) = Last(s)
  BY DEF DbP!Last, Db!Last, Last
<1>3. \A s, i, e : DbP!InsertAt(s, i, e) = InsertAt(s, i, e) /\ Db!InsertAt(s, i, e) = InsertAt(s, i, e)
  BY DEF DbP!InsertAt, Db!InsertAt, InsertAt
<1>4. \A s, e : DbP!RemoveFirst(s, e) = RemoveFirst(s, e)
  BY DEF DbP!RemoveFirst, DbP!RemoveAt, DbP!SelectInSeq, DbP!Min, RemoveFirst, RemoveAt, SelectInSeq, Min
<1>5. \A s, e : Db!RemoveFirst(s, e) = RemoveFirst(s, e)
  BY DEF Db!RemoveFirst, Db!RemoveAt, Db!SelectInSeq, Db!Min, RemoveFirst, RemoveAt, SelectInSeq, Min
<1> QED
  BY <1>1, <1>2, <1>3, <1>4, <1>5

LEMMA SameLookup ==
  /\ \A ht, buff, x, k : DbP!Lookup(ht, buff, x, k) = Db!Lookup(ht, buff, x, k)
  /\ \A ht, buff, x, k : DbP!ListAt(ht, buff, x, k) = Db!ListAt(ht, buff, x, k)
  /\ \A ht, buff, x, a, list : DbP!Replace(ht, buff, x, a, list) = Db!Replace(ht, buff, x, a, list)
<1>1. \A ht, buff, x, k : DbP!Lookup(ht, buff, x, k) = Db!Lookup(ht, buff, x, k)
  BY DEF DbP!Lookup, Db!Lookup, DbP!FieldAt, Db!FieldAt
<1>2. \A ht, buff, x, k : DbP!ListAt(ht, buff, x, k) = Db!ListAt(ht, buff, x, k)
  BY DEF DbP!ListAt, Db!ListAt, DbP!Lookup, Db!Lookup, DbP!FieldAt, Db!FieldAt
<1>3. \A ht, buff, x, a, list : DbP!Replace(ht, buff, x, a, list) = Db!Replace(ht, buff, x, a, list)
  BY <1>1 DEF DbP!Replace, Db!Replace, DbP!FieldAt, Db!FieldAt
<1> QED
  BY <1>1, <1>2, <1>3

LEMMA SameIndex ==
  /\ \A ht, buff, x, a, p : DbP!IndexIns(ht, buff, x, a, p) = Db!IndexIns(ht, buff, x, a, p)
  /\ \A ht, buff, x, a : DbP!IndexDel(ht, buff, x, a) = Db!IndexDel(ht, buff, x, a)
  /\ \A t, x, list : DbP!Places(t, x, list) = Db!Places(t, x, list)
<1>1. \A ht, buff, x, a, p : DbP!IndexIns(ht, buff, x, a, p) = Db!IndexIns(ht, buff, x, a, p)
  BY SameDb, SameLists, SameLookup DEF DbP!IndexIns, Db!IndexIns
<1>2. \A ht, buff, x, a : DbP!IndexDel(ht, buff, x, a) = Db!IndexDel(ht, buff, x, a)
  <2> TAKE ht, buff, x, a
  <2>1. PICK k, rest : k = Db!FieldAt(buff, a, x) /\ rest = RemoveFirst(Db!ListAt(ht, buff, x, k), a)
    OBVIOUS
  <2>2. Db!IndexDel(ht, buff, x, a) =
          IF rest = <<>> THEN ht \ Db!Lookup(ht, buff, x, k) ELSE Db!Replace(ht, buff, x, Last(rest), rest)
    BY <2>1, SameLists DEF Db!IndexDel
  <2>3. k = DbP!FieldAt(buff, a, x) /\ rest = RemoveFirst(DbP!ListAt(ht, buff, x, k), a)
    BY <2>1, SameDb, SameLookup
  <2>4. DbP!IndexDel(ht, buff, x, a) =
          IF rest = <<>> THEN ht \ DbP!Lookup(ht, buff, x, k) ELSE DbP!Replace(ht, buff, x, Last(rest), rest)
    BY <2>3, SameLists DEF DbP!IndexDel
  <2> QED
    BY <2>2, <2>4, SameLookup
<1>3. \A t, x, list : DbP!Places(t, x, list) = Db!Places(t, x, list)
  BY DEF DbP!Places, Db!Places
<1> QED
  BY <1>1, <1>2, <1>3

\* Of two published states, one is the other after an insert, in both.
LEMMA SameNext == Db!Next => DbP!Next
<1>1. \A h, a : DbP!AfterDelete(h, a) = Db!AfterDelete(h, a)
  BY SameIndex DEF DbP!AfterDelete, Db!AfterDelete
<1>2. \A t, a : DbP!DeleteTraps(t, a) <=> Db!DeleteTraps(t, a)
  BY SameLookup, SameDb DEF DbP!DeleteTraps, Db!DeleteTraps
<1>3. /\ \A t, a : DbP!NumAfter(t, a) = Db!NumAfter(t, a)
      /\ \A t : DbP!LocAfter(t) = Db!LocAfter(t)
      /\ DbP!Positions = Db!Positions
  <2>1. \A t, a : DbP!NumAfter(t, a) = Db!NumAfter(t, a)
    BY DEF DbP!NumAfter, Db!NumAfter
  <2>2. \A t : DbP!LocAfter(t) = Db!LocAfter(t)
    BY DEF DbP!LocAfter, Db!LocAfter
  <2>3. DbP!Positions = Db!Positions
    BY SameDb DEF DbP!Positions, Db!Positions, DbP!Cardinality, Db!Cardinality
  <2> QED
    BY <2>1, <2>2, <2>3
<1>4. \A t, data, pos : Db!Insert(t, data, pos) => DbP!Insert(t, data, pos)
  BY <1>1, <1>2, <1>3, SameDb, SameLookup, SameIndex DEF Db!Insert, DbP!Insert
<1> QED
  BY <1>3, <1>4, SameDb DEF Db!Next, DbP!Next

\* The published tables stay sound under inserts.
LEMMA PublishedStep ==
  ASSUME DbP!IInv, Db!Next \/ UNCHANGED Db!vars
  PROVE  DbP!IInv'
<1>1. [DbP!Next]_(DbP!vars)
  BY SameNext DEF Db!vars, DbP!vars
<1> QED
  BY <1>1, Schema, DbP!StoreStep

\* A lookup finds the entry that was stored under the key.
LEMMA FindsEntry ==
  ASSUME NEW ht, NEW buff, NEW x, NEW D, NEW k, DbP!IndexOK(ht, buff, x, D)
  PROVE  Db!Lookup(ht, buff, x, k) = {e \in ht : e.hash = k}
BY Schema, DbP!LookupFinds, SameLookup

\* The list of a key holds the records with that key, each once.
LEMMA FindsList ==
  ASSUME NEW ht, NEW buff, NEW x, NEW D, NEW k, DbP!IndexOK(ht, buff, x, D)
  PROVE  /\ Db!ListAt(ht, buff, x, k) \in Seq(Db!Addr)
         /\ IsInjective(Db!ListAt(ht, buff, x, k))
         /\ ToSet(Db!ListAt(ht, buff, x, k)) = {a \in D : Db!FieldAt(buff, a, x) = k}
<1>1. PICK list : list = DbP!ListAt(ht, buff, x, k)
  OBVIOUS
<1>2. /\ list \in Seq(DbP!Addr) /\ DbP!IsInjective(list)
      /\ DbP!ToSet(list) = {a \in D : DbP!FieldAt(buff, a, x) = k}
  BY <1>1, Schema, DbP!ListFound
<1>3. list = Db!ListAt(ht, buff, x, k)
  BY <1>1, SameLookup
<1>4. list \in Seq(Db!Addr)
  BY <1>2, SameDb
<1>5. {a \in D : DbP!FieldAt(buff, a, x) = k} = {a \in D : Db!FieldAt(buff, a, x) = k}
  BY SameDb
<1> QED
  BY <1>2, <1>3, <1>4, <1>5, SameLists

\* kr_rebuild_index_del takes a record out of an index.
LEMMA DeletesRecord ==
  ASSUME NEW ht, NEW buff, NEW x, NEW D, NEW a \in D,
         DbP!IndexOK(ht, buff, x, D), Db!FieldAt(buff, a, x) \in Keys
  PROVE  DbP!IndexOK(Db!IndexDel(ht, buff, x, a), buff, x, D \ {a})
<1>1. DbP!FieldAt(buff, a, x) \in Keys
  BY SameDb
<1>2. DbP!IndexOK(DbP!IndexDel(ht, buff, x, a), buff, x, D \ {a})
  BY <1>1, Schema, DbP!IndexDelOK
<1> QED
  BY <1>2, SameIndex

\* Only the records an index holds matter to it.
LEMMA OtherRecords ==
  ASSUME NEW ht, NEW buff, NEW buff2, NEW x, NEW D, DbP!IndexOK(ht, buff, x, D),
         \A b \in D : buff2[b] = buff[b]
  PROVE  DbP!IndexOK(ht, buff2, x, D)
BY Schema, DbP!IndexFrame

\* What an index in order says of its entries.
LEMMA EntriesOf ==
  ASSUME NEW ht, NEW buff, NEW x, NEW D, DbP!IndexOK(ht, buff, x, D)
  PROVE  /\ ht \subseteq [hash : Keys, key : Db!Addr, list : Seq(Db!Addr)]
         /\ \A e \in ht : /\ e.key \in ToSet(e.list) /\ IsInjective(e.list)
                          /\ ToSet(e.list) \subseteq D
                          /\ \A a \in ToSet(e.list) : Db!FieldAt(buff, a, x) = e.hash
         /\ \A a \in D : \E e \in ht : a \in ToSet(e.list)
         /\ \A e, f \in ht : e.hash = f.hash => e = f
BY SameDb, SameLists DEF DbP!IndexOK, DbP!Entry

-----------------------------------------------------------------------------
(***************************************************************************)
(* Hash tables that hold pointers to lists.                                *)
(***************************************************************************)

PtrEntry == [hash : Keys, key : Db!Addr, list : ListIds]

\* An entry with its list by value.
Cell(e, list) == [hash |-> e.hash, key |-> e.key, list |-> list]

\* The hash table ht with its lists, which are in the heap rl, by value.
Val(ht, rl) == {Cell(e, rl[e.list]) : e \in ht}

\* The entries of the hash table of name h point to lists of h in the heap rl
\* and to records in the slots S.
PtrOK(ht, rl, h, S) ==
  /\ ht \subseteq PtrEntry
  /\ \A e \in ht : /\ e.key \in S
                   /\ e.list \in DOMAIN rl /\ e.list[1] = h /\ e.list[2] = e.hash
  /\ \A e, f \in ht : e.hash = f.hash => e = f

HeapOK(rl) ==
  /\ DOMAIN rl \subseteq ListIds
  /\ \A l \in DOMAIN rl : rl[l] \in Seq(Db!Addr)

\* A lookup does not look at the lists.
LEMMA LookupVal ==
  ASSUME NEW ht, NEW rl, NEW buff, NEW x, NEW k
  PROVE  Db!Lookup(Val(ht, rl), buff, x, k) = Val(Db!Lookup(ht, buff, x, k), rl)
BY DEF Db!Lookup, Val, Cell

\* Only the lists that the entries point to matter.
LEMMA ValFrame ==
  ASSUME NEW ht, NEW rl, NEW rl2, \A e \in ht : rl2[e.list] = rl[e.list]
  PROVE  Val(ht, rl2) = Val(ht, rl)
BY DEF Val

\* A lookup finds the one entry with the hash of the key.
LEMMA FindsPointer ==
  ASSUME NEW ht, NEW rl, NEW buff, NEW x, NEW D, NEW k, DbP!IndexOK(Val(ht, rl), buff, x, D)
  PROVE  Db!Lookup(ht, buff, x, k) = {e \in ht : e.hash = k}
<1>1. ASSUME NEW e \in ht, e.hash = k
      PROVE  Db!FieldAt(buff, e.key, x) = k
  <2>1. PICK v : v = Cell(e, rl[e.list])
    OBVIOUS
  <2>2. v \in Val(ht, rl) /\ v.key = e.key /\ v.hash = k
    BY <1>1, <2>1 DEF Val, Cell
  <2>3. v.key \in ToSet(v.list) /\ \A a \in ToSet(v.list) : Db!FieldAt(buff, a, x) = v.hash
    BY <2>2, EntriesOf
  <2> QED
    BY <2>2, <2>3
<1> QED
  BY <1>1 DEF Db!Lookup

\* The entry e of key k points to a list of h, with the contents list.
PointsTo(e, ht, rl, h, k, list) ==
  /\ e.list \in DOMAIN rl /\ e.list[1] = h /\ e.list[2] = k
  /\ rl[e.list] = list
  /\ \A f \in ht : f.hash = k => f.list = e.list

\* The list of a key: the one the entry points to, or none.
LEMMA PointsToList ==
  ASSUME NEW ht, NEW rl, NEW h, NEW S, NEW buff, NEW x, NEW D, NEW k,
         PtrOK(ht, rl, h, S), DbP!IndexOK(Val(ht, rl), buff, x, D)
  PROVE  /\ Db!Lookup(ht, buff, x, k) = {} =>
              /\ Db!ListAt(Val(ht, rl), buff, x, k) = <<>>
              /\ \A e \in ht : e.hash # k
         /\ \A e \in Db!Lookup(ht, buff, x, k) :
              PointsTo(e, ht, rl, h, k, Db!ListAt(Val(ht, rl), buff, x, k))
<1>1. Db!Lookup(ht, buff, x, k) = {e \in ht : e.hash = k}
  BY FindsPointer
<1>2. Db!Lookup(Val(ht, rl), buff, x, k) = Val(Db!Lookup(ht, buff, x, k), rl)
  BY LookupVal
<1>3. ASSUME Db!Lookup(ht, buff, x, k) = {}
      PROVE  Db!ListAt(Val(ht, rl), buff, x, k) = <<>> /\ \A e \in ht : e.hash # k
  <2>1. Val({}, rl) = {}
    BY DEF Val
  <2>2. Db!Lookup(Val(ht, rl), buff, x, k) = {}
    BY <1>2, <1>3, <2>1
  <2> QED
    BY <1>1, <1>3, <2>2 DEF Db!ListAt
<1>4. ASSUME NEW e \in Db!Lookup(ht, buff, x, k)
      PROVE  PointsTo(e, ht, rl, h, k, Db!ListAt(Val(ht, rl), buff, x, k))
  <2>1. e \in ht /\ e.hash = k /\ \A f \in ht : f.hash = k => f = e
    BY <1>1 DEF PtrOK
  <2>2. Db!Lookup(ht, buff, x, k) = {e}
    BY <1>1, <2>1
  <2>3. Db!Lookup(Val(ht, rl), buff, x, k) = {Cell(e, rl[e.list])}
    BY <1>2, <2>2 DEF Val
  <2>4. Db!ListAt(Val(ht, rl), buff, x, k) = Cell(e, rl[e.list]).list
    BY <2>3 DEF Db!ListAt
  <2>5. Db!ListAt(Val(ht, rl), buff, x, k) = rl[e.list]
    BY <2>4 DEF Cell
  <2> QED
    BY <2>1, <2>5 DEF PtrOK, PointsTo
<1> QED
  BY <1>3, <1>4

\* kr_hashtable_replace on pointers is kr_hashtable_replace on lists.
LEMMA ReplaceVal ==
  ASSUME NEW ht, NEW rl, NEW rl2, NEW h, NEW S, NEW buff, NEW x, NEW D, NEW a \in S, NEW l \in ListIds,
         S \subseteq Db!Addr, PtrOK(ht, rl, h, S), DbP!IndexOK(Val(ht, rl), buff, x, D),
         Db!FieldAt(buff, a, x) \in Keys, l[1] = h, l[2] = Db!FieldAt(buff, a, x),
         l \in DOMAIN rl2, \A m \in DOMAIN rl : m # l => m \in DOMAIN rl2 /\ rl2[m] = rl[m]
  PROVE  /\ Val(Db!Replace(ht, buff, x, a, l), rl2) = Db!Replace(Val(ht, rl), buff, x, a, rl2[l])
         /\ PtrOK(Db!Replace(ht, buff, x, a, l), rl2, h, S)
         /\ \A e \in ht : e \in Db!Replace(ht, buff, x, a, l) \/ e.hash = l[2]
         /\ \E e \in Db!Replace(ht, buff, x, a, l) : e.list = l
<1>1. PICK k, rest, new : /\ k = Db!FieldAt(buff, a, x)
                          /\ rest = {e \in ht : e.hash # k}
                          /\ new = [hash |-> k, key |-> a, list |-> l]
  OBVIOUS
<1>2. Db!Lookup(ht, buff, x, k) = {e \in ht : e.hash = k}
  BY FindsPointer
<1>3. Db!Replace(ht, buff, x, a, l) = rest \cup {new}
  BY <1>1, <1>2 DEF Db!Replace
<1>4. Db!Lookup(Val(ht, rl), buff, x, k) = {e \in Val(ht, rl) : e.hash = k}
  BY FindsEntry
<1>5. Db!Replace(Val(ht, rl), buff, x, a, rl2[l]) = {e \in Val(ht, rl) : e.hash # k} \cup {Cell(new, rl2[l])}
  BY <1>1, <1>4 DEF Db!Replace, Cell
<1>6. \A e \in rest : e.list \in DOMAIN rl /\ e.list # l
  BY <1>1 DEF PtrOK
<1>7. {e \in Val(ht, rl) : e.hash # k} = Val(rest, rl)
  BY <1>1 DEF Val, Cell
<1>8. Val(rest, rl2) = Val(rest, rl)
  BY <1>6, ValFrame
<1>9. Val(rest \cup {new}, rl2) = Val(rest, rl2) \cup {Cell(new, rl2[l])}
  BY <1>1 DEF Val
<1>10. new \in PtrEntry /\ new.hash = k /\ new.key = a /\ new.list = l
  BY <1>1 DEF PtrEntry
<1>11. PtrOK(rest \cup {new}, rl2, h, S)
  <2>1. rest \cup {new} \subseteq PtrEntry
    BY <1>1, <1>10 DEF PtrOK
  <2>2. \A e \in rest \cup {new} : e.key \in S /\ e.list \in DOMAIN rl2 /\ e.list[1] = h /\ e.list[2] = e.hash
    BY <1>1, <1>6, <1>10 DEF PtrOK
  <2>3. \A e, f \in rest \cup {new} : e.hash = f.hash => e = f
    BY <1>1, <1>10 DEF PtrOK
  <2> QED
    BY <2>1, <2>2, <2>3 DEF PtrOK
<1> QED
  BY <1>1, <1>3, <1>5, <1>7, <1>8, <1>9, <1>10, <1>11

\* Without its entry of key k, ht has the value V.
Dropped(ht2, ht, rl2, h, S, k, V) ==
  /\ Val(ht2, rl2) = V
  /\ PtrOK(ht2, rl2, h, S)
  /\ \A e \in ht : e \in ht2 \/ e.hash = k

\* kr_hashtable_remove on pointers is kr_hashtable_remove on lists.
LEMMA DropVal ==
  ASSUME NEW ht, NEW rl, NEW rl2, NEW h, NEW S, NEW buff, NEW x, NEW D, NEW k,
         PtrOK(ht, rl, h, S), DbP!IndexOK(Val(ht, rl), buff, x, D),
         \A m \in DOMAIN rl : m[2] # k => m \in DOMAIN rl2 /\ rl2[m] = rl[m]
  PROVE  Dropped(ht \ Db!Lookup(ht, buff, x, k), ht, rl2, h, S, k,
                 Val(ht, rl) \ Db!Lookup(Val(ht, rl), buff, x, k))
<1>1. PICK rest : rest = {e \in ht : e.hash # k}
  OBVIOUS
<1>2. ht \ Db!Lookup(ht, buff, x, k) = rest
  BY <1>1, FindsPointer
<1>3. Val(ht, rl) \ Db!Lookup(Val(ht, rl), buff, x, k) = {e \in Val(ht, rl) : e.hash # k}
  BY FindsEntry
<1>4. {e \in Val(ht, rl) : e.hash # k} = Val(rest, rl)
  BY <1>1 DEF Val, Cell
<1>5. \A e \in rest : e.list \in DOMAIN rl2 /\ rl2[e.list] = rl[e.list]
  BY <1>1 DEF PtrOK
<1>6. Val(rest, rl2) = Val(rest, rl)
  BY <1>5, ValFrame
<1>7. PtrOK(rest, rl2, h, S)
  BY <1>1, <1>5 DEF PtrOK
<1> QED
  BY <1>1, <1>2, <1>3, <1>4, <1>6, <1>7 DEF Dropped

-----------------------------------------------------------------------------
(***************************************************************************)
(* The stages of an index while an insert is under way.  H is the index    *)
(* and B the memory of the table when the lock was taken, a the slot that  *)
(* is written, data what is written.                                       *)
(***************************************************************************)

\* The memory of table t alone.
Part(t, buff) == [b \in Db!Slots(t) |-> buff[b]]

\* The index after kr_delete_record of the slot.
Gone(H, B, x, a) == IF B[a] = NoRecord THEN H ELSE Db!IndexDel(H, B, x, a)

\* The record has been unlinked from list l, which the worker holds; but for
\* that the index is as it was.
Cut(ht, rl, l, h, x, a, B, H) ==
  LET old == Db!ListAt(H, B, x, B[a][x])
  IN  /\ l \in DOMAIN rl /\ l[1] = h /\ l[2] = B[a][x]
      /\ rl[l] = RemoveFirst(old, a)
      /\ \A e \in ht : e.hash = l[2] => e.list = l
      /\ Val(ht, [rl EXCEPT ![l] = old]) = H

\* The worker holds the list l that the record belongs to.
Open(ht, rl, l, h, x, a, B, G) ==
  /\ l \in DOMAIN rl /\ l[1] = h /\ l[2] = B[a][x]
  /\ rl[l] = Db!ListAt(G, B, x, B[a][x])
  /\ \A e \in ht : e.hash = l[2] => e.list = l
  /\ Val(ht, rl) = G

\* The record is in the index.
Linked(ht, rl, t, x, a, B, G) ==
  \E p \in Db!Places(t, x, Db!ListAt(G, B, x, B[a][x])) :
    Val(ht, rl) = Db!IndexIns(G, B, x, a, p)

\* Where index x stands when the worker is at p with the indexes td to do.
IndexAt(p, td, l, ht, rl, h, t, x, a, data, B, H) ==
  LET G  == Gone(H, B, x, a)
      B1 == [B EXCEPT ![a] = data]
  IN  /\ p \in {"unlink", "rekey"} =>
           /\ x \notin td => Val(ht, rl) = G
           /\ x \in td /\ (p = "unlink" \/ x # Min(td)) => Val(ht, rl) = H
           /\ x \in td /\ p = "rekey" /\ x = Min(td) => Cut(ht, rl, l, h, x, a, B, H)
      /\ p = "fill" => Val(ht, rl) = G
      /\ p \in {"find", "link", "unlock"} =>
           /\ x \notin td => Linked(ht, rl, t, x, a, B1, G)
           /\ x \in td /\ (p = "find" \/ x # Min(td)) => Val(ht, rl) = G
           /\ x \in td /\ p = "link" /\ x = Min(td) => Open(ht, rl, l, h, x, a, B1, G)

-----------------------------------------------------------------------------
(***************************************************************************)
(* The inductive invariant.                                                *)
(***************************************************************************)

Data == UNION {Db!RecordOf(t) : t \in Tables}
Points == {"idle", "lock", "unlink", "rekey", "fill", "find", "link", "unlock"}

\* What the variables range over.
WorkType ==
  /\ pc \in [Workers -> Points]
  /\ tLock \in [Tables -> Workers \cup {Free}]
  /\ job \in [Workers -> [table : Tables \cup {Free}, data : Data \cup {Free}, slot : Db!Addr \cup {Free}]]
  /\ todo \in [Workers -> SUBSET Nat]
  /\ held \in [Workers -> ListIds \cup {Free}]
  /\ \A w \in Workers : pc[w] # "idle" => /\ job[w].table \in Tables
                                          /\ job[w].data \in Db!RecordOf(job[w].table)

\* The mutexes: a worker inside an insert has the mutex of its table.
LockInv == \A w \in Workers : Inside(w) => tLock[job[w].table] = w

MemInv ==
  /\ pRecordBuff \in [Db!Addr -> Data \cup {NoRecord}]
  /\ uiRecordLoc \in [Tables -> Nat]
  /\ uiRecordNum \in [Tables -> Int]
  /\ pHashTable \in [Db!Hashes -> SUBSET PtrEntry]
  /\ committed \in [buff : [Db!Addr -> Data \cup {NoRecord}], loc : [Tables -> Nat],
                    num : [Tables -> Nat], hash : [Db!Hashes -> SUBSET DbP!Entry]]

\* The heap of lists.
HeapInv ==
  /\ HeapOK(recList)
  /\ \A t \in Tables : \A x \in TableIndexes[t] :
       PtrOK(pHashTable[Db!HashOf(t, x)], recList, Db!HashOf(t, x), Db!Slots(t))

\* Table t is as its last unlock left it.
Quiet(t) ==
  /\ Part(t, pRecordBuff) = Part(t, committed.buff)
  /\ uiRecordLoc[t] = committed.loc[t]
  /\ uiRecordNum[t] = committed.num[t]
  /\ \A x \in TableIndexes[t] :
       Val(pHashTable[Db!HashOf(t, x)], recList) = committed.hash[Db!HashOf(t, x)]

\* How far the insert of worker w has come.
RingAt(w) ==
  LET t == job[w].table
      B == Part(t, committed.buff)
      a == job[w].slot
  IN  /\ a = <<t, committed.loc[t]>>
      /\ uiRecordLoc[t] = committed.loc[t]
      /\ uiRecordNum[t] = IF pc[w] \in {"fill", "find", "link", "unlock"} /\ B[a] # NoRecord
                          THEN committed.num[t] - 1 ELSE committed.num[t]
      /\ Part(t, pRecordBuff) = IF pc[w] \in {"find", "link", "unlock"}
                                THEN [B EXCEPT ![a] = job[w].data] ELSE B
      /\ pc[w] \in {"unlink", "rekey"} => B[a] # NoRecord
      /\ pc[w] # "fill" => todo[w] \subseteq TableIndexes[t]
      /\ pc[w] \in {"unlink", "rekey", "find", "link"} => todo[w] # {}
      /\ pc[w] = "unlock" => todo[w] = {}

StageOf(w, t, x) ==
  LET h == Db!HashOf(t, x)
  IN  IndexAt(pc[w], todo[w], held[w], pHashTable[h], recList, h, t, x,
              job[w].slot, job[w].data, Part(t, committed.buff), committed.hash[h])

Progress(w) ==
  /\ RingAt(w)
  /\ \A x \in TableIndexes[job[w].table] : StageOf(w, job[w].table, x)

IInv ==
  /\ WorkType /\ LockInv /\ MemInv /\ HeapInv
  /\ DbP!IInv
  /\ \A t \in Tables : tLock[t] = Free => Quiet(t)
  /\ \A w \in Workers : Inside(w) => Progress(w)
  /\ NoLeakedList

-----------------------------------------------------------------------------
(***************************************************************************)
(* From one stage to the next.                                             *)
(***************************************************************************)

\* Other heap cells and other tables' memory do not matter to an index.
LEMMA LookupPart ==
  ASSUME NEW ht, NEW rl, NEW h, NEW t, PtrOK(ht, rl, h, Db!Slots(t)), NEW buff, NEW x, NEW k
  PROVE  Db!Lookup(ht, Part(t, buff), x, k) = Db!Lookup(ht, buff, x, k)
BY DEF PtrOK, Db!Lookup, Db!FieldAt, Part

LEMMA ReplacePart ==
  ASSUME NEW ht, NEW rl, NEW h, NEW t, PtrOK(ht, rl, h, Db!Slots(t)), NEW buff, NEW x,
         NEW a \in Db!Slots(t), NEW l
  PROVE  Db!Replace(ht, Part(t, buff), x, a, l) = Db!Replace(ht, buff, x, a, l)
<1>1. Part(t, buff)[a] = buff[a]
  BY DEF Part
<1>2. \A k : Db!Lookup(ht, Part(t, buff), x, k) = Db!Lookup(ht, buff, x, k)
  BY LookupPart
<1> QED
  BY <1>1, <1>2 DEF Db!Replace, Db!FieldAt

LEMMA PtrFrame ==
  ASSUME NEW ht, NEW rl, NEW rl2, NEW h, NEW S, PtrOK(ht, rl, h, S),
         \A m \in DOMAIN rl : m[1] = h => m \in DOMAIN rl2 /\ rl2[m] = rl[m]
  PROVE  PtrOK(ht, rl2, h, S) /\ Val(ht, rl2) = Val(ht, rl)
<1>1. \A e \in ht : e.list \in DOMAIN rl2 /\ rl2[e.list] = rl[e.list]
  BY DEF PtrOK
<1>2. Val(ht, rl2) = Val(ht, rl)
  BY <1>1, ValFrame
<1> QED
  BY <1>1, <1>2 DEF PtrOK

\* The stage of an index does not depend on the lists of other indexes.
LEMMA StageFrame ==
  ASSUME NEW p, NEW td, NEW l, NEW ht, NEW rl, NEW rl2, NEW h, NEW S, NEW t, NEW x, NEW a, NEW data,
         NEW B, NEW H, PtrOK(ht, rl, h, S),
         \A m \in DOMAIN rl : m[1] = h => m \in DOMAIN rl2 /\ rl2[m] = rl[m],
         IndexAt(p, td, l, ht, rl, h, t, x, a, data, B, H)
  PROVE  IndexAt(p, td, l, ht, rl2, h, t, x, a, data, B, H)
<1>1. Val(ht, rl2) = Val(ht, rl)
  BY PtrFrame
<1>2. \A B1, G : Open(ht, rl, l, h, x, a, B1, G) => Open(ht, rl2, l, h, x, a, B1, G)
  BY <1>1 DEF Open
<1>3. \A B1, G : Linked(ht, rl, t, x, a, B1, G) => Linked(ht, rl2, t, x, a, B1, G)
  BY <1>1 DEF Linked
<1>4. ASSUME Cut(ht, rl, l, h, x, a, B, H)
      PROVE  Cut(ht, rl2, l, h, x, a, B, H)
  <2>1. PICK old : old = Db!ListAt(H, B, x, B[a][x])
    OBVIOUS
  <2>2. /\ l \in DOMAIN rl /\ l[1] = h /\ l[2] = B[a][x]
        /\ rl[l] = RemoveFirst(old, a)
        /\ \A e \in ht : e.hash = l[2] => e.list = l
        /\ Val(ht, [rl EXCEPT ![l] = old]) = H
    BY <1>4, <2>1 DEF Cut
  <2>3. l \in DOMAIN rl2 /\ rl2[l] = rl[l]
    BY <2>2
  <2>4. \A e \in ht : [rl2 EXCEPT ![l] = old][e.list] = [rl EXCEPT ![l] = old][e.list]
    BY <2>2, <2>3 DEF PtrOK
  <2>5. Val(ht, [rl2 EXCEPT ![l] = old]) = Val(ht, [rl EXCEPT ![l] = old])
    BY <2>4, ValFrame
  <2> QED
    BY <2>1, <2>2, <2>3, <2>5 DEF Cut
<1> QED
  BY <1>1, <1>2, <1>3, <1>4 DEF IndexAt

\* The index that kr_delete_record leaves is in order, also in the memory in
\* which the slot has been written.
LEMMA GoneOK ==
  ASSUME NEW H, NEW B, NEW x, NEW D, NEW a, NEW data, DbP!IndexOK(H, B, x, D),
         B[a] # NoRecord <=> a \in D, a \in D => B[a][x] \in Keys
  PROVE  DbP!IndexOK(Gone(H, B, x, a), [B EXCEPT ![a] = data], x, D \ {a})
<1>1. DbP!IndexOK(Gone(H, B, x, a), B, x, D \ {a})
  <2>1. CASE a \in D
    <3>1. Gone(H, B, x, a) = Db!IndexDel(H, B, x, a)
      BY <2>1 DEF Gone
    <3>2. Db!FieldAt(B, a, x) \in Keys
      BY <2>1 DEF Db!FieldAt
    <3> QED
      BY <2>1, <3>1, <3>2, DeletesRecord
  <2>2. CASE a \notin D
    <3>1. Gone(H, B, x, a) = H /\ D \ {a} = D
      BY <2>2 DEF Gone
    <3> QED
      BY <3>1
  <2> QED
    BY <2>1, <2>2
<1>2. \A b \in D \ {a} : [B EXCEPT ![a] = data][b] = B[b]
  OBVIOUS
<1> QED
  BY <1>1, <1>2, OtherRecords

\* Unlinking record a from the list of entry e leaves the index cut.
Unlinks(e, ht, rl, h, S, x, a, B) ==
  \A rl2 : rl2 = [rl EXCEPT ![e.list] = RemoveFirst(@, a)] =>
    /\ e.list \in DOMAIN rl /\ e.list \in ListIds /\ e.list[1] = h
    /\ HeapOK(rl2) /\ PtrOK(ht, rl2, h, S)
    /\ Cut(ht, rl2, e.list, h, x, a, B, Val(ht, rl))

\* kr_rebuild_index_del finds the list of the record, and unlinks it.
LEMMA UnlinkStage ==
  ASSUME NEW ht, NEW rl, NEW h, NEW S, NEW x, NEW a, NEW B, NEW D,
         PtrOK(ht, rl, h, S), HeapOK(rl), DbP!IndexOK(Val(ht, rl), B, x, D), a \in D
  PROVE  /\ Db!Lookup(ht, B, x, B[a][x]) # {}
         /\ \A e \in Db!Lookup(ht, B, x, B[a][x]) : Unlinks(e, ht, rl, h, S, x, a, B)
<1>1. PICK k, old, H : k = B[a][x] /\ H = Val(ht, rl) /\ old = Db!ListAt(H, B, x, k)
  OBVIOUS
<1>2. Db!Lookup(ht, B, x, k) # {}
  <2>1. PICK v \in H : a \in ToSet(v.list)
    BY <1>1, EntriesOf
  <2>2. v.hash = k
    BY <1>1, <2>1, EntriesOf DEF Db!FieldAt
  <2>3. PICK e \in ht : v = Cell(e, rl[e.list])
    BY <1>1 DEF Val
  <2>4. e.hash = k
    BY <2>2, <2>3 DEF Cell
  <2> QED
    BY <1>1, <2>4, FindsPointer
<1>3. old \in Seq(Db!Addr) /\ IsInjective(old) /\ ToSet(old) = {b \in D : Db!FieldAt(B, b, x) = k}
  BY <1>1, FindsList
<1>4. a \in ToSet(old)
  BY <1>1, <1>3 DEF Db!FieldAt
<1>5. RemoveFirst(old, a) \in Seq(Db!Addr)
  <2>1. old \in Seq(Db!Addr)
    BY <1>3
  <2> QED
    BY <1>3, <1>4, <2>1, RemoveFirstSet
<1>6. ASSUME NEW e \in Db!Lookup(ht, B, x, k), NEW rl2, rl2 = [rl EXCEPT ![e.list] = RemoveFirst(@, a)]
      PROVE  /\ e.list \in DOMAIN rl /\ e.list \in ListIds /\ e.list[1] = h
             /\ HeapOK(rl2) /\ PtrOK(ht, rl2, h, S)
             /\ Cut(ht, rl2, e.list, h, x, a, B, H)
  <2>1. PICK l : l = e.list
    OBVIOUS
  <2>2. /\ l \in DOMAIN rl /\ l[1] = h /\ l[2] = k /\ rl[l] = old
        /\ \A f \in ht : f.hash = k => f.list = l
    BY <1>1, <2>1, PointsToList DEF PointsTo
  <2>3. DOMAIN rl2 = DOMAIN rl /\ rl2[l] = RemoveFirst(old, a) /\ \A m \in DOMAIN rl : m # l => rl2[m] = rl[m]
    BY <1>6, <2>1, <2>2
  <2>4. HeapOK(rl2)
    BY <1>5, <2>2, <2>3 DEF HeapOK
  <2>5. PtrOK(ht, rl2, h, S)
    BY <2>3 DEF PtrOK
  <2>6. \A f \in ht : [rl2 EXCEPT ![l] = old][f.list] = rl[f.list]
    BY <2>2, <2>3 DEF PtrOK
  <2>7. Val(ht, [rl2 EXCEPT ![l] = old]) = H
    BY <1>1, <2>6, ValFrame
  <2>8. Cut(ht, rl2, l, h, x, a, B, H)
    BY <1>1, <2>2, <2>3, <2>7 DEF Cut
  <2> QED
    BY <2>1, <2>2, <2>4, <2>5, <2>8 DEF HeapOK
<1>7. \A e \in Db!Lookup(ht, B, x, k) : Unlinks(e, ht, rl, h, S, x, a, B)
  BY <1>1, <1>6 DEF Unlinks
<1> QED
  BY <1>1, <1>2, <1>7

\* What the worker holds between the two halves of kr_rebuild_index_del.
LEMMA CutFacts ==
  ASSUME NEW ht, NEW rl, NEW l, NEW h, NEW S, NEW x, NEW a, NEW B, NEW D, NEW H,
         PtrOK(ht, rl, h, S), Cut(ht, rl, l, h, x, a, B, H), DbP!IndexOK(H, B, x, D), a \in D
  PROVE  /\ rl[l] \in Seq(Db!Addr)
         /\ \A b \in ToSet(rl[l]) : b \in D /\ B[b][x] = B[a][x]
         /\ rl[l] # <<>> => Last(rl[l]) \in ToSet(rl[l])
         /\ PtrOK(ht, [rl EXCEPT ![l] = Db!ListAt(H, B, x, B[a][x])], h, S)
         /\ Db!IndexDel(H, B, x, a) =
                IF rl[l] = <<>> THEN H \ Db!Lookup(H, B, x, B[a][x])
                                ELSE Db!Replace(H, B, x, Last(rl[l]), rl[l])
<1>1. PICK k, old, rest : k = B[a][x] /\ old = Db!ListAt(H, B, x, k) /\ rest = rl[l]
  OBVIOUS
<1>2. l \in DOMAIN rl /\ rest = RemoveFirst(old, a)
  BY <1>1 DEF Cut
<1>3. old \in Seq(Db!Addr) /\ IsInjective(old) /\ ToSet(old) = {b \in D : Db!FieldAt(B, b, x) = k}
  BY <1>1, FindsList
<1>4. a \in ToSet(old)
  BY <1>1, <1>3 DEF Db!FieldAt
<1>5. rest \in Seq(Db!Addr) /\ ToSet(rest) = ToSet(old) \ {a}
  <2>1. old \in Seq(Db!Addr)
    BY <1>3
  <2> QED
    BY <1>2, <1>3, <1>4, <2>1, RemoveFirstSet
<1>6. \A b \in ToSet(rest) : b \in D /\ B[b][x] = k
  BY <1>3, <1>5 DEF Db!FieldAt
<1>7. rest # <<>> => Last(rest) \in ToSet(rest)
  <2>1. rest \in Seq(Db!Addr)
    BY <1>5
  <2> QED
    BY <2>1, SetOfList
<1>8. PtrOK(ht, [rl EXCEPT ![l] = old], h, S)
  BY DEF PtrOK
<1>9. Db!IndexDel(H, B, x, a) = IF rest = <<>> THEN H \ Db!Lookup(H, B, x, k)
                                              ELSE Db!Replace(H, B, x, Last(rest), rest)
  BY <1>1, <1>2, SameLists DEF Db!IndexDel, Db!FieldAt
<1> QED
  BY <1>1, <1>5, <1>6, <1>7, <1>8, <1>9

\* The key pointer moves to the last record of the list.
LEMMA MoveKeyStage ==
  ASSUME NEW ht, NEW rl, NEW l \in ListIds, NEW h, NEW S, NEW x, NEW a, NEW B, NEW D, NEW H,
         PtrOK(ht, rl, h, S), Cut(ht, rl, l, h, x, a, B, H), DbP!IndexOK(H, B, x, D), a \in D,
         D \subseteq S, S \subseteq Db!Addr, B[a][x] \in Keys, B[a] # NoRecord, rl[l] # <<>>
  PROVE  LET ht2 == Db!Replace(ht, B, x, Last(rl[l]), l)
         IN  /\ Val(ht2, rl) = Gone(H, B, x, a) /\ PtrOK(ht2, rl, h, S)
             /\ \A e \in ht : e \in ht2 \/ e.list = l
             /\ \E e \in ht2 : e.list = l
             /\ Last(rl[l]) \in S
<1>1. PICK old, rl1, b : /\ old = Db!ListAt(H, B, x, B[a][x]) /\ rl1 = [rl EXCEPT ![l] = old]
                         /\ b = Last(rl[l])
  OBVIOUS
<1>2. /\ l \in DOMAIN rl /\ l[1] = h /\ l[2] = B[a][x]
      /\ \A e \in ht : e.hash = l[2] => e.list = l
      /\ Val(ht, rl1) = H
  BY <1>1 DEF Cut
<1>3. /\ b \in D /\ Db!FieldAt(B, b, x) = B[a][x] /\ PtrOK(ht, rl1, h, S)
      /\ Db!IndexDel(H, B, x, a) = Db!Replace(H, B, x, b, rl[l])
  <2>1. /\ \A c \in ToSet(rl[l]) : c \in D /\ B[c][x] = B[a][x]
        /\ rl[l] # <<>> => Last(rl[l]) \in ToSet(rl[l])
        /\ PtrOK(ht, [rl EXCEPT ![l] = Db!ListAt(H, B, x, B[a][x])], h, S)
        /\ Db!IndexDel(H, B, x, a) =
             IF rl[l] = <<>> THEN H \ Db!Lookup(H, B, x, B[a][x])
                             ELSE Db!Replace(H, B, x, Last(rl[l]), rl[l])
    BY CutFacts
  <2> QED
    BY <1>1, <2>1 DEF Db!FieldAt
<1>4. DbP!IndexOK(Val(ht, rl1), B, x, D)
  BY <1>2
<1>5. \A m \in DOMAIN rl1 : m # l => m \in DOMAIN rl /\ rl[m] = rl1[m]
  BY <1>1
<1>6. b \in S /\ Db!FieldAt(B, b, x) \in Keys /\ l[2] = Db!FieldAt(B, b, x)
  BY <1>2, <1>3
<1>7. /\ Val(Db!Replace(ht, B, x, b, l), rl) = Db!Replace(Val(ht, rl1), B, x, b, rl[l])
      /\ PtrOK(Db!Replace(ht, B, x, b, l), rl, h, S)
      /\ \A e \in ht : e \in Db!Replace(ht, B, x, b, l) \/ e.hash = l[2]
      /\ \E e \in Db!Replace(ht, B, x, b, l) : e.list = l
  BY <1>2, <1>3, <1>4, <1>5, <1>6, ReplaceVal
<1> QED
  BY <1>1, <1>2, <1>3, <1>6, <1>7 DEF Gone

\* The entries ht2 have the value V and are those of ht, but for that of l.
Freed(ht2, ht, rl2, h, S, l, V) ==
  /\ Val(ht2, rl2) = V /\ PtrOK(ht2, rl2, h, S)
  /\ \A e \in ht : e \in ht2 \/ e.list = l

\* The empty list goes away with its entry.
LEMMA DropListStage ==
  ASSUME NEW ht, NEW rl, NEW rl2, NEW l, NEW h, NEW S, NEW x, NEW a, NEW B, NEW D, NEW H,
         PtrOK(ht, rl, h, S), Cut(ht, rl, l, h, x, a, B, H), DbP!IndexOK(H, B, x, D), a \in D,
         B[a] # NoRecord, rl[l] = <<>>,
         DOMAIN rl2 = DOMAIN rl \ {l}, \A m \in DOMAIN rl : m # l => rl2[m] = rl[m]
  PROVE  Freed(ht \ Db!Lookup(ht, B, x, B[a][x]), ht, rl2, h, S, l, Gone(H, B, x, a))
<1>1. PICK old, rl1, k : /\ k = B[a][x] /\ old = Db!ListAt(H, B, x, k) /\ rl1 = [rl EXCEPT ![l] = old]
  OBVIOUS
<1>2. /\ l \in DOMAIN rl /\ l[2] = k
      /\ \A e \in ht : e.hash = l[2] => e.list = l
      /\ Val(ht, rl1) = H
  BY <1>1 DEF Cut
<1>3. PtrOK(ht, rl1, h, S) /\ Db!IndexDel(H, B, x, a) = H \ Db!Lookup(H, B, x, k)
  <2>1. /\ PtrOK(ht, [rl EXCEPT ![l] = Db!ListAt(H, B, x, B[a][x])], h, S)
        /\ Db!IndexDel(H, B, x, a) =
             IF rl[l] = <<>> THEN H \ Db!Lookup(H, B, x, B[a][x])
                             ELSE Db!Replace(H, B, x, Last(rl[l]), rl[l])
    BY CutFacts
  <2> QED
    BY <1>1, <2>1
<1>4. \A m \in DOMAIN rl1 : m[2] # k => m \in DOMAIN rl2 /\ rl2[m] = rl1[m]
  BY <1>1, <1>2
<1>5. DbP!IndexOK(Val(ht, rl1), B, x, D)
  BY <1>2
<1>6. Dropped(ht \ Db!Lookup(ht, B, x, k), ht, rl2, h, S, k, H \ Db!Lookup(H, B, x, k))
  <2>1. PtrOK(ht, rl1, h, S)
    BY <1>3
  <2>2. Dropped(ht \ Db!Lookup(ht, B, x, k), ht, rl2, h, S, k,
                Val(ht, rl1) \ Db!Lookup(Val(ht, rl1), B, x, k))
    BY ONLY <1>4, <1>5, <2>1, DropVal
  <2> QED
    BY <1>2, <2>2
<1> QED
  BY <1>1, <1>2, <1>3, <1>6 DEF Gone, Dropped, Freed

\* kr_rebuild_index_ins finds the list of the key.
LEMMA FoundStage ==
  ASSUME NEW ht, NEW rl, NEW h, NEW S, NEW x, NEW a, NEW B, NEW D, NEW G,
         PtrOK(ht, rl, h, S), HeapOK(rl), Val(ht, rl) = G, DbP!IndexOK(G, B, x, D),
         NEW e \in Db!Lookup(ht, B, x, B[a][x])
  PROVE  Open(ht, rl, e.list, h, x, a, B, G) /\ e.list \in ListIds
<1>1. DbP!IndexOK(Val(ht, rl), B, x, D)
  OBVIOUS
<1>2. /\ e.list \in DOMAIN rl /\ e.list[1] = h /\ e.list[2] = B[a][x]
      /\ rl[e.list] = Db!ListAt(Val(ht, rl), B, x, B[a][x])
      /\ \A f \in ht : f.hash = B[a][x] => f.list = e.list
  <2>1. PICK k : k = B[a][x]
    OBVIOUS
  <2>2. e \in Db!Lookup(ht, B, x, k)
    BY <2>1
  <2>a. PointsTo(e, ht, rl, h, k, Db!ListAt(Val(ht, rl), B, x, k))
    BY <1>1, <2>2, PointsToList
  <2>3. /\ e.list \in DOMAIN rl /\ e.list[1] = h /\ e.list[2] = k
        /\ rl[e.list] = Db!ListAt(Val(ht, rl), B, x, k)
        /\ \A f \in ht : f.hash = k => f.list = e.list
    BY <2>a DEF PointsTo
  <2> QED
    BY <2>1, <2>3
<1> QED
  BY <1>2 DEF Open, HeapOK

\* There is none: it allocates one.
LEMMA NewListStage ==
  ASSUME NEW ht, NEW rl, NEW rl2, NEW l \in ListIds, NEW h, NEW S, NEW x, NEW a, NEW B, NEW D, NEW G,
         PtrOK(ht, rl, h, S), HeapOK(rl), Val(ht, rl) = G, DbP!IndexOK(G, B, x, D),
         Db!Lookup(ht, B, x, B[a][x]) = {},
         l \notin DOMAIN rl, l[1] = h, l[2] = B[a][x],
         DOMAIN rl2 = DOMAIN rl \cup {l}, rl2[l] = <<>>, \A m \in DOMAIN rl : rl2[m] = rl[m]
  PROVE  Open(ht, rl2, l, h, x, a, B, G) /\ HeapOK(rl2) /\ PtrOK(ht, rl2, h, S)
<1>1. DbP!IndexOK(Val(ht, rl), B, x, D)
  OBVIOUS
<1>2. Db!ListAt(Val(ht, rl), B, x, B[a][x]) = <<>> /\ \A e \in ht : e.hash # B[a][x]
  BY <1>1, PointsToList
<1>3. PtrOK(ht, rl2, h, S) /\ Val(ht, rl2) = Val(ht, rl)
  BY PtrFrame
<1>4. HeapOK(rl2)
  <2>1. <<>> \in Seq(Db!Addr)
    OBVIOUS
  <2> QED
    BY <2>1 DEF HeapOK
<1> QED
  BY <1>2, <1>3, <1>4 DEF Open

\* The heap rl2 is rl with record a at position p of list l.
LinksList(rl2, rl, l, a, p) ==
  /\ DOMAIN rl2 = DOMAIN rl /\ rl2[l] = InsertAt(rl[l], p, a)
  /\ \A m \in DOMAIN rl : m # l => rl2[m] = rl[m]

\* The entries ht2 are those of ht, but for that of l, which is in them.
Stores(ht2, ht, rl2, h, S, l) ==
  /\ PtrOK(ht2, rl2, h, S) /\ HeapOK(rl2)
  /\ \A e \in ht : e \in ht2 \/ e.list = l
  /\ \E e \in ht2 : e.list = l

\* The record goes into the list, and the list into the hash table.
LEMMA LinkStage ==
  ASSUME NEW ht, NEW rl, NEW rl2, NEW l \in ListIds, NEW h, NEW S, NEW t, NEW x, NEW a \in S, NEW B,
         NEW D, NEW G, S \subseteq Db!Addr, B[a][x] \in Keys,
         PtrOK(ht, rl, h, S), HeapOK(rl), Open(ht, rl, l, h, x, a, B, G), DbP!IndexOK(G, B, x, D),
         a \notin D, NEW p \in Db!Places(t, x, rl[l]), LinksList(rl2, rl, l, a, p)
  PROVE  LET ht2 == Db!Replace(ht, B, x, a, l)
         IN  Linked(ht2, rl2, t, x, a, B, G) /\ Stores(ht2, ht, rl2, h, S, l)
<1>1. PICK k, old : k = B[a][x] /\ old = rl[l]
  OBVIOUS
<1>2. /\ l \in DOMAIN rl /\ l[1] = h /\ l[2] = k /\ old = Db!ListAt(G, B, x, k)
      /\ \A e \in ht : e.hash = l[2] => e.list = l
      /\ Val(ht, rl) = G
  BY <1>1 DEF Open
<1>3. old \in Seq(Db!Addr) /\ IsInjective(old) /\ ToSet(old) = {b \in D : Db!FieldAt(B, b, x) = k}
  BY <1>2, FindsList
<1>4. p \in 1 .. Len(old) + 1
  <2>1. Len(old) \in Nat
    BY <1>3
  <2> QED
    BY <1>1, <2>1 DEF Db!Places
<1>5. InsertAt(old, p, a) \in Seq(Db!Addr)
  <2>1. old \in Seq(Db!Addr) /\ a \notin ToSet(old) /\ a \in Db!Addr
    BY <1>3
  <2>2. old \in Seq(Db!Addr)
    BY <2>1
  <2> QED
    BY <1>3, <1>4, <2>1, <2>2, InsertAtSet
<1>6. DOMAIN rl2 = DOMAIN rl /\ rl2[l] = InsertAt(old, p, a) /\ \A m \in DOMAIN rl : m # l => rl2[m] = rl[m]
  BY <1>1, <1>2 DEF LinksList
<1>7. HeapOK(rl2)
  BY <1>5, <1>6 DEF HeapOK
<1>8. DbP!IndexOK(Val(ht, rl), B, x, D) /\ Db!FieldAt(B, a, x) = k /\ k \in Keys
  BY <1>1, <1>2 DEF Db!FieldAt
<1>9. l \in DOMAIN rl2 /\ \A m \in DOMAIN rl : m # l => m \in DOMAIN rl2 /\ rl2[m] = rl[m]
  BY <1>2, <1>6
<1>10. /\ Val(Db!Replace(ht, B, x, a, l), rl2) = Db!Replace(Val(ht, rl), B, x, a, rl2[l])
       /\ PtrOK(Db!Replace(ht, B, x, a, l), rl2, h, S)
       /\ \A e \in ht : e \in Db!Replace(ht, B, x, a, l) \/ e.hash = l[2]
       /\ \E e \in Db!Replace(ht, B, x, a, l) : e.list = l
  <2>1. DbP!IndexOK(Val(ht, rl), B, x, D) /\ Db!FieldAt(B, a, x) \in Keys /\ l[2] = Db!FieldAt(B, a, x)
    BY <1>2, <1>8
  <2>2. DbP!IndexOK(Val(ht, rl), B, x, D)
    BY <2>1
  <2> QED
    <3>1. a \in S /\ l \in ListIds /\ S \subseteq Db!Addr /\ PtrOK(ht, rl, h, S) /\ l[1] = h
      BY <1>2
    <3> QED
      BY ONLY <1>9, <2>1, <2>2, <3>1, ReplaceVal
<1>11. Db!Replace(Val(ht, rl), B, x, a, rl2[l]) = Db!IndexIns(G, B, x, a, p)
  BY <1>2, <1>6, <1>8, SameLists DEF Db!IndexIns
<1>12. Linked(Db!Replace(ht, B, x, a, l), rl2, t, x, a, B, G)
  BY <1>1, <1>2, <1>10, <1>11 DEF Linked
<1> QED
  BY <1>2, <1>7, <1>10, <1>12 DEF Stores

-----------------------------------------------------------------------------
(***************************************************************************)
(* The schema and the published tables.                                    *)
(***************************************************************************)

LEMMA HashFacts ==
  ASSUME NEW t \in Tables, NEW x \in TableIndexes[t]
  PROVE  /\ Db!HashOf(t, x) \in Db!Hashes
         /\ t \in Db!HashOf(t, x).tables
         /\ Db!HashOf(t, x).id = x
         /\ x \in Nat
<1>1. Db!HashOf(t, x) \in Db!Hashes
  BY DEF Db!Hashes
<1>2. t \in Db!HashOf(t, x).tables
  BY DEF Db!HashOf
<1>3. Db!HashOf(t, x).id = x
  BY DEF Db!HashOf
<1>4. x \in Nat
  BY InsertAssumption
<1> QED
  BY <1>1, <1>2, <1>3, <1>4

\* A table and an index of it have a hash table to themselves.
LEMMA OwnHash ==
  ASSUME Unshared, NEW t \in Tables, NEW x \in TableIndexes[t], NEW u \in Tables, NEW y \in TableIndexes[u],
         Db!HashOf(t, x) = Db!HashOf(u, y)
  PROVE  t = u /\ x = y
<1>1. PICK h : h = Db!HashOf(t, x)
  OBVIOUS
<1>2. h \in Db!Hashes /\ t \in h.tables /\ h.id = x
  BY <1>1, HashFacts
<1>3. u \in h.tables /\ h.id = y
  BY <1>1, HashFacts
<1> QED
  BY <1>2, <1>3 DEF Unshared

LEMMA HashOfTable ==
  ASSUME NEW h \in Db!Hashes, NEW t \in h.tables
  PROVE  t \in Tables /\ h.id \in TableIndexes[t] /\ Db!HashOf(t, h.id) = h
<1>1. h \in DbP!Hashes
  BY SameDb
<1>2. t \in Tables /\ h.id \in TableIndexes[t] /\ DbP!HashOf(t, h.id) = h
  BY <1>1, Schema, DbP!HashOfTable
<1> QED
  BY <1>2, SameDb

LEMMA TableOfHash ==
  ASSUME NEW h \in Db!Hashes
  PROVE  \E t \in Tables : t \in h.tables
<1>1. PICK t \in Tables : \E x \in TableIndexes[t] : h = Db!HashOf(t, x)
  BY DEF Db!Hashes
<1> QED
  BY <1>1, HashFacts

LEMMA SlotFacts ==
  ASSUME NEW t \in Tables, NEW a \in Db!Slots(t)
  PROVE  a \in Db!Addr /\ a[1] = t /\ \A u : a \in Db!Slots(u) => u = t
BY DEF Db!Addr, Db!Slots

LEMMA AddrFacts ==
  ASSUME NEW a \in Db!Addr
  PROVE  a[1] \in Tables /\ a \in Db!Slots(a[1])
BY DEF Db!Addr, Db!Slots

\* The records of table t that memory B holds.
Stored(t, B) == {b \in Db!Slots(t) : B[b] # NoRecord}

\* What the invariant of KrDb says of one table.
LEMMA Published ==
  ASSUME Unshared, MemInv, DbP!IInv, NEW t \in Tables
  PROVE  LET B == Part(t, committed.buff)
         IN  /\ <<t, committed.loc[t]>> \in Db!Slots(t)
             /\ \A b \in Stored(t, B) : B[b] \in Db!RecordOf(t)
             /\ \A x \in TableIndexes[t] :
                  DbP!IndexOK(committed.hash[Db!HashOf(t, x)], B, x, Stored(t, B))
<1>1. PICK B : B = Part(t, committed.buff)
  OBVIOUS
<1>2. DbP!RingType /\ DbP!IndexInv
  BY DEF DbP!IInv
<1>3. <<t, committed.loc[t]>> \in Db!Slots(t)
  BY <1>2, InsertAssumption DEF DbP!RingType, Db!Slots
<1>4. \A b \in Db!Slots(t) : b \in Db!Addr /\ b[1] = t /\ B[b] = committed.buff[b]
  BY <1>1, SlotFacts DEF Part
<1>5. DbP!Live = {b \in Db!Addr : committed.buff[b] # NoRecord}
  BY SameDb DEF DbP!Live
<1>6. \A b \in Stored(t, B) : B[b] \in Db!RecordOf(t)
  BY <1>2, <1>4, <1>5, SameDb DEF DbP!RingType, Stored
<1>7. ASSUME NEW x \in TableIndexes[t]
      PROVE  DbP!IndexOK(committed.hash[Db!HashOf(t, x)], B, x, Stored(t, B))
  <2>1. PICK h : h = Db!HashOf(t, x)
    OBVIOUS
  <2>2. h \in Db!Hashes /\ t \in h.tables /\ h.id = x
    BY <2>1, HashFacts
  <2>3. \A u : u \in h.tables <=> u = t
    BY <2>2 DEF Unshared
  <2>4. DbP!Held(h) = Stored(t, B)
    BY <1>4, <1>5, <2>3, AddrFacts DEF DbP!Held, Stored
  <2>5. DbP!IndexOK(committed.hash[h], committed.buff, x, Stored(t, B))
    BY <1>2, <2>2, <2>4, SameDb DEF DbP!IndexInv
  <2>6. \A b \in Stored(t, B) : B[b] = committed.buff[b]
    BY <1>4 DEF Stored
  <2> QED
    BY <2>1, <2>5, <2>6, OtherRecords
<1> QED
  BY <1>1, <1>3, <1>6, <1>7

-----------------------------------------------------------------------------
(***************************************************************************)
(* A step of one worker leaves the others and their tables alone.          *)
(***************************************************************************)

Others(w, T) ==
  /\ \A v \in Workers \ {w} : /\ pc'[v] = pc[v] /\ job'[v] = job[v]
                              /\ todo'[v] = todo[v] /\ held'[v] = held[v]
  /\ \A u \in Tables \ T :
       /\ tLock'[u] = tLock[u]
       /\ Part(u, pRecordBuff') = Part(u, pRecordBuff)
       /\ uiRecordLoc'[u] = uiRecordLoc[u] /\ uiRecordNum'[u] = uiRecordNum[u]
       /\ Part(u, committed'.buff) = Part(u, committed.buff)
       /\ committed'.loc[u] = committed.loc[u] /\ committed'.num[u] = committed.num[u]
       /\ \A x \in TableIndexes[u] :
            /\ pHashTable'[Db!HashOf(u, x)] = pHashTable[Db!HashOf(u, x)]
            /\ committed'.hash[Db!HashOf(u, x)] = committed.hash[Db!HashOf(u, x)]
            /\ \A m \in DOMAIN recList :
                 m[1] = Db!HashOf(u, x) => m \in DOMAIN recList' /\ recList'[m] = recList[m]

LEMMA OthersKept ==
  ASSUME WorkType, LockInv, HeapInv, \A t \in Tables : tLock[t] = Free => Quiet(t),
         \A w \in Workers : Inside(w) => Progress(w),
         NEW w \in Workers, NEW T \in SUBSET Tables, Others(w, T), \A t \in T : tLock[t] \in {Free, w}
  PROVE  /\ \A u \in Tables \ T : tLock'[u] = Free => Quiet(u)'
         /\ \A v \in Workers \ {w} : Inside(v)' => Progress(v)' /\ tLock'[job'[v].table] = v
         /\ \A u \in Tables \ T : \A x \in TableIndexes[u] :
              PtrOK(pHashTable'[Db!HashOf(u, x)], recList', Db!HashOf(u, x), Db!Slots(u))
<1>1. ASSUME NEW u \in Tables \ T, NEW x \in TableIndexes[u]
      PROVE  /\ PtrOK(pHashTable'[Db!HashOf(u, x)], recList', Db!HashOf(u, x), Db!Slots(u))
             /\ Val(pHashTable'[Db!HashOf(u, x)], recList') = Val(pHashTable[Db!HashOf(u, x)], recList)
  <2>1. PICK h, ht : h = Db!HashOf(u, x) /\ ht = pHashTable[h]
    OBVIOUS
  <2>2. PtrOK(ht, recList, h, Db!Slots(u))
    BY <2>1 DEF HeapInv
  <2>3. pHashTable'[h] = ht /\ \A m \in DOMAIN recList : m[1] = h => m \in DOMAIN recList' /\ recList'[m] = recList[m]
    BY <2>1 DEF Others
  <2> QED
    BY <2>1, <2>2, <2>3, PtrFrame
<1>2. ASSUME NEW u \in Tables \ T, tLock'[u] = Free
      PROVE  Quiet(u)'
  <2>1. Quiet(u)
    BY <1>2 DEF Others
  <2> QED
    BY <1>1, <2>1 DEF Others, Quiet
<1>3. ASSUME NEW v \in Workers \ {w}, Inside(v)'
      PROVE  Progress(v)' /\ tLock'[job'[v].table] = v
  <2>1. pc'[v] = pc[v] /\ job'[v] = job[v] /\ todo'[v] = todo[v] /\ held'[v] = held[v]
    BY DEF Others
  <2>2. Inside(v) /\ Progress(v)
    BY <1>3, <2>1 DEF Inside
  <2>3. PICK u : u = job[v].table
    OBVIOUS
  <2>4. u \in Tables /\ tLock[u] = v
    BY <2>2, <2>3 DEF WorkType, LockInv, Inside
  <2>5. u \in Tables \ T
    BY <2>4, InsertAssumption
  <2>6. tLock'[job'[v].table] = v
    BY <2>1, <2>3, <2>4, <2>5 DEF Others
  <2>7. RingAt(v)'
    BY <2>1, <2>2, <2>3, <2>5 DEF Others, Progress, RingAt
  <2>8. ASSUME NEW x \in TableIndexes[u]
        PROVE  StageOf(v, u, x)'
    <3>1. PICK h, ht : h = Db!HashOf(u, x) /\ ht = pHashTable[h]
      OBVIOUS
    <3>2. PtrOK(ht, recList, h, Db!Slots(u))
      BY <2>4, <3>1 DEF HeapInv
    <3>3. \A m \in DOMAIN recList : m[1] = h => m \in DOMAIN recList' /\ recList'[m] = recList[m]
      BY <2>5, <3>1 DEF Others
    <3>4. IndexAt(pc[v], todo[v], held[v], ht, recList, h, u, x, job[v].slot, job[v].data,
                  Part(u, committed.buff), committed.hash[h])
      BY <2>2, <2>3, <3>1 DEF Progress, StageOf
    <3>5. IndexAt(pc[v], todo[v], held[v], ht, recList', h, u, x, job[v].slot, job[v].data,
                  Part(u, committed.buff), committed.hash[h])
      BY <3>2, <3>3, <3>4, StageFrame
    <3> QED
      BY <2>1, <2>5, <3>1, <3>5 DEF Others, StageOf
  <2> QED
    BY <2>1, <2>3, <2>6, <2>7, <2>8 DEF Progress
<1> QED
  BY <1>1, <1>2, <1>3

\* Every nonempty set of index numbers has a first.
LEMMA FirstIndex ==
  ASSUME NEW S, S \subseteq Nat, S # {}
  PROVE  Min(S) \in S
<1>1. PICK R : R = {ss \in Nat \X Nat : ss[1] < ss[2]}
  OBVIOUS
<1>2. IsWellFoundedOn(R, Nat)
  BY <1>1, NatLessThanWellFounded DEF OpToRel
<1>3. PICK x \in S : \A y \in S : ~ (<<y, x>> \in R)
  BY <1>2, WFMin, Zenon
<1>4. \A y \in S : x <= y
  <2> SUFFICES ASSUME NEW y \in S, ~ (x <= y)
               PROVE  FALSE
    OBVIOUS
  <2>1. <<y, x>> \in Nat \X Nat /\ <<y, x>>[1] < <<y, x>>[2]
    OBVIOUS
  <2> QED
    BY <1>1, <1>3, <2>1
<1> QED
  BY <1>4 DEF Min

\* Worker w is inserting d into slot a of table t, whose published memory is B.
At(w, t, a, d, B) ==
  /\ t = job[w].table /\ a = job[w].slot /\ d = job[w].data /\ B = Part(t, committed.buff)
  /\ t \in Tables /\ tLock[t] = w /\ a \in Db!Slots(t) /\ a \in Db!Addr
  /\ d \in Db!RecordOf(t)
  /\ B[a] # NoRecord <=> a \in Stored(t, B)
  /\ B[a] # NoRecord => B[a] \in Db!RecordOf(t)
  /\ \A x \in TableIndexes[t] :
       LET h == Db!HashOf(t, x)
       IN  /\ DbP!IndexOK(committed.hash[h], B, x, Stored(t, B))
           /\ PtrOK(pHashTable[h], recList, h, Db!Slots(t))
           /\ IndexAt(pc[w], todo[w], held[w], pHashTable[h], recList, h, t, x, a, d, B, committed.hash[h])

LEMMA Inserting ==
  ASSUME Unshared, IInv, NEW w \in Workers, Inside(w)
  PROVE  RingAt(w) /\ \E t, a, d, B : At(w, t, a, d, B)
<1>1. PICK t, a, d, B : t = job[w].table /\ a = job[w].slot /\ d = job[w].data /\ B = Part(t, committed.buff)
  OBVIOUS
<1>2. /\ WorkType /\ LockInv /\ MemInv /\ HeapInv /\ DbP!IInv /\ Progress(w)
  BY DEF IInv
<1>3. pc[w] # "idle"
  BY DEF Inside
<1>4. t \in Tables /\ tLock[t] = w /\ d \in Db!RecordOf(t)
  BY <1>1, <1>2, <1>3 DEF WorkType, LockInv
<1>5. RingAt(w) /\ \A x \in TableIndexes[t] : StageOf(w, t, x)
  BY <1>1, <1>2 DEF Progress
<1>6. /\ <<t, committed.loc[t]>> \in Db!Slots(t)
      /\ \A b \in Stored(t, B) : B[b] \in Db!RecordOf(t)
      /\ \A x \in TableIndexes[t] : DbP!IndexOK(committed.hash[Db!HashOf(t, x)], B, x, Stored(t, B))
  BY <1>1, <1>2, <1>4, Published
<1>7. a = <<t, committed.loc[t]>>
  BY <1>1, <1>5 DEF RingAt
<1>8. a \in Db!Slots(t) /\ a \in Db!Addr
  BY <1>4, <1>6, <1>7, SlotFacts
<1>9. B[a] # NoRecord <=> a \in Stored(t, B)
  BY <1>8 DEF Stored
<1>10. ASSUME NEW x \in TableIndexes[t], NEW h, h = Db!HashOf(t, x)
       PROVE  /\ DbP!IndexOK(committed.hash[h], B, x, Stored(t, B))
              /\ PtrOK(pHashTable[h], recList, h, Db!Slots(t))
              /\ IndexAt(pc[w], todo[w], held[w], pHashTable[h], recList, h, t, x, a, d, B, committed.hash[h])
  <2>1. DbP!IndexOK(committed.hash[h], B, x, Stored(t, B))
    BY <1>6, <1>10
  <2>2. PtrOK(pHashTable[h], recList, h, Db!Slots(t))
    BY <1>2, <1>4, <1>10 DEF HeapInv
  <2>3. StageOf(w, t, x)
    BY <1>5
  <2> QED
    BY <1>1, <1>10, <2>1, <2>2, <2>3 DEF StageOf
<1>11. At(w, t, a, d, B)
  BY <1>1, <1>4, <1>6, <1>8, <1>9, <1>10 DEF At
<1> QED
  BY <1>5, <1>11

\* The step of w changes at most index x of table t and the lists of it.
OnlyIndex(w, t, x) ==
  /\ \A g \in Db!Hashes : g # Db!HashOf(t, x) => pHashTable'[g] = pHashTable[g]
  /\ \A m \in DOMAIN recList : m[1] # Db!HashOf(t, x) => m \in DOMAIN recList' /\ recList'[m] = recList[m]
  /\ \A v \in Workers \ {w} : pc'[v] = pc[v] /\ todo'[v] = todo[v] /\ held'[v] = held[v]
  /\ \A u \in Tables \ {t} : uiRecordNum'[u] = uiRecordNum[u]
  /\ UNCHANGED <<pRecordBuff, uiRecordLoc, tLock, committed, job>>

LEMMA OtherIndexes ==
  ASSUME Unshared, NEW w, NEW t, NEW a, NEW d, NEW B, At(w, t, a, d, B), NEW x \in TableIndexes[t],
         OnlyIndex(w, t, x)
  PROVE  /\ Others(w, {t})
         /\ \A y \in TableIndexes[t] : y # x =>
              LET g == Db!HashOf(t, y)
              IN  /\ PtrOK(pHashTable'[g], recList', g, Db!Slots(t))
                  /\ IndexAt(pc[w], todo[w], held[w], pHashTable'[g], recList', g, t, y, a, d, B, committed'.hash[g])
<1>0. t \in Tables
  BY DEF At
<1>1. \A u \in Tables \ {t} : \A y \in TableIndexes[u] :
        Db!HashOf(u, y) \in Db!Hashes /\ Db!HashOf(u, y) # Db!HashOf(t, x)
  BY <1>0, HashFacts, OwnHash
<1>2. Others(w, {t})
  BY <1>1 DEF OnlyIndex, Others
<1>3. ASSUME NEW y \in TableIndexes[t], y # x, NEW g, g = Db!HashOf(t, y)
      PROVE  /\ PtrOK(pHashTable'[g], recList', g, Db!Slots(t))
             /\ IndexAt(pc[w], todo[w], held[w], pHashTable'[g], recList', g, t, y, a, d, B, committed'.hash[g])
  <2>1. g \in Db!Hashes /\ g # Db!HashOf(t, x)
    BY <1>0, <1>3, HashFacts, OwnHash
  <2>2. PICK ht : ht = pHashTable[g]
    OBVIOUS
  <2>3. pHashTable'[g] = ht /\ committed' = committed
    BY <2>1, <2>2 DEF OnlyIndex
  <2>4. \A m \in DOMAIN recList : m[1] = g => m \in DOMAIN recList' /\ recList'[m] = recList[m]
    BY <2>1 DEF OnlyIndex
  <2>5. PtrOK(ht, recList, g, Db!Slots(t))
    BY <1>3, <2>2 DEF At
  <2>6. IndexAt(pc[w], todo[w], held[w], ht, recList, g, t, y, a, d, B, committed.hash[g])
    BY <1>3, <2>2 DEF At
  <2>7. PtrOK(ht, recList', g, Db!Slots(t))
    BY <2>4, <2>5, PtrFrame
  <2>8. IndexAt(pc[w], todo[w], held[w], ht, recList', g, t, y, a, d, B, committed.hash[g])
    BY <2>4, <2>5, <2>6, StageFrame
  <2> QED
    BY <2>3, <2>7, <2>8
<1> QED
  BY <1>2, <1>3

\* The step of w handles list l; l is stored, held or freed after it, and no
\* entry of another list goes away.
LEMMA NothingLeaks ==
  ASSUME NoLeakedList, MemInv, MemInv', NEW w \in Workers, NEW l, NEW h \in Db!Hashes,
         \A g \in Db!Hashes : g # h => pHashTable'[g] = pHashTable[g],
         \A v \in Workers \ {w} : pc'[v] = pc[v] /\ held'[v] = held[v],
         pc[w] \in {"link", "rekey"} => held[w] = l,
         \A m \in DOMAIN recList' : m \in DOMAIN recList \/ m = l,
         \A e \in pHashTable[h] : e \in pHashTable'[h] \/ e.list = l,
         l \in DOMAIN recList' => \/ \E e \in pHashTable'[h] : e.list = l
                                  \/ pc'[w] \in {"link", "rekey"} /\ held'[w] = l
  PROVE  NoLeakedList'
<1>1. DOMAIN pHashTable = Db!Hashes /\ DOMAIN pHashTable' = Db!Hashes
  BY DEF MemInv
<1>2. ASSUME NEW m \in DOMAIN recList'
      PROVE  \/ \E g \in Db!Hashes : \E e \in pHashTable'[g] : e.list = m
             \/ \E v \in Workers : pc'[v] \in {"link", "rekey"} /\ held'[v] = m
  <2>1. CASE m = l
    BY <2>1
  <2>2. CASE m # l
    <3>1. \/ \E g \in Db!Hashes : \E e \in pHashTable[g] : e.list = m
          \/ \E v \in Workers : pc[v] \in {"link", "rekey"} /\ held[v] = m
      BY <1>1, <2>2 DEF NoLeakedList
    <3>2. ASSUME NEW g \in Db!Hashes, NEW e \in pHashTable[g], e.list = m
          PROVE  e \in pHashTable'[g]
      BY <2>2, <3>2
    <3>3. ASSUME NEW v \in Workers, pc[v] \in {"link", "rekey"}, held[v] = m
          PROVE  v # w
      BY <2>2, <3>3
    <3> QED
      BY <3>1, <3>2, <3>3
  <2> QED
    BY <2>1, <2>2
<1> QED
  BY <1>1, <1>2 DEF NoLeakedList

\* What a step of w that concerns the tables T has to show.
LEMMA Assemble ==
  ASSUME IInv, NEW w \in Workers, NEW T \in SUBSET Tables, \A t \in T : tLock[t] \in {Free, w},
         Others(w, T), WorkType', MemInv', DbP!IInv', NoLeakedList', HeapOK(recList)',
         Inside(w)' => tLock'[job'[w].table] = w /\ Progress(w)',
         \A t \in T : /\ tLock'[t] = Free => Quiet(t)'
                      /\ \A x \in TableIndexes[t] :
                           PtrOK(pHashTable'[Db!HashOf(t, x)], recList', Db!HashOf(t, x), Db!Slots(t))
  PROVE  IInv'
<1>1. /\ WorkType /\ LockInv /\ HeapInv
      /\ \A t \in Tables : tLock[t] = Free => Quiet(t)
      /\ \A v \in Workers : Inside(v) => Progress(v)
  BY DEF IInv
<1>2. /\ \A u \in Tables \ T : tLock'[u] = Free => Quiet(u)'
      /\ \A v \in Workers \ {w} : Inside(v)' => Progress(v)' /\ tLock'[job'[v].table] = v
      /\ \A u \in Tables \ T : \A x \in TableIndexes[u] :
           PtrOK(pHashTable'[Db!HashOf(u, x)], recList', Db!HashOf(u, x), Db!Slots(u))
  BY <1>1, OthersKept
<1>3. LockInv'
  BY <1>2 DEF LockInv
<1>4. HeapInv'
  BY <1>2 DEF HeapInv
<1>5. \A t \in Tables : tLock'[t] = Free => Quiet(t)'
  BY <1>2
<1>6. \A v \in Workers : Inside(v)' => Progress(v)'
  BY <1>2
<1> QED
  BY <1>3, <1>4, <1>5, <1>6 DEF IInv

-----------------------------------------------------------------------------
(***************************************************************************)
(* The steps of an insert.                                                 *)
(***************************************************************************)

\* The worker goes from step p to step p2 of the loop over the indexes.
Shift(p, td, p2, td2) ==
  \/ p = "unlink" /\ p2 = "rekey" /\ td2 = td
  \/ p = "rekey" /\ td2 = td \ {Min(td)} /\ p2 = IF td2 = {} THEN "fill" ELSE "unlink"
  \/ p = "find" /\ p2 = "link" /\ td2 = td
  \/ p = "link" /\ td2 = td \ {Min(td)} /\ p2 = IF td2 = {} THEN "unlock" ELSE "find"

\* That does not move the indexes other than the current one.
LEMMA ShiftOther ==
  ASSUME NEW p, NEW td, NEW p2, NEW td2, Shift(p, td, p2, td2), NEW l, NEW l2, NEW ht, NEW rl, NEW h,
         NEW t, NEW x, x # Min(td), NEW a, NEW data, NEW B, NEW H,
         IndexAt(p, td, l, ht, rl, h, t, x, a, data, B, H)
  PROVE  IndexAt(p2, td2, l2, ht, rl, h, t, x, a, data, B, H)
<1>1. CASE p = "unlink" /\ p2 = "rekey" /\ td2 = td
  BY <1>1 DEF IndexAt
<1>2. CASE p = "rekey" /\ td2 = td \ {Min(td)} /\ p2 = IF td2 = {} THEN "fill" ELSE "unlink"
  BY <1>2 DEF IndexAt
<1>3. CASE p = "find" /\ p2 = "link" /\ td2 = td
  BY <1>3 DEF IndexAt
<1>4. CASE p = "link" /\ td2 = td \ {Min(td)} /\ p2 = IF td2 = {} THEN "unlock" ELSE "find"
  BY <1>4 DEF IndexAt
<1> QED
  BY <1>1, <1>2, <1>3, <1>4 DEF Shift

\* A worker that is between two halves holds a list of its own index.
LEMMA HoldsList ==
  ASSUME Unshared, IInv, NEW w \in Workers, pc[w] \in {"rekey", "link"}
  PROVE  /\ held[w] \in DOMAIN recList /\ held[w] \in ListIds
         /\ tLock[job[w].table] = w /\ job[w].table \in Tables
         /\ \E x \in TableIndexes[job[w].table] : held[w][1] = Db!HashOf(job[w].table, x)
<1>1. Inside(w)
  BY DEF Inside
<1>2. RingAt(w)
  BY <1>1, Inserting
<1>3. PICK t, a, d, B : At(w, t, a, d, B)
  BY <1>1, Inserting
<1>4. t = job[w].table /\ t \in Tables /\ tLock[t] = w
  BY <1>3 DEF At
<1>5. PICK x : x = Min(todo[w])
  OBVIOUS
<1>6. x \in todo[w] /\ x \in TableIndexes[t]
  <2>1. todo[w] \subseteq Nat /\ todo[w] # {} /\ todo[w] \subseteq TableIndexes[t]
    BY <1>2, <1>4 DEF RingAt, IInv, WorkType
  <2> QED
    BY <1>5, <2>1, FirstIndex
<1>7. PICK h, ht, H : h = Db!HashOf(t, x) /\ ht = pHashTable[h] /\ H = committed.hash[h]
  OBVIOUS
<1>8. IndexAt(pc[w], todo[w], held[w], ht, recList, h, t, x, a, d, B, H)
  BY <1>3, <1>6, <1>7 DEF At
<1>9. held[w] \in DOMAIN recList /\ held[w][1] = h
  <2>1. CASE pc[w] = "rekey"
    <3>1. Cut(ht, recList, held[w], h, x, a, B, H)
      BY <1>5, <1>6, <1>8, <2>1 DEF IndexAt
    <3> QED
      BY <3>1 DEF Cut
  <2>2. CASE pc[w] = "link"
    <3>1. Open(ht, recList, held[w], h, x, a, [B EXCEPT ![a] = d], Gone(H, B, x, a))
      BY <1>5, <1>6, <1>8, <2>2 DEF IndexAt
    <3> QED
      BY <3>1 DEF Open
  <2> QED
    BY <2>1, <2>2
<1>10. held[w] \in ListIds
  BY <1>9 DEF IInv, HeapInv, HeapOK
<1> QED
  BY <1>4, <1>6, <1>7, <1>9, <1>10

\* A key without an entry has no list in the heap.
LEMMA NoListOfKey ==
  ASSUME Unshared, IInv, NEW w \in Workers, pc[w] = "find", NEW t \in Tables, t = job[w].table,
         NEW x \in TableIndexes[t], NEW h, h = Db!HashOf(t, x), NEW k,
         \A e \in pHashTable[h] : e.hash # k
  PROVE  \A m \in DOMAIN recList : m[1] = h => m[2] # k
<1> SUFFICES ASSUME NEW m \in DOMAIN recList, m[1] = h, m[2] = k
             PROVE  FALSE
  OBVIOUS
<1>1. DOMAIN pHashTable = Db!Hashes
  BY DEF IInv, MemInv
<1>2. ASSUME NEW g \in Db!Hashes, NEW e \in pHashTable[g], e.list = m
      PROVE  FALSE
  <2>1. PICK u \in Tables : u \in g.tables
    BY TableOfHash
  <2>2. g.id \in TableIndexes[u] /\ Db!HashOf(u, g.id) = g
    BY <2>1, HashOfTable
  <2>3. PtrOK(pHashTable[g], recList, g, Db!Slots(u))
    BY <2>2 DEF IInv, HeapInv
  <2>4. e.list[1] = g /\ e.list[2] = e.hash
    BY <1>2, <2>3 DEF PtrOK
  <2> QED
    BY <1>2, <2>4
<1>3. ASSUME NEW v \in Workers, pc[v] \in {"link", "rekey"}, held[v] = m
      PROVE  FALSE
  <2>1. /\ tLock[job[v].table] = v /\ job[v].table \in Tables
        /\ \E y \in TableIndexes[job[v].table] : m[1] = Db!HashOf(job[v].table, y)
    BY <1>3, HoldsList
  <2>2. job[v].table = t
    <3>1. PICK u \in Tables : u = job[v].table
      BY <2>1
    <3>2. PICK y \in TableIndexes[u] : h = Db!HashOf(u, y)
      BY <2>1, <3>1
    <3>3. Db!HashOf(t, x) = Db!HashOf(u, y)
      BY <3>2
    <3> QED
      BY <3>1, <3>3, OwnHash
  <2>3. tLock[t] = w
    BY DEF IInv, LockInv, Inside
  <2> QED
    BY <1>3, <2>1, <2>2, <2>3
<1> QED
  BY <1>1, <1>2, <1>3 DEF IInv, NoLeakedList

\* The step of w assigns these values.
Moves(w, t, h, p2, td2, l2, n, ht2) ==
  /\ pc' = [pc EXCEPT ![w] = p2] /\ todo' = [todo EXCEPT ![w] = td2] /\ held' = [held EXCEPT ![w] = l2]
  /\ uiRecordNum' = [uiRecordNum EXCEPT ![t] = n] /\ pHashTable' = [pHashTable EXCEPT ![h] = ht2]
  /\ UNCHANGED <<pRecordBuff, uiRecordLoc, tLock, job, committed>>

\* Of the lists of other hash tables it touches none, and it handles list l.
Handles(w, h, l, p2, l2, ht2) ==
  /\ \A m \in DOMAIN recList : m[1] # h => m \in DOMAIN recList' /\ recList'[m] = recList[m]
  /\ \A m \in DOMAIN recList' : m \in DOMAIN recList \/ m = l
  /\ pc[w] \in {"link", "rekey"} => held[w] = l
  /\ \A e \in pHashTable[h] : e \in ht2 \/ e.list = l
  /\ l \in DOMAIN recList' => (\E e \in ht2 : e.list = l) \/ (p2 \in {"link", "rekey"} /\ l2 = l)

\* A step of the loop over the indexes: it moves index x of table t on, to
\* entries ht2, and touches no list but l.
LEMMA IndexStep ==
  ASSUME Unshared, IInv, NEW w \in Workers, Inside(w), NEW t, NEW a, NEW d, NEW B, At(w, t, a, d, B),
         NEW x \in TableIndexes[t], x = Min(todo[w]), NEW h, h = Db!HashOf(t, x), NEW l,
         NEW p2, NEW td2, NEW l2 \in ListIds \cup {Free}, NEW n \in Int, NEW ht2,
         Shift(pc[w], todo[w], p2, td2),
         Moves(w, t, h, p2, td2, l2, n, ht2), Handles(w, h, l, p2, l2, ht2),
         n = IF p2 \in {"fill", "find", "link", "unlock"} /\ B[a] # NoRecord
             THEN committed.num[t] - 1 ELSE committed.num[t],
         HeapOK(recList'), PtrOK(ht2, recList', h, Db!Slots(t)),
         IndexAt(p2, td2, l2, ht2, recList', h, t, x, a, d, B, committed.hash[h])
  PROVE  IInv'
<1> USE DEF Moves, Handles
<1>1. /\ WorkType /\ LockInv /\ MemInv /\ HeapInv /\ DbP!IInv /\ NoLeakedList
  BY DEF IInv
<1>2. RingAt(w)
  BY Inserting
<1>3. /\ t = job[w].table /\ t \in Tables /\ tLock[t] = w /\ a = job[w].slot /\ d = job[w].data
      /\ B = Part(t, committed.buff)
  BY DEF At
<1>4. h \in Db!Hashes
  BY <1>3, HashFacts
<1>5. p2 \in {"rekey", "fill", "unlink", "link", "unlock", "find"} /\ td2 \subseteq todo[w]
  BY DEF Shift
<1>6. /\ pc'[w] = p2 /\ todo'[w] = td2 /\ held'[w] = l2
      /\ \A v \in Workers \ {w} : pc'[v] = pc[v] /\ todo'[v] = todo[v] /\ held'[v] = held[v]
  BY <1>1 DEF WorkType
<1>7. /\ uiRecordNum'[t] = n /\ \A u \in Tables \ {t} : uiRecordNum'[u] = uiRecordNum[u]
      /\ uiRecordNum' \in [Tables -> Int]
  BY <1>1, <1>3 DEF MemInv
<1>8. /\ pHashTable'[h] = ht2 /\ \A g \in Db!Hashes : g # h => pHashTable'[g] = pHashTable[g]
      /\ pHashTable' \in [Db!Hashes -> SUBSET PtrEntry]
  BY <1>1, <1>4 DEF MemInv, PtrOK
<1>9. MemInv'
  BY <1>1, <1>7, <1>8 DEF MemInv
<1>10. WorkType'
  <2>1. pc' \in [Workers -> Points]
    BY <1>1, <1>5 DEF WorkType, Points
  <2>2. todo' \in [Workers -> SUBSET Nat]
    BY <1>1, <1>5 DEF WorkType
  <2>3. held' \in [Workers -> ListIds \cup {Free}]
    BY <1>1 DEF WorkType
  <2>4. \A v \in Workers : pc'[v] # "idle" => pc[v] # "idle"
    BY <1>6 DEF Inside
  <2> QED
    BY <1>1, <2>1, <2>2, <2>3, <2>4 DEF WorkType
<1>11. OnlyIndex(w, t, x)
  BY <1>6, <1>7, <1>8 DEF OnlyIndex
<1>12. /\ Others(w, {t})
       /\ \A y \in TableIndexes[t] : y # x =>
            LET g == Db!HashOf(t, y)
            IN  /\ PtrOK(pHashTable'[g], recList', g, Db!Slots(t))
                /\ IndexAt(pc[w], todo[w], held[w], pHashTable'[g], recList', g, t, y, a, d, B, committed'.hash[g])
  BY <1>11, OtherIndexes
<1>13. ASSUME NEW y \in TableIndexes[t]
       PROVE  StageOf(w, t, y)'
  <2>1. PICK g : g = Db!HashOf(t, y)
    OBVIOUS
  <2>2. IndexAt(p2, td2, l2, pHashTable'[g], recList', g, t, y, a, d, B, committed'.hash[g])
    <3>1. CASE y = x
      BY <1>8, <2>1, <3>1
    <3>2. CASE y # x
      <4>1. IndexAt(pc[w], todo[w], held[w], pHashTable'[g], recList', g, t, y, a, d, B, committed'.hash[g])
        BY <1>12, <2>1, <3>2
      <4>2. y # Min(todo[w])
        BY <3>2
      <4> QED
        BY <4>1, <4>2, ShiftOther
    <3> QED
      BY <3>1, <3>2
  <2> QED
    BY <1>3, <1>6, <2>1, <2>2 DEF StageOf
<1>14. RingAt(w)'
  <2>1. /\ a = <<t, committed.loc[t]>>
        /\ uiRecordLoc[t] = committed.loc[t]
        /\ Part(t, pRecordBuff) = IF pc[w] \in {"find", "link", "unlock"}
                                  THEN [B EXCEPT ![a] = d] ELSE B
        /\ pc[w] \in {"unlink", "rekey"} => B[a] # NoRecord
        /\ pc[w] # "fill" => todo[w] \subseteq TableIndexes[t]
        /\ pc[w] \in {"unlink", "rekey", "find", "link"} => todo[w] # {}
    BY <1>2, <1>3 DEF RingAt
  <2>2. /\ Part(t, pRecordBuff) = IF p2 \in {"find", "link", "unlock"} THEN [B EXCEPT ![a] = d] ELSE B
        /\ p2 \in {"unlink", "rekey"} => B[a] # NoRecord
        /\ p2 # "fill" => td2 \subseteq TableIndexes[t]
        /\ p2 \in {"unlink", "rekey", "find", "link"} => td2 # {}
        /\ p2 = "unlock" => td2 = {}
    BY <2>1 DEF Shift
  <2> QED
    BY <1>3, <1>6, <1>7, <2>1, <2>2 DEF RingAt
<1>15. Progress(w)'
  BY <1>3, <1>13, <1>14 DEF Progress
<1>16. \A y \in TableIndexes[t] : PtrOK(pHashTable'[Db!HashOf(t, y)], recList', Db!HashOf(t, y), Db!Slots(t))
  BY <1>8, <1>12
<1>17. NoLeakedList'
  BY <1>1, <1>4, <1>6, <1>8, <1>9, NothingLeaks
<1>18. DbP!IInv'
  <2>1. UNCHANGED Db!vars
    BY DEF Db!vars
  <2> QED
    BY <1>1, <2>1, PublishedStep
<1>19. tLock'[t] = w /\ tLock'[t] # Free
  BY <1>3, InsertAssumption
<1> QED
  <2>1. {t} \in SUBSET Tables /\ \A u \in {t} : tLock[u] \in {Free, w}
    BY <1>3
  <2>2. \A u \in {t} : /\ tLock'[u] = Free => Quiet(u)'
                       /\ \A y \in TableIndexes[u] :
                            PtrOK(pHashTable'[Db!HashOf(u, y)], recList', Db!HashOf(u, y), Db!Slots(u))
    BY <1>16, <1>19
  <2>3. tLock'[job'[w].table] = w
    BY <1>3
  <2> QED
    BY <1>9, <1>10, <1>12, <1>15, <1>17, <1>18, <2>1, <2>2, <2>3, Assemble

\* Worker w is at index x of table t, in hash table h: ht is the hash table
\* now, H as published, M the memory of the table now, n the count now.
Doing(w, t, a, d, B, x, h, ht, H, M, n) ==
  /\ At(w, t, a, d, B) /\ Inside(w)
  /\ x = Min(todo[w]) /\ x \in todo[w] /\ x \in TableIndexes[t]
  /\ Current(w) = x /\ JobHash(w) = h /\ h = Db!HashOf(t, x) /\ h \in Db!Hashes
  /\ ht = pHashTable[h] /\ H = committed.hash[h]
  /\ M = Part(t, pRecordBuff) /\ M = IF pc[w] \in {"find", "link"} THEN [B EXCEPT ![a] = d] ELSE B
  /\ Found(w, pRecordBuff) = Db!Lookup(ht, M, x, M[a][x])
  /\ \A b \in Db!Slots(t) : \A l : Db!Replace(ht, pRecordBuff, x, b, l) = Db!Replace(ht, M, x, b, l)
  /\ DbP!IndexOK(H, B, x, Stored(t, B)) /\ PtrOK(ht, recList, h, Db!Slots(t)) /\ HeapOK(recList)
  /\ IndexAt(pc[w], todo[w], held[w], ht, recList, h, t, x, a, d, B, H)
  /\ n = uiRecordNum[t] /\ n \in Int
  /\ n = IF pc[w] \in {"find", "link"} /\ B[a] # NoRecord THEN committed.num[t] - 1 ELSE committed.num[t]
  /\ pc[w] \in {"unlink", "rekey"} => B[a] # NoRecord
  /\ B[a] # NoRecord => B[a][x] \in Keys
  /\ pc[w] \in {"find", "link"} => M[a] = d
  /\ d[x] \in Keys

LEMMA IsDoing ==
  ASSUME Unshared, IInv, NEW w \in Workers, pc[w] \in {"unlink", "rekey", "find", "link"}
  PROVE  \E t, a, d, B, x, h, ht, H, M, n : Doing(w, t, a, d, B, x, h, ht, H, M, n)
<1>1. Inside(w)
  BY DEF Inside
<1>2. RingAt(w)
  BY <1>1, Inserting
<1>3. PICK t, a, d, B : At(w, t, a, d, B)
  BY <1>1, Inserting
<1>4. /\ t = job[w].table /\ t \in Tables /\ a = job[w].slot /\ d = job[w].data
      /\ B = Part(t, committed.buff) /\ a \in Db!Slots(t) /\ a \in Db!Addr /\ d \in Db!RecordOf(t)
      /\ B[a] # NoRecord => B[a] \in Db!RecordOf(t)
  BY <1>3 DEF At
<1>5. WorkType /\ MemInv /\ HeapInv
  BY DEF IInv
<1>6. /\ Part(t, pRecordBuff) = IF pc[w] \in {"find", "link"} THEN [B EXCEPT ![a] = d] ELSE B
      /\ uiRecordNum[t] = IF pc[w] \in {"find", "link"} /\ B[a] # NoRecord
                          THEN committed.num[t] - 1 ELSE committed.num[t]
      /\ pc[w] \in {"unlink", "rekey"} => B[a] # NoRecord
      /\ todo[w] \subseteq TableIndexes[t] /\ todo[w] # {}
  BY <1>2, <1>4 DEF RingAt
<1>7. PICK x, h, ht, H, M, n : /\ x = Min(todo[w]) /\ h = Db!HashOf(t, x) /\ ht = pHashTable[h]
                               /\ H = committed.hash[h] /\ M = Part(t, pRecordBuff)
                               /\ n = uiRecordNum[t]
  OBVIOUS
<1>8. x \in todo[w] /\ x \in TableIndexes[t]
  <2>1. todo[w] \subseteq Nat
    BY <1>5 DEF WorkType
  <2> QED
    BY <1>6, <1>7, <2>1, FirstIndex
<1>9. Current(w) = x /\ JobHash(w) = h /\ h \in Db!Hashes
  BY <1>4, <1>7, <1>8, HashFacts DEF Current, JobHash
<1>10. /\ DbP!IndexOK(H, B, x, Stored(t, B)) /\ PtrOK(ht, recList, h, Db!Slots(t))
       /\ IndexAt(pc[w], todo[w], held[w], ht, recList, h, t, x, a, d, B, H)
  BY <1>3, <1>7, <1>8 DEF At
<1>11. Found(w, pRecordBuff) = Db!Lookup(ht, M, x, M[a][x])
  <2>1. Found(w, pRecordBuff) = Db!Lookup(ht, pRecordBuff, x, pRecordBuff[a][x])
    BY <1>4, <1>7, <1>9 DEF Found
  <2>2. M[a] = pRecordBuff[a]
    BY <1>4, <1>7 DEF Part
  <2>3. Db!Lookup(ht, M, x, M[a][x]) = Db!Lookup(ht, pRecordBuff, x, M[a][x])
    BY <1>7, <1>10, LookupPart
  <2> QED
    BY <2>1, <2>2, <2>3
<1>12. \A b \in Db!Slots(t) : \A l : Db!Replace(ht, pRecordBuff, x, b, l) = Db!Replace(ht, M, x, b, l)
  BY <1>7, <1>10, ReplacePart
<1>13. n \in Int
  BY <1>4, <1>5, <1>7 DEF MemInv
<1>14. HeapOK(recList)
  BY <1>5 DEF HeapInv
<1>15. (B[a] # NoRecord => B[a][x] \in Keys) /\ d[x] \in Keys
  BY <1>4, <1>8 DEF Db!RecordOf
<1>16. pc[w] \in {"find", "link"} => M[a] = d
  BY <1>4, <1>6, <1>7 DEF Part
<1>17. Doing(w, t, a, d, B, x, h, ht, H, M, n)
  BY <1>1, <1>3, <1>6, <1>7, <1>8, <1>9, <1>10, <1>11, <1>12, <1>13, <1>14, <1>15, <1>16 DEF Doing
<1> QED
  BY <1>17

\* kr_rebuild_index_del unlinks the record.
LEMMA UnlinkStep ==
  ASSUME Unshared, IInv, NEW w \in Workers, Unlink(w)
  PROVE  IInv'
<1>1. pc[w] = "unlink" /\ pc' = [pc EXCEPT ![w] = "rekey"]
  BY DEF Unlink
<1>2. PICK t, a, d, B, x, h, ht, H, M, n : Doing(w, t, a, d, B, x, h, ht, H, M, n)
  BY <1>1, IsDoing
<1>3. M = B /\ B[a] # NoRecord /\ a \in Stored(t, B) /\ a = job[w].slot /\ t = job[w].table /\ t \in Tables
  BY <1>1, <1>2 DEF Doing, At
<1>4. Val(ht, recList) = H
  BY <1>1, <1>2 DEF Doing, IndexAt
<1>5. /\ PtrOK(ht, recList, h, Db!Slots(t)) /\ HeapOK(recList)
      /\ DbP!IndexOK(Val(ht, recList), B, x, Stored(t, B))
      /\ Found(w, pRecordBuff) = Db!Lookup(ht, B, x, B[a][x])
  BY <1>2, <1>3, <1>4 DEF Doing
<1>6. /\ Db!Lookup(ht, B, x, B[a][x]) # {}
      /\ \A e \in Db!Lookup(ht, B, x, B[a][x]) : Unlinks(e, ht, recList, h, Db!Slots(t), x, a, B)
  <2>1. PtrOK(ht, recList, h, Db!Slots(t))
    BY <1>5
  <2>2. HeapOK(recList)
    BY <1>5
  <2>3. DbP!IndexOK(Val(ht, recList), B, x, Stored(t, B))
    BY <1>5
  <2>4. a \in Stored(t, B)
    BY <1>3
  <2> QED
    BY <2>1, <2>2, <2>3, <2>4, UnlinkStage
<1>7. PICK e : e = CHOOSE f \in Found(w, pRecordBuff) : TRUE
  OBVIOUS
<1>8. e \in Db!Lookup(ht, B, x, B[a][x])
  BY <1>5, <1>6, <1>7
<1>9. PICK l : l = e.list
  OBVIOUS
<1>10. recList' = [recList EXCEPT ![l] = RemoveFirst(@, a)] /\ held' = [held EXCEPT ![w] = l]
  BY <1>3, <1>7, <1>9 DEF Unlink
<1>11. /\ l \in DOMAIN recList /\ l \in ListIds /\ l[1] = h
       /\ HeapOK(recList') /\ PtrOK(ht, recList', h, Db!Slots(t))
       /\ Cut(ht, recList', l, h, x, a, B, H)
  BY <1>4, <1>6, <1>8, <1>9, <1>10 DEF Unlinks
<1>12. DOMAIN recList' = DOMAIN recList /\ \A m \in DOMAIN recList : m # l => recList'[m] = recList[m]
  BY <1>10
<1>13. IndexAt("rekey", todo[w], l, ht, recList', h, t, x, a, d, B, committed.hash[h])
  BY <1>2, <1>11 DEF Doing, IndexAt
<1>14. Shift(pc[w], todo[w], "rekey", todo[w])
  BY <1>1 DEF Shift
<1>15. WorkType /\ MemInv
  BY DEF IInv
<1>16. /\ uiRecordNum' = [uiRecordNum EXCEPT ![t] = n] /\ pHashTable' = [pHashTable EXCEPT ![h] = ht]
       /\ todo' = [todo EXCEPT ![w] = todo[w]]
       /\ UNCHANGED <<pRecordBuff, uiRecordLoc, tLock, job, committed>>
  BY <1>2, <1>3, <1>15 DEF Doing, Unlink, MemInv, WorkType
<1>17. /\ At(w, t, a, d, B) /\ Inside(w) /\ x \in TableIndexes[t] /\ x = Min(todo[w])
       /\ h = Db!HashOf(t, x) /\ n \in Int /\ n = committed.num[t] /\ ht = pHashTable[h]
  BY <1>1, <1>2 DEF Doing
<1>18. /\ \A m \in DOMAIN recList : m[1] # h => m \in DOMAIN recList' /\ recList'[m] = recList[m]
       /\ \A m \in DOMAIN recList' : m \in DOMAIN recList \/ m = l
       /\ \A f \in pHashTable[h] : f \in ht \/ f.list = l
  BY <1>11, <1>12, <1>17
<1>19. Moves(w, t, h, "rekey", todo[w], l, n, ht)
  BY <1>1, <1>10, <1>16 DEF Moves
<1>20. Handles(w, h, l, "rekey", l, ht)
  BY <1>1, <1>18 DEF Handles
<1>21. n = IF "rekey" \in {"fill", "find", "link", "unlock"} /\ B[a] # NoRecord
           THEN committed.num[t] - 1 ELSE committed.num[t]
  BY <1>17
<1> QED
  BY <1>11, <1>13, <1>14, <1>17, <1>19, <1>20, <1>21, IndexStep

\* kr_rebuild_index_del moves the key pointer or drops the list.
LEMMA RekeyStep ==
  ASSUME Unshared, IInv, NEW w \in Workers, Rekey(w)
  PROVE  IInv'
<1>1. pc[w] = "rekey"
  BY DEF Rekey
<1>2. PICK t, a, d, B, x, h, ht, H, M, n : Doing(w, t, a, d, B, x, h, ht, H, M, n)
  BY <1>1, IsDoing
<1>3. PICK l : l = held[w]
  OBVIOUS
<1>4. /\ M = B /\ B[a] # NoRecord /\ a \in Stored(t, B) /\ a = job[w].slot /\ t = job[w].table
      /\ t \in Tables /\ B[a][x] \in Keys /\ Current(w) = x /\ JobHash(w) = h /\ ht = pHashTable[h]
      /\ h \in Db!Hashes
  BY <1>1, <1>2 DEF Doing, At
<1>5. Cut(ht, recList, l, h, x, a, B, H)
  BY <1>1, <1>2, <1>3 DEF Doing, IndexAt
<1>6. /\ PtrOK(ht, recList, h, Db!Slots(t)) /\ HeapOK(recList)
      /\ DbP!IndexOK(H, B, x, Stored(t, B))
      /\ Found(w, pRecordBuff) = Db!Lookup(ht, B, x, B[a][x])
      /\ \A b \in Db!Slots(t) : \A m : Db!Replace(ht, pRecordBuff, x, b, m) = Db!Replace(ht, B, x, b, m)
  BY <1>2, <1>4 DEF Doing
<1>7. l \in DOMAIN recList /\ l[1] = h /\ l \in ListIds
  BY <1>5, <1>6 DEF Cut, HeapOK
<1>8. Stored(t, B) \subseteq Db!Slots(t) /\ Db!Slots(t) \subseteq Db!Addr
  BY <1>4, SlotFacts DEF Stored
<1>9. WorkType /\ MemInv
  BY DEF IInv
<1>10. \E ht2 : /\ pHashTable' = [pHashTable EXCEPT ![h] = ht2]
                /\ Val(ht2, recList') = Gone(H, B, x, a)
                /\ PtrOK(ht2, recList', h, Db!Slots(t)) /\ HeapOK(recList')
                /\ DOMAIN recList' \subseteq DOMAIN recList
                /\ \A m \in DOMAIN recList : m # l => m \in DOMAIN recList' /\ recList'[m] = recList[m]
                /\ \A e \in ht : e \in ht2 \/ e.list = l
                /\ l \in DOMAIN recList' => \E e \in ht2 : e.list = l
  <2>1. CASE recList[l] # <<>>
    <3>1. PICK b, ht2 : b = Last(recList[l]) /\ ht2 = Db!Replace(ht, B, x, b, l)
      OBVIOUS
    <3>2. /\ Val(ht2, recList) = Gone(H, B, x, a) /\ PtrOK(ht2, recList, h, Db!Slots(t))
          /\ \A e \in ht : e \in ht2 \/ e.list = l
          /\ \E e \in ht2 : e.list = l
          /\ b \in Db!Slots(t)
      BY <1>4, <1>5, <1>6, <1>7, <1>8, <2>1, <3>1, MoveKeyStage
    <3>3. MoveKey(w)
      BY <1>3, <2>1 DEF Rekey
    <3>4. recList' = recList /\ pHashTable' = [pHashTable EXCEPT ![h] = Db!Replace(ht, pRecordBuff, x, b, l)]
      BY <1>3, <1>4, <3>1, <3>3 DEF MoveKey
    <3>5. pHashTable' = [pHashTable EXCEPT ![h] = ht2]
      BY <1>6, <3>1, <3>2, <3>4
    <3> QED
      BY <1>6, <3>2, <3>4, <3>5
  <2>2. CASE recList[l] = <<>>
    <3>1. DropList(w)
      BY <1>3, <2>2 DEF Rekey
    <3>2. PICK ht2 : ht2 = ht \ Db!Lookup(ht, B, x, B[a][x])
      OBVIOUS
    <3>3. /\ recList' = [m \in DOMAIN recList \ {l} |-> recList[m]]
          /\ pHashTable' = [pHashTable EXCEPT ![h] = ht2]
      BY <1>3, <1>4, <1>6, <3>1, <3>2 DEF DropList
    <3>4. /\ DOMAIN recList' = DOMAIN recList \ {l}
          /\ \A m \in DOMAIN recList : m # l => recList'[m] = recList[m]
      BY <3>3
    <3>5. /\ Val(ht2, recList') = Gone(H, B, x, a) /\ PtrOK(ht2, recList', h, Db!Slots(t))
          /\ \A e \in ht : e \in ht2 \/ e.list = l
      <4>1. PICK S, D : S = Db!Slots(t) /\ D = Stored(t, B)
        OBVIOUS
      <4>2. PtrOK(ht, recList, h, S) /\ DbP!IndexOK(H, B, x, D) /\ a \in D /\ B[a] # NoRecord
        BY <1>4, <1>6, <4>1
      <4>3. Freed(ht \ Db!Lookup(ht, B, x, B[a][x]), ht, recList', h, S, l, Gone(H, B, x, a))
        BY <1>5, <2>2, <3>4, <4>2, DropListStage
      <4> QED
        BY <3>2, <4>1, <4>3 DEF Freed
    <3>6. HeapOK(recList')
      BY <1>6, <3>4 DEF HeapOK
    <3> QED
      BY <3>3, <3>4, <3>5, <3>6
  <2> QED
    BY <2>1, <2>2
<1>11. PICK ht2 : /\ pHashTable' = [pHashTable EXCEPT ![h] = ht2]
                  /\ Val(ht2, recList') = Gone(H, B, x, a)
                  /\ PtrOK(ht2, recList', h, Db!Slots(t)) /\ HeapOK(recList')
                  /\ DOMAIN recList' \subseteq DOMAIN recList
                  /\ \A m \in DOMAIN recList : m # l => m \in DOMAIN recList' /\ recList'[m] = recList[m]
                  /\ \A e \in ht : e \in ht2 \/ e.list = l
                  /\ l \in DOMAIN recList' => \E e \in ht2 : e.list = l
  BY <1>10
<1>12. PICK td2, p2, n2 : /\ td2 = todo[w] \ {x} /\ p2 = IF td2 = {} THEN "fill" ELSE "unlink"
                          /\ n2 = IF td2 = {} THEN n - 1 ELSE n
  OBVIOUS
<1>13. /\ At(w, t, a, d, B) /\ Inside(w) /\ x \in TableIndexes[t] /\ x = Min(todo[w]) /\ h = Db!HashOf(t, x)
       /\ n \in Int /\ n = committed.num[t] /\ n = uiRecordNum[t] /\ H = committed.hash[h]
  BY <1>1, <1>2 DEF Doing
<1>14. Shift(pc[w], todo[w], p2, td2)
  BY <1>1, <1>12, <1>13 DEF Shift
<1>15. IndexAt(p2, td2, Free, ht2, recList', h, t, x, a, d, B, committed.hash[h])
  BY <1>11, <1>12, <1>13 DEF IndexAt
<1>16. /\ todo' = [todo EXCEPT ![w] = td2] /\ held' = [held EXCEPT ![w] = Free]
       /\ UNCHANGED <<pRecordBuff, uiRecordLoc, tLock, job, committed>>
  BY <1>4, <1>12 DEF Rekey
<1>17. todo'[w] = td2
  BY <1>9, <1>16 DEF WorkType
<1>18. pc' = [pc EXCEPT ![w] = p2] /\ uiRecordNum' = [uiRecordNum EXCEPT ![t] = n2]
  BY <1>4, <1>9, <1>12, <1>13, <1>17 DEF Rekey, MemInv
<1>19. n2 \in Int /\ n2 = IF p2 \in {"fill", "find", "link", "unlock"} /\ B[a] # NoRecord
                         THEN committed.num[t] - 1 ELSE committed.num[t]
  BY <1>4, <1>12, <1>13
<1>20. /\ \A m \in DOMAIN recList : m[1] # h => m \in DOMAIN recList' /\ recList'[m] = recList[m]
       /\ \A m \in DOMAIN recList' : m \in DOMAIN recList \/ m = l
       /\ \A e \in pHashTable[h] : e \in ht2 \/ e.list = l
  BY <1>4, <1>7, <1>11
<1>21. Moves(w, t, h, p2, td2, Free, n2, ht2)
  BY <1>11, <1>16, <1>18 DEF Moves
<1>22. Handles(w, h, l, p2, Free, ht2)
  BY <1>3, <1>11, <1>20 DEF Handles
<1> QED
  BY <1>11, <1>13, <1>14, <1>15, <1>19, <1>21, <1>22, IndexStep

\* kr_rebuild_index_ins looks the list up, or allocates one.
LEMMA FindStep ==
  ASSUME Unshared, IInv, NEW w \in Workers, Find(w)
  PROVE  IInv'
<1>1. pc[w] = "find"
  BY DEF Find
<1>2. PICK t, a, d, B, x, h, ht, H, M, n : Doing(w, t, a, d, B, x, h, ht, H, M, n)
  BY <1>1, IsDoing
<1>3. /\ At(w, t, a, d, B) /\ Inside(w) /\ x \in TableIndexes[t] /\ x = Min(todo[w]) /\ h = Db!HashOf(t, x)
      /\ n \in Int /\ n = uiRecordNum[t] /\ H = committed.hash[h] /\ ht = pHashTable[h] /\ x \in todo[w]
      /\ n = IF B[a] # NoRecord THEN committed.num[t] - 1 ELSE committed.num[t]
      /\ Current(w) = x /\ JobHash(w) = h /\ h \in Db!Hashes
      /\ M = [B EXCEPT ![a] = d] /\ M[a] = d /\ d[x] \in Keys
      /\ B[a] # NoRecord => B[a][x] \in Keys
  BY <1>1, <1>2 DEF Doing
<1>4. /\ B[a] # NoRecord <=> a \in Stored(t, B)
      /\ t = job[w].table /\ t \in Tables /\ d = job[w].data /\ a = job[w].slot
  BY <1>3 DEF At
<1>5. PICK G : G = Gone(H, B, x, a)
  OBVIOUS
<1>6. /\ PtrOK(ht, recList, h, Db!Slots(t)) /\ HeapOK(recList)
      /\ DbP!IndexOK(H, B, x, Stored(t, B))
      /\ Found(w, pRecordBuff) = Db!Lookup(ht, M, x, M[a][x])
  BY <1>2 DEF Doing
<1>7. Val(ht, recList) = G
  BY <1>1, <1>2, <1>5 DEF Doing, IndexAt
<1>8. DbP!IndexOK(G, M, x, Stored(t, B) \ {a})
  <2>1. DbP!IndexOK(H, B, x, Stored(t, B))
    BY <1>6
  <2>2. B[a] # NoRecord <=> a \in Stored(t, B)
    BY <1>4
  <2>3. a \in Stored(t, B) => B[a][x] \in Keys
    BY <1>3, <1>4
  <2>4. DbP!IndexOK(Gone(H, B, x, a), [B EXCEPT ![a] = d], x, Stored(t, B) \ {a})
    BY ONLY <2>1, <2>2, <2>3, GoneOK
  <2> QED
    BY <1>3, <1>5, <2>4
<1>9. WorkType /\ MemInv
  BY DEF IInv
<1>10. \E l \in ListIds :
         /\ held' = [held EXCEPT ![w] = l] /\ l[1] = h
         /\ Open(ht, recList', l, h, x, a, M, G)
         /\ HeapOK(recList') /\ PtrOK(ht, recList', h, Db!Slots(t))
         /\ \A m \in DOMAIN recList : m \in DOMAIN recList' /\ recList'[m] = recList[m]
         /\ \A m \in DOMAIN recList' : m \in DOMAIN recList \/ m = l
  <2>1. CASE Found(w, pRecordBuff) = {}
    <3>1. PICK k : k = d[x]
      OBVIOUS
    <3>2. Db!Lookup(ht, M, x, k) = {}
      BY <1>3, <1>6, <2>1, <3>1
    <3>3. DbP!IndexOK(Val(ht, recList), M, x, Stored(t, B) \ {a})
      BY <1>7, <1>8
    <3>4. \A e \in ht : e.hash # k
      BY <1>6, <3>2, <3>3, PointsToList
    <3>5. \A m \in DOMAIN recList : m[1] = h => m[2] # k
      BY <1>1, <1>3, <1>4, <3>4, NoListOfKey
    <3>6. PICK free : free = {j \in 1 .. MaxLists : <<h, k, j>> \notin DOMAIN recList}
      OBVIOUS
    <3>7. free \subseteq Nat /\ 1 \in free
      BY <3>5, <3>6, InsertAssumption
    <3>8. Min(free) \in free
      BY <3>7, FirstIndex
    <3>9. PICK j : j = Min(free)
      OBVIOUS
    <3>10. PICK l : l = <<h, k, j>>
      OBVIOUS
    <3>11. NewList(w) = l
      BY <1>3, <1>4, <3>1, <3>6, <3>9, <3>10 DEF NewList
    <3>12. l \notin DOMAIN recList /\ l \in ListIds /\ l[1] = h /\ l[2] = k
      BY <1>3, <3>1, <3>6, <3>8, <3>9, <3>10 DEF ListIds
    <3>13. /\ recList' = [m \in DOMAIN recList \cup {l} |-> IF m = l THEN <<>> ELSE recList[m]]
           /\ held' = [held EXCEPT ![w] = l]
      BY <2>1, <3>11 DEF Find
    <3>14. /\ DOMAIN recList' = DOMAIN recList \cup {l} /\ recList'[l] = <<>>
           /\ \A m \in DOMAIN recList : recList'[m] = recList[m]
      BY <3>12, <3>13
    <3>15. Db!Lookup(ht, M, x, M[a][x]) = {} /\ l[2] = M[a][x]
      BY <1>6, <1>3, <2>1, <3>1, <3>12
    <3>16. Open(ht, recList', l, h, x, a, M, G) /\ HeapOK(recList') /\ PtrOK(ht, recList', h, Db!Slots(t))
      <4>1. PICK S, D : S = Db!Slots(t) /\ D = Stored(t, B) \ {a}
        OBVIOUS
      <4>2. PtrOK(ht, recList, h, S) /\ HeapOK(recList) /\ DbP!IndexOK(G, M, x, D)
        BY <1>6, <1>8, <4>1
      <4>3. Open(ht, recList', l, h, x, a, M, G) /\ HeapOK(recList') /\ PtrOK(ht, recList', h, S)
        BY <1>7, <3>12, <3>14, <3>15, <4>2, NewListStage
      <4> QED
        BY <4>1, <4>3
    <3> QED
      BY <3>12, <3>13, <3>14, <3>16
  <2>2. CASE Found(w, pRecordBuff) # {}
    <3>1. PICK e : e = CHOOSE f \in Found(w, pRecordBuff) : TRUE
      OBVIOUS
    <3>2. e \in Db!Lookup(ht, M, x, M[a][x])
      BY <1>6, <2>2, <3>1
    <3>3. Open(ht, recList, e.list, h, x, a, M, G) /\ e.list \in ListIds
      BY <1>6, <1>7, <1>8, <3>2, FoundStage
    <3>4. recList' = recList /\ held' = [held EXCEPT ![w] = e.list]
      BY <2>2, <3>1 DEF Find
    <3>5. e.list[1] = h
      BY <3>3 DEF Open
    <3> QED
      BY <1>6, <3>3, <3>4, <3>5
  <2> QED
    BY <2>1, <2>2
<1>11. PICK l \in ListIds :
         /\ held' = [held EXCEPT ![w] = l] /\ l[1] = h
         /\ Open(ht, recList', l, h, x, a, M, G)
         /\ HeapOK(recList') /\ PtrOK(ht, recList', h, Db!Slots(t))
         /\ \A m \in DOMAIN recList : m \in DOMAIN recList' /\ recList'[m] = recList[m]
         /\ \A m \in DOMAIN recList' : m \in DOMAIN recList \/ m = l
  BY <1>10
<1>12. IndexAt("link", todo[w], l, ht, recList', h, t, x, a, d, B, committed.hash[h])
  BY <1>3, <1>5, <1>11 DEF IndexAt
<1>13. Shift(pc[w], todo[w], "link", todo[w])
  BY <1>1 DEF Shift
<1>14. /\ uiRecordNum' = [uiRecordNum EXCEPT ![t] = n] /\ pHashTable' = [pHashTable EXCEPT ![h] = ht]
       /\ todo' = [todo EXCEPT ![w] = todo[w]] /\ pc' = [pc EXCEPT ![w] = "link"]
       /\ UNCHANGED <<pRecordBuff, uiRecordLoc, tLock, job, committed>>
  BY <1>3, <1>9 DEF Find, MemInv, WorkType
<1>15. \A e \in pHashTable[h] : e \in ht \/ e.list = l
  BY <1>3
<1>16. Moves(w, t, h, "link", todo[w], l, n, ht)
  BY <1>11, <1>14 DEF Moves
<1>17. Handles(w, h, l, "link", l, ht)
  BY <1>1, <1>11, <1>15 DEF Handles
<1>18. n = IF "link" \in {"fill", "find", "link", "unlock"} /\ B[a] # NoRecord
           THEN committed.num[t] - 1 ELSE committed.num[t]
  BY <1>3
<1> QED
  BY <1>3, <1>11, <1>12, <1>13, <1>16, <1>17, <1>18, IndexStep

\* kr_rebuild_index_ins adds the record and stores the list.
LEMMA LinkStep ==
  ASSUME Unshared, IInv, NEW w \in Workers, Link(w)
  PROVE  IInv'
<1>1. pc[w] = "link"
  BY DEF Link
<1>2. PICK t, a, d, B, x, h, ht, H, M, n : Doing(w, t, a, d, B, x, h, ht, H, M, n)
  BY <1>1, IsDoing
<1>3. /\ At(w, t, a, d, B) /\ Inside(w) /\ x \in TableIndexes[t] /\ x = Min(todo[w]) /\ h = Db!HashOf(t, x)
      /\ n \in Int /\ n = uiRecordNum[t] /\ H = committed.hash[h] /\ ht = pHashTable[h] /\ x \in todo[w]
      /\ n = IF B[a] # NoRecord THEN committed.num[t] - 1 ELSE committed.num[t]
      /\ Current(w) = x /\ JobHash(w) = h /\ h \in Db!Hashes
      /\ M = [B EXCEPT ![a] = d] /\ M[a] = d /\ d[x] \in Keys
      /\ B[a] # NoRecord => B[a][x] \in Keys
  BY <1>1, <1>2 DEF Doing
<1>4. /\ B[a] # NoRecord <=> a \in Stored(t, B)
      /\ t = job[w].table /\ t \in Tables /\ d = job[w].data /\ a = job[w].slot /\ a \in Db!Slots(t)
  BY <1>3 DEF At
<1>5. PICK G, l : G = Gone(H, B, x, a) /\ l = held[w]
  OBVIOUS
<1>6. /\ PtrOK(ht, recList, h, Db!Slots(t)) /\ HeapOK(recList)
      /\ DbP!IndexOK(H, B, x, Stored(t, B))
      /\ Found(w, pRecordBuff) = Db!Lookup(ht, M, x, M[a][x])
      /\ Db!Replace(ht, pRecordBuff, x, a, l) = Db!Replace(ht, M, x, a, l)
  BY <1>2, <1>4 DEF Doing
<1>7. Open(ht, recList, l, h, x, a, M, G)
  BY <1>1, <1>2, <1>3, <1>5 DEF Doing, IndexAt
<1>8. DbP!IndexOK(G, M, x, Stored(t, B) \ {a})
  <2>1. DbP!IndexOK(H, B, x, Stored(t, B))
    BY <1>6
  <2>2. B[a] # NoRecord <=> a \in Stored(t, B)
    BY <1>4
  <2>3. a \in Stored(t, B) => B[a][x] \in Keys
    BY <1>3, <1>4
  <2>4. DbP!IndexOK(Gone(H, B, x, a), [B EXCEPT ![a] = d], x, Stored(t, B) \ {a})
    BY ONLY <2>1, <2>2, <2>3, GoneOK
  <2> QED
    BY <1>3, <1>5, <2>4
<1>9. WorkType /\ MemInv
  BY DEF IInv
<1>10. l \in DOMAIN recList /\ l[1] = h /\ l \in ListIds
  BY <1>6, <1>7 DEF Open, HeapOK
<1>11. PICK p \in Db!Places(t, x, recList[l]) : recList' = [recList EXCEPT ![l] = InsertAt(@, p, a)]
  BY <1>3, <1>4, <1>5 DEF Link
<1>12. PICK ht2 : ht2 = Db!Replace(ht, M, x, a, l)
  OBVIOUS
<1>13. /\ Linked(ht2, recList', t, x, a, M, G) /\ PtrOK(ht2, recList', h, Db!Slots(t)) /\ HeapOK(recList')
       /\ \A e \in ht : e \in ht2 \/ e.list = l
       /\ \E e \in ht2 : e.list = l
  <2>1. Db!Slots(t) \subseteq Db!Addr /\ M[a][x] \in Keys /\ a \notin Stored(t, B) \ {a}
    BY <1>3, <1>4, SlotFacts
  <2>2. LinksList(recList', recList, l, a, p)
    BY <1>10, <1>11 DEF LinksList
  <2> QED
    <3>1. PICK S, D : S = Db!Slots(t) /\ D = Stored(t, B) \ {a}
      OBVIOUS
    <3>2. /\ PtrOK(ht, recList, h, S) /\ HeapOK(recList) /\ a \in S /\ l \in ListIds
          /\ DbP!IndexOK(G, M, x, D) /\ a \notin D /\ S \subseteq Db!Addr
      BY <1>4, <1>6, <1>8, <1>10, <2>1, <3>1
    <3>3. /\ Linked(Db!Replace(ht, M, x, a, l), recList', t, x, a, M, G)
          /\ Stores(Db!Replace(ht, M, x, a, l), ht, recList', h, S, l)
      BY <1>7, <1>11, <2>1, <2>2, <3>2, LinkStage
    <3> QED
      BY <1>12, <3>1, <3>3 DEF Stores
<1>14. PICK td2, p2 : td2 = todo[w] \ {x} /\ p2 = IF td2 = {} THEN "unlock" ELSE "find"
  OBVIOUS
<1>15. Shift(pc[w], todo[w], p2, td2)
  BY <1>1, <1>3, <1>14 DEF Shift
<1>16. IndexAt(p2, td2, Free, ht2, recList', h, t, x, a, d, B, committed.hash[h])
  BY <1>3, <1>5, <1>13, <1>14 DEF IndexAt
<1>17. /\ todo' = [todo EXCEPT ![w] = td2] /\ held' = [held EXCEPT ![w] = Free]
       /\ pHashTable' = [pHashTable EXCEPT ![h] = ht2]
       /\ UNCHANGED <<pRecordBuff, uiRecordLoc, uiRecordNum, tLock, job, committed>>
  BY <1>3, <1>4, <1>5, <1>6, <1>12, <1>14 DEF Link
<1>18. todo'[w] = td2
  BY <1>9, <1>17 DEF WorkType
<1>19. pc' = [pc EXCEPT ![w] = p2] /\ uiRecordNum' = [uiRecordNum EXCEPT ![t] = n]
  BY <1>3, <1>9, <1>14, <1>17, <1>18, ZenonT(40) DEF Link, MemInv
<1>20. n = IF p2 \in {"fill", "find", "link", "unlock"} /\ B[a] # NoRecord
           THEN committed.num[t] - 1 ELSE committed.num[t]
  BY <1>3, <1>14
<1>21. Moves(w, t, h, p2, td2, Free, n, ht2)
  BY <1>17, <1>19 DEF Moves
<1>22. Handles(w, h, l, p2, Free, ht2)
  BY <1>3, <1>5, <1>10, <1>11, <1>13 DEF Handles
<1> QED
  BY <1>3, <1>13, <1>15, <1>16, <1>20, <1>21, <1>22, IndexStep

\* A step that touches no list and no hash table leaks nothing.
LEMMA NoListTouched ==
  ASSUME NoLeakedList, NEW w \in Workers, UNCHANGED <<pHashTable, recList, held>>,
         \A v \in Workers \ {w} : pc'[v] = pc[v], pc[w] \notin {"link", "rekey"}
  PROVE  NoLeakedList'
BY DEF NoLeakedList

\* The published state does not change.
LEMMA NotPublished ==
  ASSUME DbP!IInv, UNCHANGED committed
  PROVE  DbP!IInv'
<1>1. UNCHANGED Db!vars
  BY DEF Db!vars
<1> QED
  BY <1>1, PublishedStep

\* kr_db_insert is called.
LEMMA BeginStep ==
  ASSUME Unshared, IInv, NEW w \in Workers, NEW t \in Tables, NEW data \in Db!RecordOf(t), Begin(w, t, data)
  PROVE  IInv'
<1>1. WorkType /\ MemInv /\ HeapInv /\ DbP!IInv /\ NoLeakedList
  BY DEF IInv
<1>2. /\ pc[w] = "idle" /\ pc' = [pc EXCEPT ![w] = "lock"]
      /\ job' = [job EXCEPT ![w] = [table |-> t, data |-> data, slot |-> Free]]
      /\ UNCHANGED <<pRecordBuff, uiRecordLoc, uiRecordNum, pHashTable, recList, tLock, todo, held, committed>>
  BY DEF Begin, shared
<1>3. WorkType'
  <2>1. pc' \in [Workers -> Points]
    BY <1>1, <1>2 DEF WorkType, Points
  <2>2. job' \in [Workers -> [table : Tables \cup {Free}, data : Data \cup {Free}, slot : Db!Addr \cup {Free}]]
    BY <1>1, <1>2 DEF WorkType, Data
  <2>3. \A v \in Workers : pc'[v] # "idle" => /\ job'[v].table \in Tables
                                              /\ job'[v].data \in Db!RecordOf(job'[v].table)
    BY <1>1, <1>2 DEF WorkType
  <2> QED
    BY <1>1, <1>2, <2>1, <2>2, <2>3 DEF WorkType
<1>4. MemInv'
  BY <1>1, <1>2 DEF MemInv
<1>5. /\ pc'[w] = "lock" /\ \A v \in Workers \ {w} : pc'[v] = pc[v] /\ job'[v] = job[v]
  BY <1>1, <1>2 DEF WorkType
<1>6. Others(w, {})
  BY <1>2, <1>5 DEF Others
<1>7. NoLeakedList'
  BY <1>1, <1>2, <1>5, NoListTouched
<1>8. DbP!IInv'
  BY <1>1, <1>2, NotPublished
<1>9. HeapOK(recList)' /\ ~ Inside(w)'
  BY <1>1, <1>2, <1>5 DEF HeapInv, Inside
<1> QED
  BY <1>3, <1>4, <1>6, <1>7, <1>8, <1>9, Assemble

\* kr_lock_table, and the slot that the insert takes.
LEMMA LockStep ==
  ASSUME Unshared, IInv, NEW w \in Workers, Lock(w)
  PROVE  IInv'
<1>1. WorkType /\ MemInv /\ HeapInv /\ DbP!IInv /\ NoLeakedList
  BY DEF IInv
<1>2. PICK t, a, d, B, p2 : /\ t = job[w].table /\ a = <<t, uiRecordLoc[t]>> /\ d = job[w].data
                            /\ B = Part(t, committed.buff)
                            /\ p2 = IF pRecordBuff[a] = NoRecord THEN "fill" ELSE "unlink"
  OBVIOUS
<1>3. /\ pc[w] = "lock" /\ tLock[t] = Free /\ tLock' = [tLock EXCEPT ![t] = w]
      /\ pc' = [pc EXCEPT ![w] = p2] /\ job' = [job EXCEPT ![w].slot = a]
      /\ todo' = [todo EXCEPT ![w] = TableIndexes[t]]
      /\ UNCHANGED <<pRecordBuff, uiRecordLoc, uiRecordNum, pHashTable, recList, held, committed>>
  BY <1>2 DEF Lock, LockTable, shared
<1>4. t \in Tables /\ d \in Db!RecordOf(t)
  BY <1>1, <1>2, <1>3 DEF WorkType
<1>5. Quiet(t)
  BY <1>3, <1>4 DEF IInv
<1>6. a = <<t, committed.loc[t]>> /\ a \in Db!Slots(t) /\ a \in Db!Addr
  <2>1. <<t, committed.loc[t]>> \in Db!Slots(t)
    BY <1>1, <1>4, Published
  <2>2. a = <<t, committed.loc[t]>>
    BY <1>2, <1>5 DEF Quiet
  <2> QED
    BY <1>4, <2>1, <2>2, SlotFacts
<1>7. pRecordBuff[a] = B[a]
  BY <1>2, <1>5, <1>6 DEF Quiet, Part
<1>8. TableIndexes[t] \subseteq Nat /\ TableIndexes[t] # {}
  BY <1>4, InsertAssumption, IndexedAssumption
<1>9. /\ pc'[w] = p2 /\ todo'[w] = TableIndexes[t] /\ tLock'[t] = w
      /\ job'[w].table = t /\ job'[w].data = d /\ job'[w].slot = a
      /\ \A v \in Workers \ {w} : pc'[v] = pc[v] /\ job'[v] = job[v] /\ todo'[v] = todo[v]
      /\ \A u \in Tables \ {t} : tLock'[u] = tLock[u]
  BY <1>1, <1>2, <1>3, <1>4 DEF WorkType
<1>10. WorkType'
  <2>1. pc' \in [Workers -> Points]
    BY <1>1, <1>2, <1>3 DEF WorkType, Points
  <2>2. tLock' \in [Tables -> Workers \cup {Free}]
    BY <1>1, <1>3 DEF WorkType
  <2>3. job' \in [Workers -> [table : Tables \cup {Free}, data : Data \cup {Free}, slot : Db!Addr \cup {Free}]]
    BY <1>1, <1>3, <1>6 DEF WorkType
  <2>4. todo' \in [Workers -> SUBSET Nat]
    BY <1>1, <1>3, <1>8 DEF WorkType
  <2>5. \A v \in Workers : pc'[v] # "idle" => /\ job'[v].table \in Tables
                                              /\ job'[v].data \in Db!RecordOf(job'[v].table)
    BY <1>1, <1>4, <1>9 DEF WorkType
  <2> QED
    BY <1>1, <1>3, <2>1, <2>2, <2>3, <2>4, <2>5 DEF WorkType
<1>11. MemInv'
  BY <1>1, <1>3 DEF MemInv
<1>12. Others(w, {t})
  BY <1>3, <1>9 DEF Others
<1>13. NoLeakedList'
  BY <1>1, <1>3, <1>9, NoListTouched
<1>14. DbP!IInv'
  BY <1>1, <1>3, NotPublished
<1>15. RingAt(w)'
  <2>1. /\ Part(t, pRecordBuff) = B /\ uiRecordLoc[t] = committed.loc[t] /\ uiRecordNum[t] = committed.num[t]
    BY <1>2, <1>5 DEF Quiet
  <2> QED
    BY <1>2, <1>3, <1>6, <1>7, <1>8, <1>9, <2>1 DEF RingAt
<1>16. ASSUME NEW x \in TableIndexes[t]
       PROVE  StageOf(w, t, x)'
  <2>1. PICK h, ht, H : h = Db!HashOf(t, x) /\ ht = pHashTable[h] /\ H = committed.hash[h]
    OBVIOUS
  <2>2. Val(ht, recList) = H
    BY <1>5, <2>1 DEF Quiet
  <2>3. B[a] = NoRecord => Gone(H, B, x, a) = H
    BY DEF Gone
  <2>4. IndexAt(p2, TableIndexes[t], held[w], ht, recList, h, t, x, a, d, B, H)
    BY <1>2, <1>7, <2>2, <2>3 DEF IndexAt
  <2> QED
    BY <1>2, <1>3, <1>9, <2>1, <2>4 DEF StageOf
<1>17. Progress(w)'
  BY <1>9, <1>15, <1>16 DEF Progress
<1>18. HeapOK(recList)' /\ \A x \in TableIndexes[t] :
         PtrOK(pHashTable'[Db!HashOf(t, x)], recList', Db!HashOf(t, x), Db!Slots(t))
  BY <1>1, <1>3, <1>4 DEF HeapInv
<1> QED
  <2>1. {t} \in SUBSET Tables /\ \A u \in {t} : tLock[u] \in {Free, w}
    BY <1>3, <1>4
  <2>2. \A u \in {t} : /\ tLock'[u] = Free => Quiet(u)'
                       /\ \A y \in TableIndexes[u] :
                            PtrOK(pHashTable'[Db!HashOf(u, y)], recList', Db!HashOf(u, y), Db!Slots(u))
    BY <1>9, <1>18, InsertAssumption
  <2>3. tLock'[job'[w].table] = w
    BY <1>9
  <2> QED
    BY <1>10, <1>11, <1>12, <1>13, <1>14, <1>17, <1>18, <2>1, <2>2, <2>3, Assemble

\* The slot is written.
LEMMA FillStep ==
  ASSUME Unshared, IInv, NEW w \in Workers, Fill(w)
  PROVE  IInv'
<1>1. WorkType /\ MemInv /\ HeapInv /\ DbP!IInv /\ NoLeakedList
  BY DEF IInv
<1>2. pc[w] = "fill" /\ Inside(w)
  BY DEF Fill, Inside
<1>3. RingAt(w)
  BY <1>2, Inserting
<1>4. PICK t, a, d, B : At(w, t, a, d, B)
  BY <1>2, Inserting
<1>5. /\ t = job[w].table /\ a = job[w].slot /\ d = job[w].data /\ B = Part(t, committed.buff)
      /\ t \in Tables /\ tLock[t] = w /\ a \in Db!Slots(t) /\ a \in Db!Addr /\ d \in Db!RecordOf(t)
  BY <1>4 DEF At
<1>6. /\ pRecordBuff' = [pRecordBuff EXCEPT ![a] = d] /\ todo' = [todo EXCEPT ![w] = TableIndexes[t]]
      /\ pc' = [pc EXCEPT ![w] = "find"]
      /\ UNCHANGED <<uiRecordLoc, uiRecordNum, pHashTable, recList, tLock, job, held, committed>>
  BY <1>5 DEF Fill
<1>7. TableIndexes[t] \subseteq Nat /\ TableIndexes[t] # {}
  BY <1>5, InsertAssumption, IndexedAssumption
<1>8. /\ pc'[w] = "find" /\ todo'[w] = TableIndexes[t]
      /\ \A v \in Workers \ {w} : pc'[v] = pc[v] /\ todo'[v] = todo[v]
  BY <1>1, <1>6 DEF WorkType
<1>9. WorkType'
  <2>1. pc' \in [Workers -> Points]
    BY <1>1, <1>6 DEF WorkType, Points
  <2>2. todo' \in [Workers -> SUBSET Nat]
    BY <1>1, <1>6, <1>7 DEF WorkType
  <2>3. \A v \in Workers : pc'[v] # "idle" => pc[v] # "idle"
    BY <1>2, <1>8
  <2> QED
    BY <1>1, <1>6, <2>1, <2>2, <2>3 DEF WorkType
<1>10. pRecordBuff' \in [Db!Addr -> Data \cup {NoRecord}]
  BY <1>1, <1>5, <1>6 DEF MemInv, Data
<1>11. MemInv'
  BY <1>1, <1>6, <1>10 DEF MemInv
<1>12. Part(t, pRecordBuff) = B
  BY <1>2, <1>3, <1>5 DEF RingAt
<1>13. Part(t, pRecordBuff') = [B EXCEPT ![a] = d]
  <2>1. \A b \in Db!Slots(t) : pRecordBuff'[b] = IF b = a THEN d ELSE pRecordBuff[b]
    BY <1>1, <1>5, <1>6, SlotFacts DEF MemInv
  <2> QED
    BY <1>12, <2>1 DEF Part
<1>14. \A u \in Tables \ {t} : Part(u, pRecordBuff') = Part(u, pRecordBuff)
  <2>1. \A u \in Tables \ {t} : \A b \in Db!Slots(u) : pRecordBuff'[b] = pRecordBuff[b]
    BY <1>1, <1>5, <1>6, SlotFacts DEF MemInv
  <2> QED
    BY <2>1 DEF Part
<1>15. Others(w, {t})
  BY <1>6, <1>8, <1>14 DEF Others
<1>16. NoLeakedList'
  BY <1>1, <1>2, <1>6, <1>8, NoListTouched
<1>17. DbP!IInv'
  BY <1>1, <1>6, NotPublished
<1>18. RingAt(w)'
  BY <1>2, <1>3, <1>5, <1>6, <1>7, <1>8, <1>13 DEF RingAt
<1>19. ASSUME NEW x \in TableIndexes[t]
       PROVE  StageOf(w, t, x)'
  <2>1. PICK h, ht, H : h = Db!HashOf(t, x) /\ ht = pHashTable[h] /\ H = committed.hash[h]
    OBVIOUS
  <2>2. IndexAt("fill", todo[w], held[w], ht, recList, h, t, x, a, d, B, H)
    BY <1>2, <1>4, <2>1 DEF At
  <2>3. IndexAt("find", TableIndexes[t], held[w], ht, recList, h, t, x, a, d, B, H)
    BY <2>2 DEF IndexAt
  <2> QED
    BY <1>5, <1>6, <1>8, <2>1, <2>3 DEF StageOf
<1>20. Progress(w)'
  BY <1>5, <1>6, <1>18, <1>19 DEF Progress
<1>21. HeapOK(recList)' /\ \A x \in TableIndexes[t] :
         PtrOK(pHashTable'[Db!HashOf(t, x)], recList', Db!HashOf(t, x), Db!Slots(t))
  BY <1>1, <1>5, <1>6 DEF HeapInv
<1> QED
  <2>1. {t} \in SUBSET Tables /\ \A u \in {t} : tLock[u] \in {Free, w}
    BY <1>5
  <2>2. \A u \in {t} : /\ tLock'[u] = Free => Quiet(u)'
                       /\ \A y \in TableIndexes[u] :
                            PtrOK(pHashTable'[Db!HashOf(u, y)], recList', Db!HashOf(u, y), Db!Slots(u))
    BY <1>5, <1>6, <1>21, InsertAssumption
  <2>3. tLock'[job'[w].table] = w
    BY <1>5, <1>6
  <2> QED
    BY <1>9, <1>11, <1>15, <1>16, <1>17, <1>20, <1>21, <2>1, <2>2, <2>3, Assemble

-----------------------------------------------------------------------------
(***************************************************************************)
(* The unlock publishes an insert of KrDb.                                 *)
(***************************************************************************)

\* The operations on an index in order look at no memory but its records.
SameIn(ht, buff, buff2, x, D) ==
  /\ \A k : Db!ListAt(ht, buff2, x, k) = Db!ListAt(ht, buff, x, k)
  /\ \A b, p : buff2[b] = buff[b] => Db!IndexIns(ht, buff2, x, b, p) = Db!IndexIns(ht, buff, x, b, p)
  /\ \A b \in D : Db!IndexDel(ht, buff2, x, b) = Db!IndexDel(ht, buff, x, b)

LEMMA SameInMemory ==
  ASSUME NEW ht, NEW buff, NEW buff2, NEW x, NEW D, DbP!IndexOK(ht, buff, x, D),
         \A b \in D : buff2[b] = buff[b]
  PROVE  SameIn(ht, buff, buff2, x, D)
<1>1. DbP!IndexOK(ht, buff2, x, D)
  BY OtherRecords
<1>2. ASSUME NEW k
      PROVE  Db!Lookup(ht, buff2, x, k) = Db!Lookup(ht, buff, x, k)
  <2>1. Db!Lookup(ht, buff2, x, k) = {e \in ht : e.hash = k}
    BY <1>1, FindsEntry
  <2>2. Db!Lookup(ht, buff, x, k) = {e \in ht : e.hash = k}
    BY FindsEntry
  <2> QED
    BY <2>1, <2>2
<1>3. ASSUME NEW k
      PROVE  Db!ListAt(ht, buff2, x, k) = Db!ListAt(ht, buff, x, k)
  <2>1. PICK L : L = Db!Lookup(ht, buff, x, k)
    OBVIOUS
  <2>2. L = Db!Lookup(ht, buff2, x, k)
    BY <1>2, <2>1
  <2>3. Db!ListAt(ht, buff2, x, k) = IF L = {} THEN <<>> ELSE (CHOOSE e \in L : TRUE).list
    BY <2>2 DEF Db!ListAt
  <2>4. Db!ListAt(ht, buff, x, k) = IF L = {} THEN <<>> ELSE (CHOOSE e \in L : TRUE).list
    BY <2>1 DEF Db!ListAt
  <2> QED
    BY <2>3, <2>4
<1>4. \A b, list : buff2[b] = buff[b] => Db!Replace(ht, buff2, x, b, list) = Db!Replace(ht, buff, x, b, list)
  BY <1>2 DEF Db!Replace, Db!FieldAt
<1>5. \A b, p : buff2[b] = buff[b] => Db!IndexIns(ht, buff2, x, b, p) = Db!IndexIns(ht, buff, x, b, p)
  BY <1>3, <1>4 DEF Db!IndexIns, Db!FieldAt
<1>6. ASSUME NEW b \in D
      PROVE  Db!IndexDel(ht, buff2, x, b) = Db!IndexDel(ht, buff, x, b)
  <2>1. PICK k, old, rest : k = buff[b][x] /\ old = Db!ListAt(ht, buff, x, k) /\ rest = RemoveFirst(old, b)
    OBVIOUS
  <2>2. old \in Seq(Db!Addr) /\ IsInjective(old) /\ ToSet(old) = {c \in D : Db!FieldAt(buff, c, x) = k}
    BY <2>1, FindsList
  <2>3. b \in ToSet(old)
    BY <2>1, <2>2 DEF Db!FieldAt
  <2>4. rest \in Seq(Db!Addr) /\ ToSet(rest) = ToSet(old) \ {b}
    <3>1. old \in Seq(Db!Addr)
      BY <2>2
    <3> QED
      BY <2>1, <2>2, <2>3, <3>1, RemoveFirstSet
  <2>5. rest # <<>> => Last(rest) \in D
    <3>1. rest \in Seq(Db!Addr)
      BY <2>4
    <3>2. rest # <<>> => Last(rest) \in ToSet(rest)
      BY <3>1, SetOfList
    <3> QED
      BY <2>2, <2>4, <3>2
  <2>6. Db!IndexDel(ht, buff, x, b) = IF rest = <<>> THEN ht \ Db!Lookup(ht, buff, x, k)
                                                    ELSE Db!Replace(ht, buff, x, Last(rest), rest)
    BY <2>1, SameLists DEF Db!IndexDel, Db!FieldAt
  <2>7. k = buff2[b][x] /\ old = Db!ListAt(ht, buff2, x, k)
    BY <1>3, <2>1
  <2>8. Db!IndexDel(ht, buff2, x, b) = IF rest = <<>> THEN ht \ Db!Lookup(ht, buff2, x, k)
                                                     ELSE Db!Replace(ht, buff2, x, Last(rest), rest)
    BY <2>1, <2>7, SameLists DEF Db!IndexDel, Db!FieldAt
  <2>9. rest # <<>> => Db!Replace(ht, buff2, x, Last(rest), rest) = Db!Replace(ht, buff, x, Last(rest), rest)
    BY <1>4, <2>5
  <2> QED
    <3>1. Db!Lookup(ht, buff2, x, k) = Db!Lookup(ht, buff, x, k)
      BY <1>2
    <3>2. CASE rest = <<>>
      BY <2>6, <2>8, <3>1, <3>2
    <3>3. CASE rest # <<>>
      BY <2>6, <2>8, <2>9, <3>3
    <3> QED
      BY <3>2, <3>3
<1> QED
  BY <1>3, <1>5, <1>6 DEF SameIn

\* There are finitely many slots.
LEMMA FiniteSlots == IsFiniteSet(Db!Addr)
<1>1. ASSUME NEW t \in Tables
      PROVE  IsFiniteSet(Db!Slots(t))
  <2>1. Keep[t] \in Nat
    BY InsertAssumption
  <2>2. PICK n \in Int : n = Keep[t] - 1
    BY <2>1
  <2>3. IsFiniteSet(0 .. n)
    BY FS_Interval
  <2>4. IsFiniteSet({t})
    BY FS_Singleton
  <2>5. IsFiniteSet({t} \X (0 .. n))
    BY <2>3, <2>4, FS_Product
  <2> QED
    BY <2>2, <2>5 DEF Db!Slots
<1>2. PICK F : F = [t \in Tables |-> Db!Slots(t)]
  OBVIOUS
<1>3. PICK R : R = {Db!Slots(t) : t \in Tables}
  OBVIOUS
<1>4. F \in Surjection(Tables, R)
  BY <1>2, <1>3 DEF Surjection
<1>5. IsFiniteSet(R)
  BY <1>4, InsertAssumption, FS_Surjection
<1>6. \A S \in R : IsFiniteSet(S)
  BY <1>1, <1>3
<1>7. IsFiniteSet(UNION R)
  BY <1>5, <1>6, FS_UNION
<1> QED
  BY <1>3, <1>7 DEF Db!Addr

\* A list of slots without a has room for a.
LEMMA RoomInList ==
  ASSUME NEW s \in Seq(Db!Addr), IsInjective(s), NEW a \in Db!Addr, a \notin ToSet(s),
         NEW t, NEW x, NEW p \in Db!Places(t, x, s)
  PROVE  p \in Db!Positions
<1>1. PICK r, n : r = Append(s, a) /\ n = Len(s) + 1
  OBVIOUS
<1>2. /\ r \in Seq(Db!Addr) /\ IsInjective(r)
  BY <1>1, AppendSet
<1>3. Len(s) \in Nat /\ Len(r) = n /\ n \in Nat
  BY <1>1
<1>4. \A i, j \in 1 .. Len(r) : r[i] = r[j] => i = j
  <2>1. r \in Seq(Db!Addr)
    BY <1>2
  <2> QED
    BY <1>2, <2>1, SetOfList
<1>5. r \in Injection(1 .. n, Db!Addr)
  <2>1. r \in [1 .. n -> Db!Addr]
    BY <1>2, <1>3
  <2> QED
    BY <1>3, <1>4, <2>1 DEF Injection, IsInjective
<1>7. Cardinality(1 .. n) <= Cardinality(Db!Addr)
  BY <1>5, FiniteSlots, FS_Injection
<1>8. Cardinality(1 .. n) = n
  BY <1>3, FS_Interval
<1>9. Cardinality(Db!Addr) \in Nat
  BY FiniteSlots, FS_CardinalityType
<1>10. Db!Positions = 1 .. Cardinality(Db!Addr)
  BY DEF Db!Positions, Db!Cardinality, Cardinality
<1>11. p \in 1 .. n
  BY <1>1, <1>3 DEF Db!Places
<1> QED
  BY <1>3, <1>7, <1>8, <1>9, <1>10, <1>11

\* The hash tables by value, as the history variable records them.
LEMMA ContentsVal ==
  ASSUME NEW h, pHashTable[h] \subseteq PtrEntry
  PROVE  Contents(h) = Val(pHashTable[h], recList)
<1>1. \A e \in pHashTable[h] : [e EXCEPT !.list = recList[e.list]] = Cell(e, recList[e.list])
  BY DEF PtrEntry, Cell
<1> QED
  BY <1>1 DEF Contents, Val

\* At the end of an insert index x of table t, whose value now is V, is index
\* H of the published memory after KrDb's insert at position p.
InsertsAt(t, x, a, d, H, V, p) ==
  LET G == IF committed.buff[a] = NoRecord THEN H ELSE Db!IndexDel(H, committed.buff, x, a)
      C == [committed.buff EXCEPT ![a] = d]
  IN  /\ p \in Db!Places(t, x, Db!ListAt(G, C, x, d[x])) /\ p \in Db!Positions
      /\ V = Db!IndexIns(G, C, x, a, p)

LEMMA LinkedInserts ==
  ASSUME MemInv, NEW t \in Tables, NEW x \in TableIndexes[t], NEW a \in Db!Slots(t), NEW d \in Db!RecordOf(t),
         NEW B, B = Part(t, committed.buff), B[a] # NoRecord => B[a] \in Db!RecordOf(t), NEW H,
         DbP!IndexOK(H, B, x, Stored(t, B)), NEW ht, NEW rl,
         Linked(ht, rl, t, x, a, [B EXCEPT ![a] = d], Gone(H, B, x, a))
  PROVE  \E p : InsertsAt(t, x, a, d, H, Val(ht, rl), p)
<1>1. PICK C0, C, B1, D, G : /\ C0 = committed.buff /\ C = [C0 EXCEPT ![a] = d] /\ B1 = [B EXCEPT ![a] = d]
                             /\ D = Stored(t, B) /\ G = Gone(H, B, x, a)
  OBVIOUS
<1>2. /\ \A b \in Db!Slots(t) : b \in Db!Addr /\ B[b] = C0[b] /\ b \in DOMAIN C0 /\ b \in DOMAIN B
      /\ a \in Db!Addr
  BY <1>1, SlotFacts DEF Part, MemInv
<1>3. /\ \A b \in D : b \in Db!Slots(t)
      /\ B[a] # NoRecord <=> a \in D
      /\ a \in D => B[a][x] \in Keys
      /\ d[x] \in Keys
  BY <1>1 DEF Stored, Db!RecordOf
<1>4. B1[a] = d /\ C[a] = d /\ \A b \in D \ {a} : C[b] = B1[b]
  BY <1>1, <1>2, <1>3
<1>5. SameIn(H, B, C0, x, D)
  <2>1. DbP!IndexOK(H, B, x, D) /\ \A b \in D : C0[b] = B[b]
    BY <1>1, <1>2, <1>3
  <2> QED
    BY <2>1, SameInMemory
<1>6. G = IF C0[a] = NoRecord THEN H ELSE Db!IndexDel(H, C0, x, a)
  BY <1>1, <1>2, <1>3, <1>5 DEF Gone, SameIn
<1>7. DbP!IndexOK(G, B1, x, D \ {a})
  <2>1. DbP!IndexOK(H, B, x, D)
    BY <1>1
  <2>2. DbP!IndexOK(Gone(H, B, x, a), [B EXCEPT ![a] = d], x, D \ {a})
    BY ONLY <1>3, <2>1, GoneOK
  <2> QED
    BY <1>1, <2>2
<1>8. SameIn(G, B1, C, x, D \ {a})
  <2>1. PICK E : E = D \ {a}
    OBVIOUS
  <2>2. DbP!IndexOK(G, B1, x, E) /\ \A b \in E : C[b] = B1[b]
    BY <1>4, <1>7, <2>1
  <2>3. SameIn(G, B1, C, x, E)
    BY <2>2, SameInMemory
  <2> QED
    BY <2>1, <2>3
<1>9. PICK list : list = Db!ListAt(G, B1, x, d[x])
  OBVIOUS
<1>10. PICK p \in Db!Places(t, x, list) : Val(ht, rl) = Db!IndexIns(G, B1, x, a, p)
  BY <1>1, <1>4, <1>9 DEF Linked
<1>11. p \in Db!Positions
  <2>1. PICK E : E = D \ {a}
    OBVIOUS
  <2>2. DbP!IndexOK(G, B1, x, E)
    BY <1>7, <2>1
  <2>3. list \in Seq(Db!Addr) /\ IsInjective(list) /\ ToSet(list) = {b \in E : Db!FieldAt(B1, b, x) = d[x]}
    BY <1>9, <2>2, FindsList
  <2>4. list \in Seq(Db!Addr)
    BY <2>3
  <2>5. a \notin ToSet(list)
    BY <2>1, <2>3
  <2> QED
    BY <1>2, <1>10, <2>3, <2>4, <2>5, RoomInList
<1>12. Db!ListAt(G, C, x, d[x]) = list /\ Val(ht, rl) = Db!IndexIns(G, C, x, a, p)
  BY <1>4, <1>8, <1>9, <1>10 DEF SameIn
<1> QED
  BY <1>1, <1>6, <1>10, <1>11, <1>12 DEF InsertsAt

\* What kr_unlock_table publishes.
Publishes(w, t, a, d, B) ==
  /\ At(w, t, a, d, B) /\ a = <<t, committed.loc[t]>>
  /\ committed'.buff = [committed.buff EXCEPT ![a] = d]
  /\ committed'.loc = [committed.loc EXCEPT ![t] = Db!LocAfter(t)]
  /\ committed'.num = [committed.num EXCEPT ![t] = Db!NumAfter(t, a)]
  /\ committed'.hash = [h \in Db!Hashes |-> IF t \in h.tables THEN Val(pHashTable[h], recList)
                                                           ELSE committed.hash[h]]
  /\ Part(t, pRecordBuff) = Part(t, committed'.buff)
  /\ uiRecordLoc' = [uiRecordLoc EXCEPT ![t] = Db!LocAfter(t)]
  /\ uiRecordNum' = [uiRecordNum EXCEPT ![t] = Db!NumAfter(t, a)]

LEMMA UnlockPublishes ==
  ASSUME Unshared, IInv, NEW w \in Workers, Unlock(w)
  PROVE  \E t, a, d, B : Publishes(w, t, a, d, B)
<1>1. WorkType /\ MemInv /\ HeapInv
  BY DEF IInv
<1>2. pc[w] = "unlock" /\ Inside(w)
  BY DEF Unlock, Inside
<1>3. RingAt(w)
  BY <1>2, Inserting
<1>4. PICK t, a, d, B : At(w, t, a, d, B)
  BY <1>2, Inserting
<1>5. /\ t = job[w].table /\ a = job[w].slot /\ d = job[w].data /\ B = Part(t, committed.buff)
      /\ t \in Tables /\ a \in Db!Slots(t) /\ a \in Db!Addr
  BY <1>4 DEF At
<1>6. /\ a = <<t, committed.loc[t]>> /\ uiRecordLoc[t] = committed.loc[t]
      /\ uiRecordNum[t] = IF B[a] # NoRecord THEN committed.num[t] - 1 ELSE committed.num[t]
      /\ Part(t, pRecordBuff) = [B EXCEPT ![a] = d]
  BY <1>2, <1>3, <1>5 DEF RingAt
<1>7. PICK num, loc : /\ num = IF uiRecordNum[t] + 1 > Keep[t] THEN Keep[t] ELSE uiRecordNum[t] + 1
                      /\ loc = (uiRecordLoc[t] + 1) % Keep[t]
  OBVIOUS
<1>8. /\ uiRecordNum' = [uiRecordNum EXCEPT ![t] = num] /\ uiRecordLoc' = [uiRecordLoc EXCEPT ![t] = loc]
      /\ committed' = Publish(t, pRecordBuff, loc, num)
  BY <1>5, <1>7 DEF Unlock
<1>9. B[a] = committed.buff[a]
  BY <1>5 DEF Part
<1>10. loc = Db!LocAfter(t)
  BY <1>6, <1>7 DEF Db!LocAfter
<1>11. num = Db!NumAfter(t, a)
  <2>1. PICK n : n = (IF committed.buff[a] = NoRecord THEN committed.num[t] ELSE committed.num[t] - 1) + 1
    OBVIOUS
  <2>2. uiRecordNum[t] + 1 = n
    BY <1>6, <1>9, <2>1
  <2>3. Db!NumAfter(t, a) = IF n > Keep[t] THEN Keep[t] ELSE n
    BY <2>1 DEF Db!NumAfter
  <2> QED
    BY <1>7, <2>2, <2>3
<1>12. /\ committed'.buff = [b \in Db!Addr |-> IF b[1] = t THEN pRecordBuff[b] ELSE committed.buff[b]]
       /\ committed'.loc = [committed.loc EXCEPT ![t] = loc]
       /\ committed'.num = [committed.num EXCEPT ![t] = num]
       /\ committed'.hash = [h \in Db!Hashes |-> IF t \in h.tables THEN Contents(h) ELSE committed.hash[h]]
  BY <1>8 DEF Publish
<1>13. committed'.buff = [committed.buff EXCEPT ![a] = d]
  <2>1. \A b \in Db!Addr : b[1] = t => b \in Db!Slots(t)
    BY AddrFacts
  <2>2. \A b \in Db!Slots(t) : pRecordBuff[b] = IF b = a THEN d ELSE committed.buff[b]
    <3>1. \A b \in Db!Slots(t) : [B EXCEPT ![a] = d][b] = pRecordBuff[b]
      BY <1>6 DEF Part
    <3>2. \A b \in Db!Slots(t) : b \in DOMAIN B /\ B[b] = committed.buff[b]
      BY <1>5 DEF Part
    <3> QED
      BY <3>1, <3>2
  <2>3. a[1] = t
    BY <1>5, SlotFacts
  <2>4. committed.buff \in [Db!Addr -> Data \cup {NoRecord}]
    BY <1>1 DEF MemInv
  <2>5. \A b \in Db!Addr : (IF b[1] = t THEN pRecordBuff[b] ELSE committed.buff[b])
                           = [committed.buff EXCEPT ![a] = d][b]
    BY <2>1, <2>2, <2>3, <2>4
  <2> QED
    BY <1>12, <2>4, <2>5
<1>14. \A h \in Db!Hashes : Contents(h) = Val(pHashTable[h], recList)
  <2>1. \A h \in Db!Hashes : pHashTable[h] \subseteq PtrEntry
    BY <1>1 DEF MemInv
  <2> QED
    BY <2>1, ContentsVal
<1>15. Part(t, pRecordBuff) = Part(t, committed'.buff)
  <2>1. \A b \in Db!Slots(t) : committed'.buff[b] = pRecordBuff[b]
    BY <1>5, <1>12, SlotFacts
  <2> QED
    BY <2>1 DEF Part
<1>16. committed'.hash = [h \in Db!Hashes |-> IF t \in h.tables THEN Val(pHashTable[h], recList)
                                                           ELSE committed.hash[h]]
  BY <1>12, <1>14
<1> QED
  BY <1>4, <1>6, <1>8, <1>10, <1>11, <1>12, <1>13, <1>15, <1>16 DEF Publishes

\* The record in the reused slot has a list in every index.
LEMMA NoDeleteTrap ==
  ASSUME MemInv, NEW w, NEW t, NEW a, NEW d, NEW B, At(w, t, a, d, B)
  PROVE  ~ Db!DeleteTraps(t, a)
<1>1. /\ t \in Tables /\ a \in Db!Slots(t) /\ B = Part(t, committed.buff)
      /\ B[a] # NoRecord <=> a \in Stored(t, B)
  BY DEF At
<1>2. ASSUME committed.buff[a] # NoRecord, NEW x \in TableIndexes[t]
      PROVE  Db!Lookup(committed.hash[Db!HashOf(t, x)], committed.buff, x,
                       Db!FieldAt(committed.buff, a, x)) # {}
  <2>1. PICK D, H, C, k : /\ D = Stored(t, B) /\ H = committed.hash[Db!HashOf(t, x)] /\ C = committed.buff
                          /\ k = Db!FieldAt(C, a, x)
    OBVIOUS
  <2>2. \A b \in Db!Slots(t) : B[b] = C[b]
    BY <1>1, <2>1 DEF Part
  <2>3. a \in D /\ \A b \in D : C[b] = B[b]
    BY <1>1, <1>2, <2>1, <2>2 DEF Stored
  <2>4. DbP!IndexOK(H, B, x, D)
    BY <2>1 DEF At
  <2>5. DbP!IndexOK(H, C, x, D)
    BY <2>3, <2>4, OtherRecords
  <2>6. PICK e \in H : a \in ToSet(e.list)
    BY <2>3, <2>5, EntriesOf
  <2>7. e.hash = k
    BY <2>1, <2>5, <2>6, EntriesOf
  <2>8. Db!Lookup(H, C, x, k) = {f \in H : f.hash = k}
    BY <2>5, FindsEntry
  <2> QED
    BY <2>1, <2>6, <2>7, <2>8
<1> QED
  BY <1>2 DEF Db!DeleteTraps

\* The unlock is the insert of KrDb.
LEMMA UnlockInserts ==
  ASSUME Unshared, IInv, NEW w \in Workers, Unlock(w)
  PROVE  Db!Next
<1>1. PICK t, a, d, B : Publishes(w, t, a, d, B)
  BY UnlockPublishes
<1>2. At(w, t, a, d, B) /\ MemInv /\ pc[w] = "unlock"
  BY <1>1 DEF Publishes, IInv, Unlock
<1>3. /\ t \in Tables /\ a \in Db!Slots(t) /\ d \in Db!RecordOf(t) /\ B = Part(t, committed.buff)
      /\ B[a] # NoRecord => B[a] \in Db!RecordOf(t)
  BY <1>2 DEF At
<1>4. todo[w] = {}
  <2>1. Inside(w)
    BY <1>2 DEF Inside
  <2>2. RingAt(w)
    BY <2>1, Inserting
  <2> QED
    BY <1>2, <2>2 DEF RingAt
<1>5. ASSUME NEW x \in TableIndexes[t]
      PROVE  \E p : InsertsAt(t, x, a, d, committed.hash[Db!HashOf(t, x)],
                              Val(pHashTable[Db!HashOf(t, x)], recList), p)
  <2>1. PICK h, H, ht : h = Db!HashOf(t, x) /\ H = committed.hash[h] /\ ht = pHashTable[h]
    OBVIOUS
  <2>2. /\ DbP!IndexOK(H, B, x, Stored(t, B))
        /\ IndexAt(pc[w], todo[w], held[w], ht, recList, h, t, x, a, d, B, H)
    BY <1>2, <2>1 DEF At
  <2>3. Linked(ht, recList, t, x, a, [B EXCEPT ![a] = d], Gone(H, B, x, a))
    BY <1>2, <1>4, <2>2 DEF IndexAt
  <2>4. \E p : InsertsAt(t, x, a, d, H, Val(ht, recList), p)
    BY <1>2, <1>3, <2>2, <2>3, LinkedInserts
  <2> QED
    BY <2>1, <2>4
<1>6. PICK pos : /\ pos = [x \in TableIndexes[t] |->
                            CHOOSE p : InsertsAt(t, x, a, d, committed.hash[Db!HashOf(t, x)],
                                                 Val(pHashTable[Db!HashOf(t, x)], recList), p)]
  OBVIOUS
<1>7. \A x \in TableIndexes[t] :
        InsertsAt(t, x, a, d, committed.hash[Db!HashOf(t, x)],
                  Val(pHashTable[Db!HashOf(t, x)], recList), pos[x])
  BY <1>5, <1>6
<1>8. pos \in [TableIndexes[t] -> Db!Positions]
  BY <1>6, <1>7 DEF InsertsAt
<1>9. PICK C : C = [committed.buff EXCEPT ![a] = d]
  OBVIOUS
<1>10. ASSUME NEW x \in TableIndexes[t], NEW h, h = Db!HashOf(t, x)
       PROVE  /\ pos[x] \in Db!Places(t, x, Db!ListAt(Db!AfterDelete(h, a), C, x, d[x]))
              /\ Val(pHashTable[h], recList) = Db!IndexIns(Db!AfterDelete(h, a), C, x, a, pos[x])
  <2>1. h.id = x
    BY <1>3, <1>10, HashFacts
  <2>2. PICK G : G = Db!AfterDelete(h, a)
    OBVIOUS
  <2>3. G = IF committed.buff[a] = NoRecord THEN committed.hash[h]
            ELSE Db!IndexDel(committed.hash[h], committed.buff, x, a)
    BY <2>1, <2>2 DEF Db!AfterDelete
  <2>4. InsertsAt(t, x, a, d, committed.hash[h], Val(pHashTable[h], recList), pos[x])
    BY <1>7, <1>10
  <2>5. /\ pos[x] \in Db!Places(t, x, Db!ListAt(G, C, x, d[x]))
        /\ Val(pHashTable[h], recList) = Db!IndexIns(G, C, x, a, pos[x])
    BY <1>9, <2>3, <2>4 DEF InsertsAt
  <2> QED
    BY <2>2, <2>5
<1>11. ASSUME NEW h \in Db!Hashes
       PROVE  committed'.hash[h] = IF t \in h.tables
                                   THEN Db!IndexIns(Db!AfterDelete(h, a), C, h.id, a, pos[h.id])
                                   ELSE committed.hash[h]
  <2>1. CASE t \in h.tables
    <3>1. h.id \in TableIndexes[t] /\ Db!HashOf(t, h.id) = h
      BY <2>1, HashOfTable
    <3>2. committed'.hash[h] = Val(pHashTable[h], recList)
      BY <1>1, <2>1 DEF Publishes
    <3> QED
      BY <1>10, <2>1, <3>1, <3>2
  <2>2. CASE t \notin h.tables
    BY <1>1, <2>2 DEF Publishes
  <2> QED
    BY <2>1, <2>2
<1>12. committed'.hash = [h \in Db!Hashes |-> IF t \in h.tables
                            THEN Db!IndexIns(Db!AfterDelete(h, a), C, h.id, a, pos[h.id])
                            ELSE committed.hash[h]]
  <2>1. committed'.hash = [h \in Db!Hashes |-> committed'.hash[h]]
    BY <1>1 DEF Publishes
  <2> QED
    BY <1>11, <2>1
<1>13. ~ Db!DeleteTraps(t, a)
  BY <1>2, NoDeleteTrap
<1>14. Db!Insert(t, d, pos)
  <2>1. a = <<t, committed.loc[t]>>
    BY <1>1 DEF Publishes
  <2>2. \A x \in TableIndexes[t] :
          pos[x] \in Db!Places(t, x, Db!ListAt(Db!AfterDelete(Db!HashOf(t, x), a), C, x, d[x]))
    BY <1>10
  <2>3. /\ committed'.buff = C
        /\ committed'.loc = [committed.loc EXCEPT ![t] = Db!LocAfter(t)]
        /\ committed'.num = [committed.num EXCEPT ![t] = Db!NumAfter(t, a)]
    BY <1>1, <1>9 DEF Publishes
  <2> QED
    BY <1>9, <1>12, <1>13, <2>1, <2>2, <2>3 DEF Db!Insert
<1> QED
  BY <1>3, <1>8, <1>14 DEF Db!Next

\* kr_unlock_table: the table is as published, and nobody is inside it.
LEMMA UnlockStep ==
  ASSUME Unshared, IInv, NEW w \in Workers, Unlock(w)
  PROVE  IInv'
<1>1. WorkType /\ MemInv /\ HeapInv /\ DbP!IInv /\ NoLeakedList
  BY DEF IInv
<1>2. PICK t, a, d, B : Publishes(w, t, a, d, B)
  BY UnlockPublishes
<1>3. t = job[w].table /\ t \in Tables /\ tLock[t] = w /\ a \in Db!Slots(t) /\ a \in Db!Addr
  BY <1>2 DEF Publishes, At
<1>4. DbP!IInv'
  BY <1>1, UnlockInserts, PublishedStep
<1>5. /\ pc[w] = "unlock" /\ pc' = [pc EXCEPT ![w] = "idle"] /\ job' = [job EXCEPT ![w] = NoJob]
      /\ tLock' = [tLock EXCEPT ![t] = Free]
      /\ UNCHANGED <<pRecordBuff, pHashTable, recList, todo, held>>
  BY <1>3 DEF Unlock, UnlockTable
<1>6. /\ pc'[w] = "idle" /\ \A v \in Workers \ {w} : pc'[v] = pc[v] /\ job'[v] = job[v]
      /\ \A u \in Tables \ {t} : tLock'[u] = tLock[u]
  BY <1>1, <1>5 DEF WorkType
<1>7. WorkType'
  <2>1. pc' \in [Workers -> Points]
    BY <1>1, <1>5 DEF WorkType, Points
  <2>2. job' \in [Workers -> [table : Tables \cup {Free}, data : Data \cup {Free}, slot : Db!Addr \cup {Free}]]
    BY <1>1, <1>5 DEF WorkType, NoJob
  <2>3. tLock' \in [Tables -> Workers \cup {Free}]
    BY <1>1, <1>5 DEF WorkType
  <2>4. \A v \in Workers : pc'[v] # "idle" => /\ job'[v].table \in Tables
                                              /\ job'[v].data \in Db!RecordOf(job'[v].table)
    BY <1>1, <1>6 DEF WorkType
  <2> QED
    BY <1>1, <1>5, <2>1, <2>2, <2>3, <2>4 DEF WorkType
<1>8. /\ committed'.buff \in [Db!Addr -> Data \cup {NoRecord}]
      /\ committed'.loc \in [Tables -> Nat] /\ committed'.num \in [Tables -> Nat]
      /\ committed'.hash \in [Db!Hashes -> SUBSET DbP!Entry]
  <2>1. /\ committed'.buff \in [DbP!Addr -> (UNION {DbP!RecordOf(u) : u \in Tables}) \cup {NoRecord}]
        /\ committed'.loc \in [Tables -> Nat] /\ committed'.num \in [Tables -> Nat]
        /\ committed'.hash \in [DbP!Hashes -> SUBSET DbP!Entry]
    BY <1>4 DEF DbP!IInv, DbP!RingType
  <2>2. (UNION {DbP!RecordOf(u) : u \in Tables}) = Data
    BY SameDb DEF Data
  <2> QED
    BY <2>1, <2>2, SameDb
<1>9. committed' = [buff |-> committed'.buff, loc |-> committed'.loc,
                    num |-> committed'.num, hash |-> committed'.hash]
  BY DEF Unlock, Publish
<1>10. /\ uiRecordLoc'[t] = committed'.loc[t] /\ uiRecordNum'[t] = committed'.num[t]
       /\ \A u \in Tables \ {t} : /\ uiRecordLoc'[u] = uiRecordLoc[u] /\ uiRecordNum'[u] = uiRecordNum[u]
                                  /\ committed'.loc[u] = committed.loc[u] /\ committed'.num[u] = committed.num[u]
  BY <1>1, <1>2, <1>3 DEF Publishes, MemInv
<1>11. MemInv'
  <2>1. uiRecordLoc' \in [Tables -> Nat] /\ uiRecordNum' \in [Tables -> Int]
    <3>1. committed'.loc[t] \in Nat /\ committed'.num[t] \in Int
      BY <1>3, <1>8
    <3>2. DOMAIN uiRecordLoc' = Tables /\ DOMAIN uiRecordNum' = Tables
      BY <1>1, <1>2 DEF Publishes, MemInv
    <3>3. /\ uiRecordLoc' = [u \in Tables |-> uiRecordLoc'[u]]
          /\ uiRecordNum' = [u \in Tables |-> uiRecordNum'[u]]
      BY <1>1, <1>2, <3>2 DEF Publishes, MemInv
    <3> QED
      BY <1>1, <1>10, <3>1, <3>3 DEF MemInv
  <2> QED
    BY <1>1, <1>5, <1>8, <1>9, <2>1 DEF MemInv
<1>12. \A u \in Tables \ {t} : Part(u, committed'.buff) = Part(u, committed.buff)
  <2>1. \A u \in Tables \ {t} : \A b \in Db!Slots(u) : committed'.buff[b] = committed.buff[b]
    BY <1>1, <1>2, <1>3, SlotFacts DEF Publishes, MemInv
  <2> QED
    BY <2>1 DEF Part
<1>13. ASSUME NEW u \in Tables \ {t}, NEW x \in TableIndexes[u]
       PROVE  committed'.hash[Db!HashOf(u, x)] = committed.hash[Db!HashOf(u, x)]
  <2>1. PICK h : h = Db!HashOf(u, x)
    OBVIOUS
  <2>2. h \in Db!Hashes /\ u \in h.tables
    BY <2>1, HashFacts
  <2>3. t \notin h.tables
    BY <2>2 DEF Unshared
  <2> QED
    BY <1>2, <2>1, <2>2, <2>3 DEF Publishes
<1>14. Others(w, {t})
  BY <1>5, <1>6, <1>10, <1>12, <1>13 DEF Others
<1>15. NoLeakedList'
  BY <1>1, <1>5, <1>6, NoListTouched
<1>16. Quiet(t)'
  <2>1. ASSUME NEW x \in TableIndexes[t]
        PROVE  Val(pHashTable[Db!HashOf(t, x)], recList) = committed'.hash[Db!HashOf(t, x)]
    BY <1>2, <1>3, HashFacts DEF Publishes
  <2>2. Part(t, pRecordBuff) = Part(t, committed'.buff)
    BY <1>2 DEF Publishes
  <2> QED
    BY <1>5, <1>10, <2>1, <2>2 DEF Quiet
<1>17. HeapOK(recList)' /\ \A x \in TableIndexes[t] :
         PtrOK(pHashTable'[Db!HashOf(t, x)], recList', Db!HashOf(t, x), Db!Slots(t))
  BY <1>1, <1>3, <1>5 DEF HeapInv
<1>18. ~ Inside(w)'
  BY <1>6 DEF Inside
<1> QED
  <2>1. {t} \in SUBSET Tables /\ \A u \in {t} : tLock[u] \in {Free, w}
    BY <1>3
  <2>2. \A u \in {t} : /\ tLock'[u] = Free => Quiet(u)'
                       /\ \A y \in TableIndexes[u] :
                            PtrOK(pHashTable'[Db!HashOf(u, y)], recList', Db!HashOf(u, y), Db!Slots(u))
    BY <1>16, <1>17
  <2> QED
    BY <1>4, <1>7, <1>11, <1>14, <1>15, <1>17, <1>18, <2>1, <2>2, Assemble

-----------------------------------------------------------------------------
(***************************************************************************)
(* The invariant.                                                          *)
(***************************************************************************)

\* The empty tables that the first insert meets.
LEMMA PublishedInit == Init => Db!Init
BY DEF Init, Db!Init

LEMMA InsertInit == Init => IInv
<1> SUFFICES ASSUME Init
             PROVE  IInv
  OBVIOUS
<1>1. WorkType
  BY DEF Init, WorkType, Points, NoJob
<1>2. LockInv /\ \A w \in Workers : ~ Inside(w)
  BY DEF Init, LockInv, Inside
<1>3. Db!Init
  BY PublishedInit
<1>4. MemInv
  BY InsertAssumption DEF Init, MemInv, PtrEntry
<1>5. HeapInv
  <2>1. HeapOK(recList)
    BY DEF Init, HeapOK
  <2>2. \A t \in Tables : \A x \in TableIndexes[t] : pHashTable[Db!HashOf(t, x)] = {}
    BY HashFacts DEF Init
  <2>3. \A rl, h, S : PtrOK({}, rl, h, S)
    BY DEF PtrOK
  <2> QED
    BY <2>1, <2>2, <2>3 DEF HeapInv
<1>6. DbP!IInv
  <2>1. DbP!Init
    BY <1>3, SameDb DEF Db!Init, DbP!Init
  <2> QED
    BY <2>1, Schema, DbP!StoreInit
<1>7. ASSUME NEW t \in Tables
      PROVE  Quiet(t)
  <2>1. \A x \in TableIndexes[t] : /\ pHashTable[Db!HashOf(t, x)] = {}
                                   /\ committed.hash[Db!HashOf(t, x)] = {}
    BY HashFacts DEF Init
  <2>2. Val({}, recList) = {}
    BY DEF Val
  <2>3. /\ pRecordBuff = committed.buff /\ uiRecordLoc = committed.loc /\ uiRecordNum = committed.num
    BY DEF Init
  <2> QED
    BY <2>1, <2>2, <2>3 DEF Quiet
<1>8. NoLeakedList
  BY DEF Init, NoLeakedList
<1> QED
  BY <1>1, <1>2, <1>4, <1>5, <1>6, <1>7, <1>8 DEF IInv

\* A step that changes nothing.
LEMMA Stutters ==
  ASSUME IInv, UNCHANGED vars
  PROVE  IInv'
<1>1. /\ UNCHANGED <<pRecordBuff, uiRecordLoc, uiRecordNum, pHashTable, recList>>
      /\ UNCHANGED <<tLock, pc, job, todo, held, committed>>
  BY DEF vars, shared
<1>2. WorkType' /\ LockInv' /\ MemInv' /\ HeapInv' /\ NoLeakedList'
  BY <1>1 DEF IInv, WorkType, LockInv, Inside, MemInv, HeapInv, NoLeakedList
<1>3. DbP!IInv'
  BY <1>1, NotPublished DEF IInv
<1>4. \A t \in Tables : tLock'[t] = Free => Quiet(t)'
  BY <1>1 DEF IInv, Quiet
<1>5. \A w \in Workers : Inside(w)' => Progress(w)'
  BY <1>1 DEF IInv, Inside, Progress, RingAt, StageOf
<1> QED
  BY <1>2, <1>3, <1>4, <1>5 DEF IInv

LEMMA InsertSteps ==
  ASSUME Unshared, IInv, [Next]_vars
  PROVE  IInv'
<1>1. CASE UNCHANGED vars
  BY <1>1, Stutters
<1>2. ASSUME NEW w \in Workers, NEW t \in Tables, NEW data \in Db!RecordOf(t), Begin(w, t, data)
      PROVE  IInv'
  BY <1>2, BeginStep
<1>3. ASSUME NEW w \in Workers, Step(w)
      PROVE  IInv'
  BY <1>3, LockStep, UnlinkStep, RekeyStep, FillStep, FindStep, LinkStep, UnlockStep DEF Step
<1> QED
  BY <1>1, <1>2, <1>3 DEF Next

-----------------------------------------------------------------------------
(***************************************************************************)
(* What the invariant says of the inserts, for every schema in which no    *)
(* two tables share an index.                                              *)
(***************************************************************************)

\* The inductive invariant holds in every reachable state.
THEOREM InsertInvariant ==
  ASSUME Unshared
  PROVE  Spec => []IInv
<1>1. Init => IInv
  BY InsertInit
<1>2. IInv /\ [Next]_vars => IInv'
  BY InsertSteps
<1> QED
  BY <1>1, <1>2, PTL DEF Spec

\* Program points, lock owners, lists and list pointers have their types.
THEOREM InsertTypes ==
  ASSUME Unshared
  PROVE  Spec => []TypeOK
<1>1. ASSUME IInv
      PROVE  TypeOK
  <2>1. WorkType /\ MemInv /\ HeapInv
    BY <1>1 DEF IInv
  <2>2. ASSUME NEW h \in DOMAIN pHashTable, NEW e \in pHashTable[h]
        PROVE  e.list \in DOMAIN recList
    <3>1. h \in Db!Hashes
      BY <2>1 DEF MemInv
    <3>2. PICK t \in Tables : t \in h.tables
      BY <3>1, TableOfHash
    <3>3. h.id \in TableIndexes[t] /\ Db!HashOf(t, h.id) = h
      BY <3>1, <3>2, HashOfTable
    <3>4. PtrOK(pHashTable[h], recList, h, Db!Slots(t))
      BY <2>1, <3>3 DEF HeapInv
    <3> QED
      BY <3>4 DEF PtrOK
  <2>3. \A w \in Workers : pc[w] \in {"rekey", "link"} => held[w] \in ListIds
    BY <1>1, HoldsList
  <2> QED
    BY <2>1, <2>2, <2>3 DEF TypeOK, WorkType, Points, HeapInv, HeapOK
<1> QED
  BY <1>1, InsertInvariant, PTL

\* No worker dereferences NULL or a freed list: kr_rebuild_index_del finds the
\* list of the record it deletes, and no other insert frees a list in use.
THEOREM InsertsNeverTrap ==
  ASSUME Unshared
  PROVE  Spec => []NoTrap
<1>1. ASSUME IInv, NEW w \in Workers
      PROVE  ~ Traps(w)
  <2>1. ASSUME pc[w] = "unlink"
        PROVE  Found(w, pRecordBuff) # {}
    <3>1. PICK t, a, d, B, x, h, ht, H, M, n : Doing(w, t, a, d, B, x, h, ht, H, M, n)
      BY <1>1, <2>1, IsDoing
    <3>2. PICK S, D : S = Db!Slots(t) /\ D = Stored(t, B)
      OBVIOUS
    <3>3. M = B /\ B[a] # NoRecord /\ a \in D
      BY <2>1, <3>1, <3>2 DEF Doing, At
    <3>4. Val(ht, recList) = H
      BY <2>1, <3>1 DEF Doing, IndexAt
    <3>5. /\ PtrOK(ht, recList, h, S) /\ HeapOK(recList) /\ DbP!IndexOK(Val(ht, recList), B, x, D)
          /\ Found(w, pRecordBuff) = Db!Lookup(ht, B, x, B[a][x])
      BY <3>1, <3>2, <3>3, <3>4 DEF Doing
    <3>6. Db!Lookup(ht, B, x, B[a][x]) # {}
      BY <3>3, <3>5, UnlinkStage
    <3> QED
      BY <3>5, <3>6
  <2>2. ASSUME pc[w] \in {"rekey", "link"}
        PROVE  held[w] \in DOMAIN recList
    BY <1>1, <2>2, HoldsList
  <2> QED
    BY <2>1, <2>2 DEF Traps
<1>2. IInv => NoTrap
  BY <1>1 DEF NoTrap
<1> QED
  BY <1>2, InsertInvariant, PTL

\* Two inserts are never inside the same hash table: the mutex of the table is
\* enough to protect its indexes.
THEOREM IndexesAreExclusive ==
  ASSUME Unshared
  PROVE  Spec => []IndexExclusive
<1>1. ASSUME IInv
      PROVE  IndexExclusive
  <2> SUFFICES ASSUME NEW v \in Workers, NEW w \in Workers, v # w, Inside(v), Inside(w),
                      NEW x \in TableIndexes[job[v].table], NEW y \in TableIndexes[job[w].table],
                      Db!HashOf(job[v].table, x) = Db!HashOf(job[w].table, y)
               PROVE  FALSE
    BY DEF IndexExclusive
  <2>1. /\ job[v].table \in Tables /\ tLock[job[v].table] = v
        /\ job[w].table \in Tables /\ tLock[job[w].table] = w
    BY <1>1 DEF IInv, WorkType, LockInv, Inside
  <2>2. PICK t \in Tables, u \in Tables : t = job[v].table /\ u = job[w].table
    BY <2>1
  <2>3. x \in TableIndexes[t] /\ y \in TableIndexes[u] /\ Db!HashOf(t, x) = Db!HashOf(u, y)
    BY <2>2
  <2>4. t = u
    BY <2>3, OwnHash
  <2> QED
    BY <2>1, <2>2, <2>4
<1> QED
  BY <1>1, InsertInvariant, PTL

\* A table that nobody has locked is exactly as its last kr_unlock_table left
\* it, its memory, its ring, its indexes and their lists.
THEOREM UnlockedTablesAreCommitted ==
  ASSUME Unshared
  PROVE  Spec => []UnlockedIsCommitted
<1>1. ASSUME IInv
      PROVE  UnlockedIsCommitted
  <2> SUFFICES ASSUME NEW t \in Tables, tLock[t] = Free
               PROVE  /\ \A a \in Db!Slots(t) : pRecordBuff[a] = committed.buff[a]
                      /\ uiRecordLoc[t] = committed.loc[t]
                      /\ uiRecordNum[t] = committed.num[t]
                      /\ \A h \in Db!Hashes : t \in h.tables => Contents(h) = committed.hash[h]
    BY DEF UnlockedIsCommitted
  <2>1. Quiet(t) /\ MemInv
    BY <1>1 DEF IInv
  <2>2. ASSUME NEW a \in Db!Slots(t)
        PROVE  pRecordBuff[a] = committed.buff[a]
    <3>1. Part(t, pRecordBuff)[a] = Part(t, committed.buff)[a]
      BY <2>1 DEF Quiet
    <3> QED
      BY <3>1 DEF Part
  <2>3. ASSUME NEW h \in Db!Hashes, t \in h.tables
        PROVE  Contents(h) = committed.hash[h]
    <3>1. h.id \in TableIndexes[t] /\ Db!HashOf(t, h.id) = h
      BY <2>3, HashOfTable
    <3>2. Val(pHashTable[h], recList) = committed.hash[h]
      BY <2>1, <3>1 DEF Quiet
    <3>3. pHashTable[h] \subseteq PtrEntry
      BY <2>1 DEF MemInv
    <3> QED
      BY <3>2, <3>3, ContentsVal
  <2> QED
    BY <2>1, <2>2, <2>3 DEF Quiet
<1> QED
  BY <1>1, InsertInvariant, PTL

\* Every record list in the heap is stored in a hash table or about to be:
\* kr_list_new and kr_list_destroy pair up.
THEOREM NoListIsLeaked ==
  ASSUME Unshared
  PROVE  Spec => []NoLeakedList
<1>1. IInv => NoLeakedList
  BY DEF IInv
<1> QED
  BY <1>1, InsertInvariant, PTL

\* The interleaved inserts are the atomic inserts of KrDb, in the order of
\* their unlocks: every other step leaves the published tables alone.
THEOREM InsertsAreAtomic ==
  ASSUME Unshared
  PROVE  Spec => AtomicInsert
<1>1. Init => Db!Init
  BY PublishedInit
<1>2. ASSUME IInv, [Next]_vars
      PROVE  [Db!Next]_(Db!vars)
  <2>1. CASE UNCHANGED committed
    BY <2>1 DEF Db!vars
  <2>2. ASSUME NEW w \in Workers, Unlock(w)
        PROVE  Db!Next
    BY <1>2, <2>2, UnlockInserts
  <2>3. (\E w \in Workers : Unlock(w)) \/ UNCHANGED committed
    BY <1>2 DEF Next, Step, Begin, Lock, Unlink, Rekey, Fill, Find, Link, vars
  <2> QED
    BY <2>1, <2>2, <2>3
<1> QED
  BY <1>1, <1>2, InsertInvariant, PTL DEF Spec, AtomicInsert

\* A locked table is locked by a worker that is inside an insert into it.
LockHeld ==
  \A t \in Tables : tLock[t] # Free =>
    /\ tLock[t] \in Workers /\ Inside(tLock[t]) /\ job[tLock[t]].table = t

LEMMA LockHeldStep ==
  ASSUME IInv, LockHeld, [Next]_vars
  PROVE  LockHeld'
<1> USE DEF Inside
<1>1. WorkType /\ LockInv
  BY DEF IInv
<1>2. ASSUME tLock' = tLock, \A v \in Workers : Inside(v) => Inside(v)' /\ job'[v].table = job[v].table
      PROVE  LockHeld'
  BY <1>2 DEF LockHeld
<1>3. CASE UNCHANGED vars
  BY <1>2, <1>3 DEF vars
<1>4. ASSUME NEW w \in Workers, NEW t \in Tables, NEW data \in Db!RecordOf(t), Begin(w, t, data)
      PROVE  LockHeld'
  BY <1>1, <1>2, <1>4 DEF Begin, WorkType
<1>5. ASSUME NEW w \in Workers, Unlink(w) \/ Rekey(w) \/ Fill(w) \/ Find(w) \/ Link(w)
      PROVE  LockHeld'
  <2>1. tLock' = tLock /\ job' = job /\ Inside(w)
    BY <1>5 DEF Unlink, Rekey, Fill, Find, Link
  <2>2. \E p \in {"unlink", "rekey", "fill", "find", "link", "unlock"} : pc' = [pc EXCEPT ![w] = p]
    BY <1>5 DEF Unlink, Rekey, Fill, Find, Link
  <2> QED
    BY <1>1, <1>2, <2>1, <2>2 DEF WorkType
<1>6. ASSUME NEW w \in Workers, Lock(w)
      PROVE  LockHeld'
  <2>1. PICK t : t = job[w].table
    OBVIOUS
  <2>2. /\ pc[w] = "lock" /\ tLock[t] = Free /\ tLock' = [tLock EXCEPT ![t] = w]
        /\ \E p \in {"unlink", "fill"} : pc' = [pc EXCEPT ![w] = p]
        /\ \A v \in Workers : job'[v].table = job[v].table
    BY <1>1, <1>6, <2>1 DEF Lock, LockTable, WorkType
  <2>3. Inside(w)' /\ \A v \in Workers \ {w} : pc'[v] = pc[v]
    BY <1>1, <2>2 DEF WorkType
  <2>4. ~ Inside(w)
    BY <2>2
  <2>5. \A u \in Tables : tLock'[u] = IF u = t THEN w ELSE tLock[u]
    BY <1>1, <2>2 DEF WorkType
  <2> QED
    BY <2>1, <2>2, <2>3, <2>4, <2>5 DEF LockHeld
<1>7. ASSUME NEW w \in Workers, Unlock(w)
      PROVE  LockHeld'
  <2>1. PICK t : t = job[w].table
    OBVIOUS
  <2>2. /\ tLock' = [tLock EXCEPT ![t] = Free] /\ Inside(w)
        /\ \A v \in Workers \ {w} : pc'[v] = pc[v] /\ job'[v] = job[v]
    BY <1>1, <1>7, <2>1 DEF Unlock, UnlockTable, WorkType
  <2>3. \A u \in Tables : tLock'[u] = IF u = t THEN Free ELSE tLock[u]
    BY <1>1, <2>2 DEF WorkType
  <2>4. \A u \in Tables : u # t => tLock[u] # w
    BY <2>1, <2>2, InsertAssumption DEF LockHeld
  <2> QED
    BY <2>2, <2>3, <2>4 DEF LockHeld
<1> QED
  BY <1>3, <1>4, <1>5, <1>6, <1>7 DEF Next, Step

\* When no insert is running, every stored record is found through every index
\* of its table (what fails when two tables share an index).
THEOREM StoredRecordsAreIndexed ==
  ASSUME Unshared
  PROVE  Spec => []StoredIsIndexed
<1>1. Init => LockHeld
  BY DEF Init, LockHeld
<1>2. IInv /\ LockHeld /\ [Next]_vars => LockHeld'
  BY LockHeldStep
<1>3. ASSUME IInv, LockHeld
      PROVE  StoredIsIndexed
  <2> SUFFICES ASSUME \A w \in Workers : pc[w] \in {"idle", "lock"},
                      NEW a \in Db!Addr, pRecordBuff[a] # NoRecord, NEW x \in TableIndexes[a[1]]
               PROVE  \E e \in pHashTable[Db!HashOf(a[1], x)] : a \in ToSet(recList[e.list])
    BY DEF StoredIsIndexed
  <2>1. PICK t, B, h : t = a[1] /\ B = Part(t, committed.buff) /\ h = Db!HashOf(t, x)
    OBVIOUS
  <2>2. t \in Tables /\ a \in Db!Slots(t) /\ x \in TableIndexes[t]
    BY <2>1, AddrFacts
  <2>3. tLock[t] = Free
    <3>1. \A w \in Workers : ~ Inside(w)
      BY DEF Inside
    <3> QED
      BY <1>3, <2>2, <3>1 DEF LockHeld
  <2>4. Quiet(t) /\ MemInv /\ DbP!IInv
    BY <1>3, <2>2, <2>3 DEF IInv
  <2>5. Part(t, pRecordBuff) = B /\ Val(pHashTable[h], recList) = committed.hash[h]
    BY <2>1, <2>2, <2>4 DEF Quiet
  <2>6. a \in Stored(t, B)
    <3>1. Part(t, pRecordBuff)[a] = pRecordBuff[a]
      BY <2>2 DEF Part
    <3> QED
      BY <2>2, <2>5, <3>1 DEF Stored
  <2>7. DbP!IndexOK(Val(pHashTable[h], recList), B, x, Stored(t, B))
    BY <2>1, <2>2, <2>4, <2>5, Published
  <2>8. PICK V, D : V = Val(pHashTable[h], recList) /\ D = Stored(t, B)
    OBVIOUS
  <2>9. DbP!IndexOK(V, B, x, D) /\ a \in D
    BY <2>6, <2>7, <2>8
  <2>10. PICK v \in V : a \in ToSet(v.list)
    BY <2>9, EntriesOf
  <2>11. PICK e \in pHashTable[h] : v = Cell(e, recList[e.list])
    BY <2>8, <2>10 DEF Val
  <2> QED
    BY <2>1, <2>10, <2>11 DEF Cell
<1> QED
  BY <1>1, <1>2, <1>3, InsertInvariant, PTL DEF Spec

\* Inserts on several threads implement the sliding window: in the order in
\* which the tables are unlocked, each appends one event to its table and drops
\* the oldest of a full one (kr_engine_append under kr_lock_table).
THEOREM InsertsSlideTheWindow ==
  ASSUME Unshared
  PROVE  Spec => DbP!WindowSpec
<1>1. Db!Init => DbP!Init
  BY SameDb DEF Db!Init, DbP!Init
<1>2. [Db!Next]_(Db!vars) => [DbP!Next]_(DbP!vars)
  BY SameNext DEF Db!vars, DbP!vars
<1>3. Spec => DbP!Spec
  BY <1>1, <1>2, InsertsAreAtomic, PTL DEF AtomicInsert, DbP!Spec
<1> QED
  BY <1>3, Schema, DbP!RingIsWindow

=============================================================================
