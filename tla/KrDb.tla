-------------------------------- MODULE KrDb --------------------------------
(***************************************************************************)
(* The in-memory event store of krdb (krdb/kr_db_kernel.c, krdb/kr_db.c).  *)
(*                                                                         *)
(* A table is a ring of lSizeKeepValue record slots (pRecordBuff); an      *)
(* insert overwrites the slot at uiRecordLoc.  An index is a hash table    *)
(* from a key to the list of the records with that key.  The hash table    *)
(* owns no keys: the key of an entry is a POINTER to the field of one of   *)
(* the records in the entry's list, so it must be moved to another record  *)
(* before that slot is overwritten.  An index of type KR_INDEXTYPE_DB has  *)
(* one hash table for all the tables that declare the same index id.       *)
(*                                                                         *)
(* One step of this module is one whole kr_db_insert: what the code does   *)
(* when nothing else touches the index.  KrDbInsert splits the insert into *)
(* the steps that the worker threads interleave.                           *)
(***************************************************************************)
EXTENDS Integers, FiniteSets, SequencesExt

CONSTANTS
  Tables,        \* the tables of the database
  Keep,          \* lSizeKeepValue of each table
  Keys,          \* the values an indexed field takes
  TableIndexes,  \* the index ids in each table's pIndexList
  DbIndexes,     \* the <<table, id>> whose eIndexType is KR_INDEXTYPE_DB
  SortIndexes,   \* the <<table, id>> whose iSortFieldId is >= 0
  NoRecord       \* a slot whose ptTable is NULL

\* A record, as far as the indexes can tell: its key in each index.
RecordOf(t) == [TableIndexes[t] -> Keys]

ASSUME SchemaAssumption ==
  /\ Keep \in [Tables -> Nat \ {0}]
  /\ DOMAIN TableIndexes = Tables
  /\ \A p \in DbIndexes : /\ p = <<p[1], p[2]>>
                          /\ p[1] \in Tables
                          /\ p[2] \in TableIndexes[p[1]]
  /\ \A t \in Tables : NoRecord \notin RecordOf(t)

\* The address of a record: the table and the slot in its pRecordBuff.
Slots(t) == {t} \X (0 .. Keep[t] - 1)
Addr == UNION {Slots(t) : t \in Tables}

\* kr_create_index: the hash table behind index x of table t, named by the
\* tables that share it.
HashOf(t, x) ==
  [tables |-> IF <<t, x>> \in DbIndexes
              THEN {u \in Tables : <<u, x>> \in DbIndexes}
              ELSE {t},
   id     |-> x]

Hashes == UNION {{HashOf(t, x) : x \in TableIndexes[t]} : t \in Tables}

VARIABLES
  pRecordBuff,   \* the record in each slot
  uiRecordLoc,   \* the slot of each table that the next insert writes
  uiRecordNum,   \* the number of records each table counts
  pHashTable     \* the entries of each hash table

vars == <<pRecordBuff, uiRecordLoc, uiRecordNum, pHashTable>>

\* An entry of a hash table: the hash of the key it was stored under (here
\* the key itself: hashes of different keys are told apart by the key
\* comparison anyway), the record its key pointer points into, the list.
Entry == [hash : Keys, key : Addr, list : Seq(Addr)]

-----------------------------------------------------------------------------
(***************************************************************************)
(* Hash table operations, as krdb uses them.  ht is a set of entries, buff *)
(* the memory the key pointers point into.                                 *)
(***************************************************************************)

\* kr_get_field_value of the field that index x of the record's table names.
FieldAt(buff, a, x) == buff[a][x]

\* The nodes that a lookup of k finds: same hash, and equal key bytes.
Lookup(ht, buff, x, k) ==
  {e \in ht : e.hash = k /\ FieldAt(buff, e.key, x) = k}

\* kr_hashtable_lookup: the list stored under k, empty where there is none.
ListAt(ht, buff, x, k) ==
  IF Lookup(ht, buff, x, k) = {}
  THEN <<>>
  ELSE (CHOOSE e \in Lookup(ht, buff, x, k) : TRUE).list

\* Mutant of Replace: the entry found under the key stays beside the new one.
ReplaceAddsOnly(ht, buff, x, a, list) ==
  ht \cup {[hash |-> FieldAt(buff, a, x), key |-> a, list |-> list]}

\* kr_hashtable_replace: the entry takes the new key pointer and the list.
Replace(ht, buff, x, a, list) ==
  LET k == FieldAt(buff, a, x)
  IN  (ht \ Lookup(ht, buff, x, k)) \cup {[hash |-> k, key |-> a, list |-> list]}

\* Mutant of IndexIns: the list of the key is not looked up first.
IndexInsNewList(ht, buff, x, a, pos) == Replace(ht, buff, x, a, <<a>>)

\* kr_rebuild_index_ins, with the new record at position pos of the list.
IndexIns(ht, buff, x, a, pos) ==
  Replace(ht, buff, x, a,
          InsertAt(ListAt(ht, buff, x, FieldAt(buff, a, x)), pos, a))

\* Mutant of Places: kr_list_add_head in place of kr_list_add_tail.
PlacesHead(t, x, list) ==
  IF <<t, x>> \in SortIndexes THEN 1 .. Len(list) + 1 ELSE {1}

\* Where the new record goes in a list.  kr_list_add_tail appends.  For a
\* sorted index kr_list_add_sorted hands kr_db_field_compare the ADDRESS of
\* iSortFieldId where it expects the field number, so the comparison reads
\* an arbitrary field: the record may end up anywhere.
Places(t, x, list) ==
  IF <<t, x>> \in SortIndexes THEN 1 .. Len(list) + 1 ELSE {Len(list) + 1}

\* Mutant of IndexDel: the key pointer stays where it is.
IndexDelKeepsKey(ht, buff, x, a) ==
  LET k    == FieldAt(buff, a, x)
      rest == RemoveFirst(ListAt(ht, buff, x, k), a)
  IN  IF rest = <<>>
      THEN ht \ Lookup(ht, buff, x, k)
      ELSE {IF e \in Lookup(ht, buff, x, k) THEN [e EXCEPT !.list = rest] ELSE e : e \in ht}

\* kr_rebuild_index_del: the record leaves its list; a list that is left
\* with records gets its key pointer moved to the last of them, an empty
\* list goes away with its entry.
IndexDel(ht, buff, x, a) ==
  LET k    == FieldAt(buff, a, x)
      rest == RemoveFirst(ListAt(ht, buff, x, k), a)
  IN  IF rest = <<>>
      THEN ht \ Lookup(ht, buff, x, k)
      ELSE Replace(ht, buff, x, Last(rest), rest)

\* Mutant of AfterDelete: the slot is reused without kr_delete_record.
AfterDeleteSkipped(h, a) == pHashTable[h]

\* kr_delete_record on one hash table, for the slot that is being reused.
AfterDelete(h, a) ==
  IF pRecordBuff[a] = NoRecord
  THEN pHashTable[h]
  ELSE IndexDel(pHashTable[h], pRecordBuff, h.id, a)

\* kr_list_length(NULL) in kr_rebuild_index_del: the record that is deleted
\* has no list, and the process traps.
DeleteTraps(t, a) ==
  /\ pRecordBuff[a] # NoRecord
  /\ \E x \in TableIndexes[t] :
        Lookup(pHashTable[HashOf(t, x)], pRecordBuff, x,
               FieldAt(pRecordBuff, a, x)) = {}

\* uiRecordNum after the delete of the reused slot and the insert, which
\* caps it at lSizeKeepValue.
NumAfter(t, a) ==
  LET n == (IF pRecordBuff[a] = NoRecord THEN uiRecordNum[t]
                                         ELSE uiRecordNum[t] - 1) + 1
  IN  IF n > Keep[t] THEN Keep[t] ELSE n

\* Mutant of LocAfter: the newest slot is written again.
LocAfterStays(t) ==
  IF uiRecordNum[t] = Keep[t] THEN uiRecordLoc[t] ELSE (uiRecordLoc[t] + 1) % Keep[t]

LocAfter(t) == (uiRecordLoc[t] + 1) % Keep[t]

-----------------------------------------------------------------------------
\* kr_create_db, kr_create_table, kr_create_index: empty rings and indexes.
Init ==
  /\ pRecordBuff = [a \in Addr |-> NoRecord]
  /\ uiRecordLoc = [t \in Tables |-> 0]
  /\ uiRecordNum = [t \in Tables |-> 0]
  /\ pHashTable = [h \in Hashes |-> {}]

\* kr_db_insert of an event into table t.  pos is where the record goes in
\* the list of each index.
Insert(t, data, pos) ==
  LET a    == <<t, uiRecordLoc[t]>>
      buff == [pRecordBuff EXCEPT ![a] = data]
  IN  /\ ~ DeleteTraps(t, a)
      /\ \A x \in TableIndexes[t] :
           pos[x] \in Places(t, x, ListAt(AfterDelete(HashOf(t, x), a), buff, x, data[x]))
      /\ pRecordBuff' = buff
      /\ pHashTable' =
           [h \in Hashes |->
              IF t \in h.tables
              THEN IndexIns(AfterDelete(h, a), buff, h.id, a, pos[h.id])
              ELSE pHashTable[h]]
      /\ uiRecordNum' = [uiRecordNum EXCEPT ![t] = NumAfter(t, a)]
      /\ uiRecordLoc' = [uiRecordLoc EXCEPT ![t] = LocAfter(t)]

\* A list holds each record at most once, so it is never longer than this.
Positions == 1 .. Cardinality(Addr)

Next ==
  \E t \in Tables : \E data \in RecordOf(t) :
    \E pos \in [TableIndexes[t] -> Positions] : Insert(t, data, pos)

Spec == Init /\ [][Next]_vars

-----------------------------------------------------------------------------
\* The slots that hold a record.
Live == {a \in Addr : pRecordBuff[a] # NoRecord}

\* kr_db_select: the records that index x of table t returns for key k.
Select(t, x, k) == ListAt(pHashTable[HashOf(t, x)], pRecordBuff, x, k)

\* The slots of t in use, oldest first.
AgeOrder(t) ==
  [j \in 1 .. uiRecordNum[t] |->
     <<t, (uiRecordLoc[t] + Keep[t] - uiRecordNum[t] + j - 1) % Keep[t]>>]

\* Slots hold records of their own table, the ring position stays inside the
\* ring and entries are well formed (what the allocations of kr_create_table
\* and kr_create_index provide for).
TypeOK ==
  /\ pRecordBuff \in [Addr -> (UNION {RecordOf(t) : t \in Tables}) \cup {NoRecord}]
  /\ \A a \in Live : pRecordBuff[a] \in RecordOf(a[1])
  /\ uiRecordLoc \in [Tables -> Nat]
  /\ \A t \in Tables : uiRecordLoc[t] < Keep[t]
  /\ uiRecordNum \in [Tables -> Nat]
  /\ pHashTable \in [Hashes -> SUBSET Entry]

\* No key pointer dangles: the key of every entry lies in a record that is
\* in the entry's own list, and still reads as the key the entry was stored
\* under, although kr_create_record_from_data overwrites slots in place
\* (kr_rebuild_index_del moves the pointer).
KeyAnchored ==
  \A h \in Hashes : \A e \in pHashTable[h] :
    /\ e.key \in ToSet(e.list)
    /\ e.key \in Live
    /\ FieldAt(pRecordBuff, e.key, h.id) = e.hash

\* A list holds records of the tables that share the index, with the key of
\* the entry, each once: kr_delete_record took the overwritten ones out.
IndexSound ==
  \A h \in Hashes : \A e \in pHashTable[h] :
    /\ IsInjective(e.list)
    /\ \A a \in ToSet(e.list) : /\ a \in Live
                                /\ a[1] \in h.tables
                                /\ FieldAt(pRecordBuff, a, h.id) = e.hash

\* Every stored record is found through each index of its table
\* (kr_insert_record: rebuild all hash-indexes); so kr_rebuild_index_del
\* never meets a NULL list.
IndexComplete ==
  \A h \in Hashes : \A a \in Live :
    a[1] \in h.tables => \E e \in pHashTable[h] : a \in ToSet(e.list)

\* A key has one list: kr_hashtable_replace finds the entry it replaces
\* although the key pointer of that entry points into a record.
OneEntryPerKey ==
  \A h \in Hashes : \A e, f \in pHashTable[h] : e.hash = f.hash => e = f

\* uiRecordNum counts the slots in use, and the slots in use are the first
\* ones until the ring has gone round (kr_insert_record, kr_delete_record).
RingFilled ==
  \A t \in Tables :
    /\ uiRecordNum[t] <= Keep[t]
    /\ uiRecordNum[t] < Keep[t] => uiRecordLoc[t] = uiRecordNum[t]
    /\ \A a \in Slots(t) : a \in Live <=> a[2] < uiRecordNum[t]

\* In an index without sort field a select returns the records of a table
\* from the oldest to the newest, each once, whichever records of other
\* tables are in between, and leaves none out (kr_list_add_tail,
\* kr_list_remove).
ListsFollowAge ==
  \A t \in Tables : \A x \in TableIndexes[t] : \A k \in Keys :
    <<t, x>> \notin SortIndexes =>
      LET list == Select(t, x, k)
          age  == AgeOrder(t)
      IN  /\ {a \in ToSet(list) : a[1] = t} = {a \in ToSet(age) : FieldAt(pRecordBuff, a, x) = k}
          /\ \A i, j \in DOMAIN list : \A m, n \in DOMAIN age :
               list[i] = age[m] /\ list[j] = age[n] => (i < j <=> m < n)

\* The ring implements the sliding window of KrWindow.
Window == INSTANCE KrWindow WITH
  Record <- RecordOf,
  window <- [t \in Tables |-> [j \in 1 .. uiRecordNum[t] |-> pRecordBuff[AgeOrder(t)[j]]]]

\* Each insert keeps the lSizeKeepValue latest events of its table and drops
\* the oldest (the ring arithmetic of kr_insert_record).
WindowSpec == Window!Spec

=============================================================================
