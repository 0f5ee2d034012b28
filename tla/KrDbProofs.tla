----------------------------- MODULE KrDbProofs -----------------------------
(***************************************************************************)
(* Proofs of the safety of KrDb, for any tables, any index schema, any     *)
(* ring sizes and any set of keys.                                         *)
(***************************************************************************)
EXTENDS KrDb, KrListProofs

-----------------------------------------------------------------------------
(***************************************************************************)
(* One hash table.                                                         *)
(***************************************************************************)

\* The hash table ht indexes exactly the records in D by their field x.
IndexOK(ht, buff, x, D) ==
  /\ ht \subseteq Entry
  /\ \A e \in ht : /\ e.key \in ToSet(e.list)
                   /\ IsInjective(e.list)
                   /\ ToSet(e.list) \subseteq D
                   /\ \A a \in ToSet(e.list) : FieldAt(buff, a, x) = e.hash
  /\ \A a \in D : \E e \in ht : a \in ToSet(e.list)
  /\ \A e, f \in ht : e.hash = f.hash => e = f

\* A lookup is not misled by the key pointers: it finds the entry that was
\* stored under the key (kr_hashtable_lookup_node).
LEMMA LookupFinds ==
  ASSUME NEW ht, NEW buff, NEW x, NEW D, NEW k, IndexOK(ht, buff, x, D)
  PROVE  Lookup(ht, buff, x, k) = {e \in ht : e.hash = k}
BY DEF IndexOK, Lookup

\* The list of a key holds the records with that key, each once.
LEMMA ListFound ==
  ASSUME NEW ht, NEW buff, NEW x, NEW D, NEW k, IndexOK(ht, buff, x, D)
  PROVE  /\ ListAt(ht, buff, x, k) \in Seq(Addr)
         /\ IsInjective(ListAt(ht, buff, x, k))
         /\ ToSet(ListAt(ht, buff, x, k)) = {a \in D : FieldAt(buff, a, x) = k}
<1> DEFINE found == Lookup(ht, buff, x, k)
<1>1. found = {e \in ht : e.hash = k}
  BY LookupFinds
<1>2. CASE found = {}
  <2>1. ListAt(ht, buff, x, k) = <<>>
    BY <1>2 DEF ListAt
  <2>2. /\ <<>> \in Seq(Addr)
        /\ IsInjective(<<>>)
        /\ ToSet(<<>>) = {}
    BY DEF IsInjective, ToSet
  <2>3. {a \in D : FieldAt(buff, a, x) = k} = {}
    <3> SUFFICES ASSUME NEW a \in D, FieldAt(buff, a, x) = k
                 PROVE  FALSE
      OBVIOUS
    <3>1. PICK e \in ht : a \in ToSet(e.list)
      BY DEF IndexOK
    <3>2. e.hash = k
      BY <3>1 DEF IndexOK
    <3> QED
      BY <1>1, <1>2, <3>2
  <2> QED
    BY <2>1, <2>2, <2>3
<1>3. CASE found # {}
  <2>1. PICK e \in found : e = CHOOSE f \in found : TRUE
    BY <1>3
  <2>2. ListAt(ht, buff, x, k) = e.list
    BY <1>3, <2>1 DEF ListAt
  <2>3. e \in ht /\ e.hash = k /\ e.list \in Seq(Addr) /\ IsInjective(e.list)
    BY <1>1 DEF IndexOK, Entry
  <2>4. ASSUME NEW a \in ToSet(e.list)
        PROVE  a \in D /\ FieldAt(buff, a, x) = k
    BY <2>3 DEF IndexOK
  <2>5. ASSUME NEW a \in D, FieldAt(buff, a, x) = k
        PROVE  a \in ToSet(e.list)
    <3>1. PICK f \in ht : a \in ToSet(f.list)
      BY DEF IndexOK
    <3>2. f.hash = e.hash
      BY <2>3, <2>5, <3>1 DEF IndexOK
    <3> QED
      BY <2>3, <3>1, <3>2 DEF IndexOK
  <2> QED
    BY <2>2, <2>3, <2>4, <2>5
<1> QED
  BY <1>2, <1>3

\* The entry of a key goes away, and the records with that key with it.
LEMMA DropOK ==
  ASSUME NEW ht, NEW buff, NEW x, NEW D, NEW k, IndexOK(ht, buff, x, D)
  PROVE  IndexOK(ht \ Lookup(ht, buff, x, k), buff, x, {a \in D : FieldAt(buff, a, x) # k})
<1>1. Lookup(ht, buff, x, k) = {e \in ht : e.hash = k}
  BY LookupFinds
<1> QED
  BY <1>1 DEF IndexOK

\* The entry of a key gets another list, anchored in one of its records
\* (kr_hashtable_replace).
LEMMA ReplaceOK ==
  ASSUME NEW ht, NEW buff, NEW x, NEW D, NEW list \in Seq(Addr), NEW a \in ToSet(list),
         IndexOK(ht, buff, x, D), IsInjective(list), FieldAt(buff, a, x) \in Keys,
         \A b \in ToSet(list) : FieldAt(buff, b, x) = FieldAt(buff, a, x)
  PROVE  IndexOK(Replace(ht, buff, x, a, list), buff, x,
                 {b \in D : FieldAt(buff, b, x) # FieldAt(buff, a, x)} \cup ToSet(list))
<1> DEFINE k    == FieldAt(buff, a, x)
           rest == ht \ Lookup(ht, buff, x, k)
           R    == {b \in D : FieldAt(buff, b, x) # k}
           new  == [hash |-> k, key |-> a, list |-> list]
<1>1. IndexOK(rest, buff, x, R)
  BY DropOK
<1>2. \A e \in rest : e.hash # k
  BY LookupFinds
<1>3. Replace(ht, buff, x, a, list) = rest \cup {new}
  BY DEF Replace
<1>4. new \in Entry
  BY SetOfList DEF Entry
<1>5. new.hash = k /\ new.key = a /\ new.list = list
  OBVIOUS
<1> HIDE DEF k, rest, R, new
<1>6. IndexOK(rest \cup {new}, buff, x, R \cup ToSet(list))
  <2>1. rest \cup {new} \subseteq Entry
    BY <1>1, <1>4 DEF IndexOK
  <2>2. ASSUME NEW e \in rest \cup {new}
        PROVE  /\ e.key \in ToSet(e.list)
               /\ IsInjective(e.list)
               /\ ToSet(e.list) \subseteq R \cup ToSet(list)
               /\ \A b \in ToSet(e.list) : FieldAt(buff, b, x) = e.hash
    <3>1. CASE e = new
      BY <1>5, <3>1 DEF k
    <3>2. CASE e \in rest
      BY <1>1, <3>2 DEF IndexOK
    <3> QED
      BY <3>1, <3>2
  <2>3. ASSUME NEW b \in R \cup ToSet(list)
        PROVE  \E e \in rest \cup {new} : b \in ToSet(e.list)
    BY <1>1, <1>5 DEF IndexOK
  <2>4. ASSUME NEW e \in rest \cup {new}, NEW f \in rest \cup {new}, e.hash = f.hash
        PROVE  e = f
    BY <1>1, <1>2, <1>5, <2>4 DEF IndexOK
  <2> QED
    BY <2>1, <2>2, <2>3, <2>4 DEF IndexOK
<1> QED
  BY <1>3, <1>6 DEF R, k

\* kr_rebuild_index_ins adds the record to the index and disturbs nothing.
LEMMA IndexInsOK ==
  ASSUME NEW ht, NEW buff, NEW x, NEW D, NEW a \in Addr, a \notin D,
         IndexOK(ht, buff, x, D), FieldAt(buff, a, x) \in Keys,
         NEW pos \in 1 .. Len(ListAt(ht, buff, x, FieldAt(buff, a, x))) + 1
  PROVE  IndexOK(IndexIns(ht, buff, x, a, pos), buff, x, D \cup {a})
<1> DEFINE k    == FieldAt(buff, a, x)
           old  == ListAt(ht, buff, x, k)
           list == InsertAt(old, pos, a)
<1>1. /\ old \in Seq(Addr) /\ IsInjective(old)
      /\ ToSet(old) = {b \in D : FieldAt(buff, b, x) = k}
  BY ListFound
<1>2. a \notin ToSet(old)
  BY <1>1
<1>3. pos \in 1 .. Len(old) + 1
  OBVIOUS
<1>0. IndexIns(ht, buff, x, a, pos) = Replace(ht, buff, x, a, list)
  BY DEF IndexIns
<1> HIDE DEF old
<1>4. /\ list \in Seq(Addr) /\ IsInjective(list)
      /\ ToSet(list) = ToSet(old) \cup {a}
  BY <1>1, <1>2, <1>3, InsertAtSet
<1> HIDE DEF list
<1>5. /\ a \in ToSet(list)
      /\ \A b \in ToSet(list) : FieldAt(buff, b, x) = FieldAt(buff, a, x)
      /\ {b \in D : FieldAt(buff, b, x) # FieldAt(buff, a, x)} \cup ToSet(list) = D \cup {a}
  BY <1>1, <1>4
<1>6. IndexOK(Replace(ht, buff, x, a, list), buff, x,
              {b \in D : FieldAt(buff, b, x) # FieldAt(buff, a, x)} \cup ToSet(list))
  BY <1>4, <1>5, ReplaceOK
<1> QED
  BY <1>0, <1>5, <1>6

\* kr_rebuild_index_del takes the record out of the index, moves the key
\* pointer off it, and disturbs nothing else.
LEMMA IndexDelOK ==
  ASSUME NEW ht, NEW buff, NEW x, NEW D, NEW a \in D,
         IndexOK(ht, buff, x, D), FieldAt(buff, a, x) \in Keys
  PROVE  IndexOK(IndexDel(ht, buff, x, a), buff, x, D \ {a})
<1> DEFINE k    == FieldAt(buff, a, x)
           old  == ListAt(ht, buff, x, k)
           rest == RemoveFirst(old, a)
<1>1. /\ old \in Seq(Addr) /\ IsInjective(old)
      /\ ToSet(old) = {b \in D : FieldAt(buff, b, x) = k}
  BY ListFound
<1>0. IndexDel(ht, buff, x, a) = IF rest = <<>> THEN ht \ Lookup(ht, buff, x, k)
                                               ELSE Replace(ht, buff, x, Last(rest), rest)
  BY DEF IndexDel
<1> HIDE DEF old
<1>2. /\ rest \in Seq(Addr) /\ IsInjective(rest)
      /\ ToSet(rest) = ToSet(old) \ {a}
  <2>1. a \in ToSet(old)
    BY <1>1
  <2> QED
    BY <1>1, <2>1, RemoveFirstSet
<1> HIDE DEF rest
<1>3. CASE rest = <<>>
  <2>1. ToSet(rest) = {}
    BY <1>3 DEF ToSet
  <2>2. {b \in D : FieldAt(buff, b, x) # k} = D \ {a}
    BY <1>1, <1>2, <2>1
  <2>3. IndexOK(ht \ Lookup(ht, buff, x, k), buff, x, {b \in D : FieldAt(buff, b, x) # k})
    BY DropOK
  <2> QED
    BY <1>0, <1>3, <2>2, <2>3
<1>4. CASE rest # <<>>
  <2>1. PICK b \in ToSet(rest) : b = Last(rest)
    BY <1>2, <1>4, SetOfList
  <2>2. FieldAt(buff, b, x) = k
    BY <1>1, <1>2
  <2>3. \A c \in ToSet(rest) : FieldAt(buff, c, x) = FieldAt(buff, b, x)
    BY <1>1, <1>2, <2>2
  <2>4. {c \in D : FieldAt(buff, c, x) # FieldAt(buff, b, x)} \cup ToSet(rest) = D \ {a}
    BY <1>1, <1>2, <2>2
  <2>5. IndexOK(Replace(ht, buff, x, b, rest), buff, x,
                {c \in D : FieldAt(buff, c, x) # FieldAt(buff, b, x)} \cup ToSet(rest))
    BY <1>2, <2>2, <2>3, ReplaceOK
  <2> QED
    BY <1>0, <1>4, <2>1, <2>4, <2>5
<1> QED
  BY <1>3, <1>4

\* Overwriting a slot does not disturb an index that does not hold it.
LEMMA IndexFrame ==
  ASSUME NEW ht, NEW buff, NEW buff2, NEW x, NEW D, IndexOK(ht, buff, x, D),
         \A b \in D : buff2[b] = buff[b]
  PROVE  IndexOK(ht, buff2, x, D)
BY DEF IndexOK, FieldAt

-----------------------------------------------------------------------------
(***************************************************************************)
(* The schema and the ring.                                                *)
(***************************************************************************)

\* The hash table that a table takes part in is the one its own index names
\* (kr_create_index: tables that declare a db index share one hash table).
LEMMA HashOfTable ==
  ASSUME NEW h \in Hashes, NEW t \in h.tables
  PROVE  /\ t \in Tables
         /\ h.id \in TableIndexes[t]
         /\ HashOf(t, h.id) = h
<1>1. PICK u \in Tables : \E x \in TableIndexes[u] : h = HashOf(u, x)
  BY DEF Hashes
<1>2. PICK x \in TableIndexes[u] : h = HashOf(u, x)
  BY <1>1
<1>3. h.id = x
  BY <1>2 DEF HashOf
<1>4. CASE <<u, x>> \in DbIndexes
  <2>1. h.tables = {v \in Tables : <<v, x>> \in DbIndexes}
    BY <1>2, <1>4 DEF HashOf
  <2>2. t \in Tables /\ <<t, x>> \in DbIndexes
    BY <2>1
  <2>3. x \in TableIndexes[t]
    <3>1. \A p \in DbIndexes : p[2] \in TableIndexes[p[1]]
      BY SchemaAssumption
    <3> QED
      BY <2>2, <3>1
  <2>4. HashOf(t, x) = HashOf(u, x)
    BY <1>4, <2>2 DEF HashOf
  <2> QED
    BY <1>2, <1>3, <2>2, <2>3, <2>4
<1>5. CASE <<u, x>> \notin DbIndexes
  <2>1. h.tables = {u}
    BY <1>2, <1>5 DEF HashOf
  <2> QED
    BY <1>2, <1>3, <2>1
<1> QED
  BY <1>4, <1>5

\* An address names its table and a slot of it.
LEMMA AddrParts ==
  ASSUME NEW a \in Addr
  PROVE  /\ a[1] \in Tables
         /\ a[2] \in 0 .. Keep[a[1]] - 1
         /\ a = <<a[1], a[2]>>
<1>1. PICK t \in Tables : a \in {t} \X (0 .. Keep[t] - 1)
  BY DEF Addr, Slots
<1> QED
  BY <1>1

\* The slots of a table are addresses.
LEMMA SlotAddr ==
  ASSUME NEW t \in Tables, NEW i \in 0 .. Keep[t] - 1
  PROVE  <<t, i>> \in Slots(t) /\ <<t, i>> \in Addr
BY DEF Addr, Slots

\* The next slot of a ring of n (the ring arithmetic of kr_insert_record).
LEMMA NextSlot ==
  ASSUME NEW n \in Nat \ {0}, NEW i \in Nat, i < n
  PROVE  /\ (i + 1) % n \in Nat
         /\ (i + 1) % n < n
         /\ i + 1 < n => (i + 1) % n = i + 1
         /\ i + 1 = n => (i + 1) % n = 0
OBVIOUS

\* The slot that an insert into t writes, and what it writes.
LEMMA WrittenSlot ==
  ASSUME TypeOK, NEW t \in Tables, NEW data \in RecordOf(t), NEW pos, Insert(t, data, pos)
  PROVE  LET a == <<t, uiRecordLoc[t]>>
         IN  /\ a \in Addr
             /\ data # NoRecord
             /\ pRecordBuff' = [pRecordBuff EXCEPT ![a] = data]
             /\ pRecordBuff'[a] = data
             /\ \A b \in Addr : b # a => pRecordBuff'[b] = pRecordBuff[b]
             /\ Live' = Live \cup {a}
<1> DEFINE a == <<t, uiRecordLoc[t]>>
<1>1. uiRecordLoc[t] \in 0 .. Keep[t] - 1
  BY SchemaAssumption DEF TypeOK
<1>2. a \in Addr
  BY <1>1, SlotAddr
<1>3. data # NoRecord
  BY SchemaAssumption
<1>4. pRecordBuff' = [pRecordBuff EXCEPT ![a] = data]
  BY DEF Insert
<1> HIDE DEF a
<1>5. /\ pRecordBuff'[a] = data
      /\ \A b \in Addr : b # a => pRecordBuff'[b] = pRecordBuff[b]
  BY <1>2, <1>4 DEF TypeOK
<1>6. Live' = Live \cup {a}
  BY <1>2, <1>3, <1>5 DEF Live
<1> QED
  BY <1>2, <1>3, <1>4, <1>5, <1>6 DEF a

-----------------------------------------------------------------------------
(***************************************************************************)
(* The inductive invariant.                                                *)
(***************************************************************************)

\* The records that hash table h must hold.
Held(h) == {a \in Live : a[1] \in h.tables}

IndexInv == \A h \in Hashes : IndexOK(pHashTable[h], pRecordBuff, h.id, Held(h))

\* The types of everything but the hash tables.
RingType ==
  /\ pRecordBuff \in [Addr -> (UNION {RecordOf(t) : t \in Tables}) \cup {NoRecord}]
  /\ \A a \in Live : pRecordBuff[a] \in RecordOf(a[1])
  /\ uiRecordLoc \in [Tables -> Nat]
  /\ \A t \in Tables : uiRecordLoc[t] < Keep[t]
  /\ uiRecordNum \in [Tables -> Nat]

\* kr_db_insert keeps the ring in its bounds; that the count does not go below
\* zero needs RingFilled: only a slot in use is deleted.
LEMMA RingTypeStep ==
  ASSUME TypeOK, RingFilled, NEW t \in Tables, NEW data \in RecordOf(t), NEW pos,
         Insert(t, data, pos)
  PROVE  RingType'
<1> DEFINE a == <<t, uiRecordLoc[t]>>
<1>1. /\ a \in Addr
      /\ pRecordBuff' = [pRecordBuff EXCEPT ![a] = data]
      /\ pRecordBuff'[a] = data
      /\ \A b \in Addr : b # a => pRecordBuff'[b] = pRecordBuff[b]
      /\ Live' = Live \cup {a}
  BY WrittenSlot
<1>2. a[1] = t
  OBVIOUS
<1>a. uiRecordLoc[t] \in 0 .. Keep[t] - 1 /\ a \in Slots(t) /\ a[2] = uiRecordLoc[t]
  BY SchemaAssumption, SlotAddr DEF TypeOK
<1>b. /\ uiRecordLoc' = [uiRecordLoc EXCEPT ![t] = LocAfter(t)]
      /\ uiRecordNum' = [uiRecordNum EXCEPT ![t] = NumAfter(t, a)]
  BY DEF Insert
<1>c. NumAfter(t, a) \in Nat
  <2>1. Keep[t] \in Nat \ {0} /\ uiRecordNum[t] \in Nat
    BY SchemaAssumption DEF TypeOK
  <2>2. pRecordBuff[a] # NoRecord => uiRecordNum[t] > uiRecordLoc[t]
    BY <1>1, <1>a DEF RingFilled, Live
  <2> HIDE DEF a
  <2> QED
    BY <1>a, <2>1, <2>2 DEF NumAfter
<1> HIDE DEF a
<1>3. pRecordBuff' \in [Addr -> (UNION {RecordOf(u) : u \in Tables}) \cup {NoRecord}]
  BY <1>1 DEF TypeOK
<1>4. \A b \in Live' : pRecordBuff'[b] \in RecordOf(b[1])
  BY <1>1, <1>2 DEF TypeOK, Live
<1>5. LocAfter(t) \in Nat /\ LocAfter(t) < Keep[t]
  BY SchemaAssumption, NextSlot DEF TypeOK, LocAfter
<1>6. /\ uiRecordLoc' \in [Tables -> Nat]
      /\ \A u \in Tables : uiRecordLoc'[u] < Keep[u]
  BY <1>b, <1>5 DEF TypeOK
<1>7. uiRecordNum' \in [Tables -> Nat]
  BY <1>b, <1>c DEF TypeOK
<1> QED
  BY <1>3, <1>4, <1>6, <1>7 DEF RingType

\* kr_db_insert keeps the count and the position of every ring right.
LEMMA RingStep ==
  ASSUME TypeOK, RingFilled, NEW t \in Tables, NEW data \in RecordOf(t), NEW pos,
         Insert(t, data, pos)
  PROVE  RingFilled'
<1> DEFINE a == <<t, uiRecordLoc[t]>>
<1>1. a \in Addr /\ Live' = Live \cup {a}
  BY WrittenSlot
<1>2. /\ uiRecordLoc[t] \in 0 .. Keep[t] - 1 /\ a \in Slots(t)
      /\ a[1] = t /\ a[2] = uiRecordLoc[t]
  BY SchemaAssumption, SlotAddr DEF TypeOK
<1>3. /\ uiRecordLoc' = [uiRecordLoc EXCEPT ![t] = LocAfter(t)]
      /\ uiRecordNum' = [uiRecordNum EXCEPT ![t] = NumAfter(t, a)]
  BY DEF Insert
<1> HIDE DEF a
<1>4. Keep[t] \in Nat \ {0} /\ uiRecordNum[t] \in Nat /\ uiRecordLoc[t] \in Nat
  BY SchemaAssumption DEF TypeOK
<1>5. /\ uiRecordNum[t] <= Keep[t]
      /\ uiRecordNum[t] < Keep[t] => uiRecordLoc[t] = uiRecordNum[t]
      /\ \A b \in Slots(t) : b \in Live <=> b[2] < uiRecordNum[t]
  BY DEF RingFilled
<1>6. NumAfter(t, a) = IF uiRecordNum[t] < Keep[t] THEN uiRecordNum[t] + 1 ELSE Keep[t]
  BY <1>1, <1>2, <1>4, <1>5 DEF NumAfter, Live
<1>7. /\ LocAfter(t) = (uiRecordLoc[t] + 1) % Keep[t]
      /\ uiRecordLoc[t] + 1 < Keep[t] => LocAfter(t) = uiRecordLoc[t] + 1
  BY <1>2, <1>4, NextSlot DEF LocAfter
<1>8. \A b \in Slots(t) : b[2] \in 0 .. Keep[t] - 1 /\ b = <<t, b[2]>>
  BY DEF Slots
<1>9. ASSUME NEW u \in Tables, u # t
      PROVE  /\ uiRecordNum'[u] = uiRecordNum[u] /\ uiRecordLoc'[u] = uiRecordLoc[u]
             /\ \A b \in Slots(u) : b \in Live' <=> b \in Live
  <2>1. \A b \in Slots(u) : b[1] = u
    BY DEF Slots
  <2> QED
    BY <1>1, <1>2, <1>3, <1>9, <2>1 DEF TypeOK
<1>10. uiRecordNum'[t] = NumAfter(t, a) /\ uiRecordLoc'[t] = LocAfter(t)
  BY <1>3 DEF TypeOK
<1>11. /\ uiRecordNum'[t] <= Keep[t]
       /\ uiRecordNum'[t] < Keep[t] => uiRecordLoc'[t] = uiRecordNum'[t]
  BY <1>4, <1>5, <1>6, <1>7, <1>10
<1>12. ASSUME NEW b \in Slots(t)
       PROVE  b \in Live' <=> b[2] < uiRecordNum'[t]
  <2>1. b = a <=> b[2] = uiRecordLoc[t]
    BY <1>2, <1>8 DEF a
  <2> QED
    BY <1>1, <1>2, <1>4, <1>5, <1>6, <1>8, <1>10, <2>1
<1> QED
  BY <1>9, <1>11, <1>12 DEF RingFilled

\* One hash table of the table that is written, after the old record of the
\* slot has left it and before the new one joins it: it is in order for what
\* is left, in the memory before and after the slot is written.
LEMMA OwnIndexDelete ==
  ASSUME TypeOK, IndexInv, NEW t \in Tables, NEW data \in RecordOf(t), NEW pos,
         Insert(t, data, pos), NEW h \in Hashes, t \in h.tables,
         NEW a, a = <<t, uiRecordLoc[t]>>
  PROVE  /\ IndexOK(AfterDelete(h, a), pRecordBuff', h.id, Held(h) \ {a})
         /\ FieldAt(pRecordBuff', a, h.id) = data[h.id] /\ data[h.id] \in Keys
         /\ pos[h.id] \in Places(t, h.id, ListAt(AfterDelete(h, a), pRecordBuff', h.id, data[h.id]))
         /\ pHashTable'[h] = IndexIns(AfterDelete(h, a), pRecordBuff', h.id, a, pos[h.id])
<1> DEFINE buff == [pRecordBuff EXCEPT ![a] = data]
           x    == h.id
           ht   == AfterDelete(h, a)
<1>1. /\ a \in Addr
      /\ pRecordBuff' = buff
      /\ buff[a] = data
      /\ \A b \in Addr : b # a => buff[b] = pRecordBuff[b]
      /\ Live' = Live \cup {a}
  <2>1. /\ pRecordBuff' = [pRecordBuff EXCEPT ![a] = data]
        /\ pRecordBuff'[a] = data
        /\ \A b \in Addr : b # a => pRecordBuff'[b] = pRecordBuff[b]
    BY WrittenSlot
  <2>2. a \in Addr /\ Live' = Live \cup {a}
    BY WrittenSlot
  <2> QED
    BY <2>1, <2>2
<1>2. x \in TableIndexes[t] /\ HashOf(t, x) = h
  BY HashOfTable
<1>3. /\ pos[x] \in Places(t, x, ListAt(AfterDelete(HashOf(t, x), a), buff, x, data[x]))
      /\ pHashTable'[h] = IndexIns(ht, buff, x, a, pos[x])
  BY <1>2 DEF Insert
<1>4. a[1] = t
  OBVIOUS
<1> HIDE DEF buff
<1>6. IndexOK(pHashTable[h], pRecordBuff, x, Held(h))
  BY DEF IndexInv
<1>7. IndexOK(ht, pRecordBuff, x, Held(h) \ {a})
  <2>1. CASE pRecordBuff[a] = NoRecord
    <3>1. ht = pHashTable[h] /\ Held(h) \ {a} = Held(h)
      BY <2>1 DEF AfterDelete, Held, Live
    <3> QED
      BY <1>6, <3>1
  <2>2. CASE pRecordBuff[a] # NoRecord
    <3>1. ht = IndexDel(pHashTable[h], pRecordBuff, x, a)
      BY <2>2 DEF AfterDelete
    <3>2. a \in Live /\ a \in Held(h)
      BY <1>1, <1>4, <2>2 DEF Held, Live
    <3>3. FieldAt(pRecordBuff, a, x) \in Keys
      BY <1>2, <1>4, <3>2 DEF TypeOK, RecordOf, FieldAt
    <3> QED
      BY <1>6, <3>1, <3>2, <3>3, IndexDelOK
  <2> QED
    BY <2>1, <2>2
<1> HIDE DEF ht
<1>8. IndexOK(ht, buff, x, Held(h) \ {a})
  <2>1. \A b \in Held(h) \ {a} : buff[b] = pRecordBuff[b]
    BY <1>1 DEF Held, Live
  <2> QED
    BY <1>7, <2>1, IndexFrame
<1>9. FieldAt(buff, a, x) = data[x] /\ data[x] \in Keys
  BY <1>1, <1>2 DEF FieldAt, RecordOf
<1> QED
  BY <1>1, <1>2, <1>3, <1>8, <1>9 DEF ht

\* One hash table of the table that is written: the old record of the slot
\* leaves it, the new one joins it.
LEMMA OwnIndexStep ==
  ASSUME TypeOK, IndexInv, NEW t \in Tables, NEW data \in RecordOf(t), NEW pos,
         Insert(t, data, pos), NEW h \in Hashes, t \in h.tables
  PROVE  IndexOK(pHashTable'[h], pRecordBuff', h.id, Held(h)')
<1>1. PICK a : a = <<t, uiRecordLoc[t]>>
  OBVIOUS
<1> DEFINE x    == h.id
           ht   == AfterDelete(h, a)
           list == ListAt(ht, pRecordBuff', x, data[x])
<1>2. /\ IndexOK(ht, pRecordBuff', x, Held(h) \ {a})
      /\ FieldAt(pRecordBuff', a, x) = data[x] /\ data[x] \in Keys
      /\ pos[x] \in Places(t, x, list)
      /\ pHashTable'[h] = IndexIns(ht, pRecordBuff', x, a, pos[x])
  BY <1>1, OwnIndexDelete
<1>7. Held(h)' = (Held(h) \ {a}) \cup {a}
  <2>1. Live' = Live \cup {a} /\ a[1] = t
    BY <1>1, WrittenSlot
  <2> QED
    BY <2>1 DEF Held
<1>3. a \in Addr
  BY <1>1, WrittenSlot
<1> HIDE DEF ht
<1>4. list \in Seq(Addr)
  BY <1>2, ListFound
<1> HIDE DEF list
<1>5. pos[x] \in 1 .. Len(list) + 1
  BY <1>2, <1>4 DEF Places
<1>6. IndexOK(IndexIns(ht, pRecordBuff', x, a, pos[x]), pRecordBuff', x, (Held(h) \ {a}) \cup {a})
  BY <1>2, <1>3, <1>5, IndexInsOK DEF list
<1> QED
  BY <1>2, <1>6, <1>7

\* A hash table of other tables does not see the insert.
LEMMA OtherIndexStep ==
  ASSUME TypeOK, IndexInv, NEW t \in Tables, NEW data \in RecordOf(t), NEW pos,
         Insert(t, data, pos), NEW h \in Hashes, t \notin h.tables
  PROVE  IndexOK(pHashTable'[h], pRecordBuff', h.id, Held(h)')
<1> DEFINE a == <<t, uiRecordLoc[t]>>
<1>1. /\ \A b \in Addr : b # a => pRecordBuff'[b] = pRecordBuff[b]
      /\ Live' = Live \cup {a}
  BY WrittenSlot
<1>2. pHashTable'[h] = pHashTable[h]
  BY DEF Insert
<1>3. a[1] = t
  OBVIOUS
<1> HIDE DEF a
<1>4. Held(h)' = Held(h) /\ a \notin Held(h)
  BY <1>1, <1>3 DEF Held
<1>5. IndexOK(pHashTable[h], pRecordBuff, h.id, Held(h))
  BY DEF IndexInv
<1>6. \A b \in Held(h) : pRecordBuff'[b] = pRecordBuff[b]
  BY <1>1, <1>4 DEF Held, Live
<1> QED
  BY <1>2, <1>4, <1>5, <1>6, IndexFrame

IInv == RingType /\ RingFilled /\ IndexInv /\ pHashTable \in [Hashes -> SUBSET Entry]

\* Every step of the store keeps the inductive invariant.
LEMMA StoreStep == IInv /\ [Next]_vars => IInv'
<1> SUFFICES ASSUME IInv, [Next]_vars
             PROVE  IInv'
  OBVIOUS
<1>1. TypeOK
  BY DEF IInv, RingType, TypeOK
<1>2. ASSUME NEW t \in Tables, NEW data \in RecordOf(t), NEW pos, Insert(t, data, pos)
      PROVE  IInv'
  <2>1. RingType'
    BY <1>1, <1>2, RingTypeStep DEF IInv
  <2>2. RingFilled'
    BY <1>1, <1>2, RingStep DEF IInv
  <2>3. ASSUME NEW h \in Hashes
        PROVE  IndexOK(pHashTable'[h], pRecordBuff', h.id, Held(h)')
    BY <1>1, <1>2, OwnIndexStep, OtherIndexStep DEF IInv
  <2>4. IndexInv'
    BY <2>3 DEF IndexInv
  <2>5. pHashTable' \in [Hashes -> SUBSET Entry]
    <3>1. DOMAIN pHashTable' = Hashes /\ pHashTable' = [h \in Hashes |-> pHashTable'[h]]
      BY <1>2 DEF Insert
    <3>2. \A h \in Hashes : pHashTable'[h] \subseteq Entry
      BY <2>3 DEF IndexOK
    <3> QED
      BY <3>1, <3>2
  <2> QED
    BY <2>1, <2>2, <2>4, <2>5 DEF IInv
<1>3. CASE UNCHANGED vars
  <2>1. Live' = Live
    BY <1>3 DEF vars, Live
  <2>2. \A h \in Hashes : Held(h)' = Held(h)
    BY <2>1 DEF Held
  <2> QED
    BY <1>3, <2>1, <2>2 DEF vars, IInv, RingType, RingFilled, IndexInv
<1> QED
  BY <1>2, <1>3 DEF Next

\* The empty database of kr_create_db.
LEMMA StoreInit == Init => IInv
<1> SUFFICES ASSUME Init
             PROVE  IInv
  OBVIOUS
<1>1. Live = {}
  BY DEF Init, Live
<1>2. RingType
  <2>1. pRecordBuff \in [Addr -> (UNION {RecordOf(t) : t \in Tables}) \cup {NoRecord}]
    BY DEF Init
  <2>2. /\ uiRecordLoc \in [Tables -> Nat]
        /\ uiRecordNum \in [Tables -> Nat]
        /\ \A t \in Tables : uiRecordLoc[t] < Keep[t]
    BY SchemaAssumption DEF Init
  <2> QED
    BY <1>1, <2>1, <2>2 DEF RingType
<1>3. RingFilled
  <2>1. \A t \in Tables : \A a \in Slots(t) : a[2] \in Nat
    BY SchemaAssumption DEF Slots
  <2> QED
    BY <1>1, <2>1, SchemaAssumption DEF Init, RingFilled
<1>4. IndexInv
  <2>1. \A h \in Hashes : Held(h) = {} /\ pHashTable[h] = {}
    BY <1>1 DEF Init, Held
  <2> QED
    BY <2>1 DEF IndexInv, IndexOK
<1> QED
  BY <1>2, <1>3, <1>4 DEF IInv, Init

\* The inductive invariant holds of every reachable state.
THEOREM StoreInvariant == Spec => []IInv
BY StoreInit, StoreStep, PTL DEF Spec

\* Everything in the store keeps its type; in particular uiRecordLoc stays
\* inside the ring and uiRecordNum does not go below zero.
THEOREM TypeCorrect == Spec => []TypeOK
<1>1. IInv => TypeOK
  BY DEF IInv, RingType, TypeOK
<1> QED
  BY <1>1, StoreInvariant, PTL

\* The count of a table and the slots in use agree, for every ring size.
THEOREM RingCorrect == Spec => []RingFilled
<1>1. IInv => RingFilled
  BY DEF IInv
<1> QED
  BY <1>1, StoreInvariant, PTL

\* No key pointer of an index ever dangles or reads as another key.
THEOREM NoDanglingKey == Spec => []KeyAnchored
<1>1. IInv => KeyAnchored
  BY DEF IInv, IndexInv, IndexOK, Held, KeyAnchored
<1> QED
  BY <1>1, StoreInvariant, PTL

\* An index returns only stored records, with the key asked for, each once.
THEOREM NothingStale == Spec => []IndexSound
<1>1. IInv => IndexSound
  BY DEF IInv, IndexInv, IndexOK, Held, IndexSound
<1> QED
  BY <1>1, StoreInvariant, PTL

\* Every stored record is in each index of its table.
THEOREM NothingMissing == Spec => []IndexComplete
<1>1. IInv => IndexComplete
  BY DEF IInv, IndexInv, IndexOK, Held, IndexComplete
<1> QED
  BY <1>1, StoreInvariant, PTL

\* No key has two lists.
THEOREM KeysUnique == Spec => []OneEntryPerKey
<1>1. IInv => OneEntryPerKey
  BY DEF IInv, IndexInv, IndexOK, OneEntryPerKey
<1> QED
  BY <1>1, StoreInvariant, PTL

\* The record in the slot that the next insert takes has a list in each index.
SlotReusable == \A t \in Tables : ~ DeleteTraps(t, <<t, uiRecordLoc[t]>>)

\* The reuse of a slot never meets a NULL list in kr_rebuild_index_del: an
\* insert is possible in every reachable state.
THEOREM DeleteFindsList ==
  Spec => []SlotReusable
<1>1. ASSUME IInv, NEW t \in Tables
      PROVE  ~ DeleteTraps(t, <<t, uiRecordLoc[t]>>)
  <2> DEFINE a == <<t, uiRecordLoc[t]>>
  <2> SUFFICES ASSUME pRecordBuff[a] # NoRecord, NEW x \in TableIndexes[t]
               PROVE  Lookup(pHashTable[HashOf(t, x)], pRecordBuff, x,
                             FieldAt(pRecordBuff, a, x)) # {}
    BY DEF DeleteTraps
  <2>1. a \in Addr /\ a[1] = t
    BY <1>1, SchemaAssumption, SlotAddr DEF IInv, RingType
  <2>2. HashOf(t, x) \in Hashes /\ t \in HashOf(t, x).tables /\ HashOf(t, x).id = x
    <3>1. HashOf(t, x) \in Hashes
      BY DEF Hashes
    <3>2. HashOf(t, x).id = x
      BY DEF HashOf
    <3>3. t \in HashOf(t, x).tables
      BY DEF HashOf
    <3> QED
      BY <3>1, <3>2, <3>3
  <2> HIDE DEF a
  <2>3. a \in Held(HashOf(t, x))
    BY <2>1, <2>2 DEF Held, Live
  <2>4. PICK h \in Hashes : h = HashOf(t, x)
    BY <2>2
  <2>5. IndexOK(pHashTable[h], pRecordBuff, x, Held(h))
    BY <1>1, <2>2, <2>4 DEF IInv, IndexInv
  <2>6. PICK e \in pHashTable[h] : a \in ToSet(e.list)
    BY <2>3, <2>4, <2>5 DEF IndexOK
  <2>7. e.hash = FieldAt(pRecordBuff, a, x)
    BY <2>5, <2>6 DEF IndexOK
  <2> QED
    BY <2>4, <2>5, <2>6, <2>7, LookupFinds
<1>2. IInv => SlotReusable
  BY <1>1 DEF SlotReusable
<1> QED
  BY <1>2, StoreInvariant, PTL

-----------------------------------------------------------------------------
(***************************************************************************)
(* The ring implements the sliding window.                                 *)
(***************************************************************************)

\* The slot of the j-th oldest of n records of a ring of k slots whose next
\* slot is i.
AgeSlot(k, i, n, j) ==
  IF n < k THEN j - 1 ELSE IF i + j - 1 < k THEN i + j - 1 ELSE i + j - 1 - k

\* A ring whose records fill its first slots until it has gone round.
RingOf(k, i, n) ==
  /\ k \in Nat \ {0}
  /\ i \in 0 .. k - 1
  /\ n \in 0 .. k
  /\ n < k => i = n

\* The ring arithmetic behind AgeOrder.
LEMMA AgeArithmetic ==
  ASSUME NEW k, NEW i, NEW n, RingOf(k, i, n), NEW j \in 1 .. n
  PROVE  /\ (i + k - n + j - 1) % k = AgeSlot(k, i, n, j)
         /\ AgeSlot(k, i, n, j) \in 0 .. k - 1
<1> USE DEF RingOf
<1>1. ASSUME NEW m \in Nat, m < k
      PROVE  m % k = m /\ (m + k) % k = m
  BY <1>1
<1>2. CASE n < k
  <2>1. i + k - n + j - 1 = (j - 1) + k /\ j - 1 \in Nat /\ j - 1 < k
    BY <1>2
  <2> QED
    BY <1>1, <1>2, <2>1 DEF AgeSlot
<1>3. CASE ~ (n < k) /\ i + j - 1 < k
  <2>1. i + k - n + j - 1 = i + j - 1 /\ i + j - 1 \in Nat
    BY <1>3
  <2> QED
    BY <1>1, <1>3, <2>1 DEF AgeSlot
<1>4. CASE ~ (n < k) /\ ~ (i + j - 1 < k)
  <2>1. /\ i + k - n + j - 1 = (i + j - 1 - k) + k
        /\ i + j - 1 - k \in Nat /\ i + j - 1 - k < k
    BY <1>4
  <2> QED
    BY <1>1, <1>4, <2>1 DEF AgeSlot
<1> QED
  BY <1>2, <1>3, <1>4

\* The window that the slots of a ring hold, oldest record first.
ReadRing(t, i, n, buff) ==
  [j \in 1 .. n |-> buff[<<t, (i + Keep[t] - n + j - 1) % Keep[t]>>]]

\* Element j of list w is the record in the slot of age j.
Reads(w, t, i, n, buff, V) ==
  /\ w \in Seq(V)
  /\ Len(w) = n
  /\ \A j \in 1 .. n : /\ AgeSlot(Keep[t], i, n, j) \in 0 .. Keep[t] - 1
                       /\ <<t, AgeSlot(Keep[t], i, n, j)>> \in Addr
                       /\ w[j] = buff[<<t, AgeSlot(Keep[t], i, n, j)>>]

\* That is what the window of a ring reads.
LEMMA ReadRingAt ==
  ASSUME NEW t \in Tables, NEW i, NEW n, NEW V, NEW buff \in [Addr -> V],
         NEW k, k = Keep[t], RingOf(k, i, n), NEW w, w = ReadRing(t, i, n, buff)
  PROVE  Reads(w, t, i, n, buff, V)
<1>1. ASSUME NEW j \in 1 .. n
      PROVE  /\ AgeSlot(k, i, n, j) \in 0 .. k - 1
             /\ <<t, AgeSlot(k, i, n, j)>> \in Addr
             /\ <<t, (i + k - n + j - 1) % k>> = <<t, AgeSlot(k, i, n, j)>>
  BY AgeArithmetic, SlotAddr
<1>2. \A j \in 1 .. n : buff[<<t, (i + k - n + j - 1) % k>>] \in V
  BY <1>1
<1>3. n \in Nat
  BY DEF RingOf
<1> QED
  BY <1>1, <1>2, <1>3 DEF ReadRing, Reads

\* Writing the next slot of a ring moves its window on by one record: the
\* oldest is dropped once the ring is full.
LEMMA RingMoves ==
  ASSUME NEW t \in Tables, NEW V, NEW data \in V,
         NEW buff \in [Addr -> V], NEW buff2 \in [Addr -> V], NEW i, NEW n,
         NEW k, k = Keep[t], RingOf(k, i, n),
         buff2[<<t, i>>] = data,
         \A b \in Addr : b # <<t, i>> => buff2[b] = buff[b],
         NEW i2, i2 = (i + 1) % k,
         NEW n2, n2 = IF n < k THEN n + 1 ELSE k,
         NEW w, w = ReadRing(t, i, n, buff),
         NEW v, v = ReadRing(t, i2, n2, buff2)
  PROVE  v = Append(IF Len(w) = k THEN Tail(w) ELSE w, data)
<1>1. /\ k \in Nat \ {0} /\ i \in 0 .. k - 1 /\ n \in 0 .. k
      /\ n < k => i = n
  BY DEF RingOf
<1>2. /\ i + 1 < k => i2 = i + 1
      /\ i + 1 = k => i2 = 0
  BY <1>1, NextSlot
<1>3. RingOf(k, i2, n2)
  BY <1>1, <1>2 DEF RingOf
<1>a. Reads(w, t, i, n, buff, V)
  BY ReadRingAt
<1>b. Reads(v, t, i2, n2, buff2, V)
  BY <1>3, ReadRingAt
<1>4. /\ w \in Seq(V) /\ Len(w) = n
      /\ \A j \in 1 .. n : /\ AgeSlot(k, i, n, j) \in 0 .. k - 1
                           /\ <<t, AgeSlot(k, i, n, j)>> \in Addr
                           /\ w[j] = buff[<<t, AgeSlot(k, i, n, j)>>]
  BY <1>a DEF Reads
<1>5. /\ v \in Seq(V) /\ Len(v) = n2
      /\ \A j \in 1 .. n2 : /\ AgeSlot(k, i2, n2, j) \in 0 .. k - 1
                            /\ <<t, AgeSlot(k, i2, n2, j)>> \in Addr
                            /\ v[j] = buff2[<<t, AgeSlot(k, i2, n2, j)>>]
  BY <1>b DEF Reads
<1>6. /\ \A j \in 1 .. n2 : AgeSlot(k, i2, n2, j) = i => v[j] = data
      /\ \A j \in 1 .. n2 : AgeSlot(k, i2, n2, j) # i =>
            v[j] = buff[<<t, AgeSlot(k, i2, n2, j)>>]
  <2>1. ASSUME NEW j \in 1 .. n2, AgeSlot(k, i2, n2, j) # i
        PROVE  <<t, AgeSlot(k, i2, n2, j)>> # <<t, i>>
    BY <2>1
  <2> QED
    BY <1>5, <2>1
<1>7. CASE n < k
  <2>1. n2 = n + 1 /\ i = n
    BY <1>1, <1>7
  <2>2. \A j \in 1 .. n2 : AgeSlot(k, i2, n2, j) = j - 1
    BY <1>1, <1>2, <1>7, <2>1 DEF AgeSlot
  <2>3. \A j \in 1 .. n : AgeSlot(k, i, n, j) = j - 1
    BY <1>7 DEF AgeSlot
  <2>4. v[n + 1] = data
    BY <1>1, <1>6, <2>1, <2>2
  <2>5. ASSUME NEW j \in 1 .. n
        PROVE  v[j] = w[j]
    <3>1. j \in 1 .. n2 /\ j - 1 # i
      BY <1>1, <2>1
    <3>2. v[j] = buff[<<t, j - 1>>]
      BY <1>6, <2>2, <3>1
    <3>3. w[j] = buff[<<t, j - 1>>]
      BY <1>4, <2>3
    <3> QED
      BY <3>2, <3>3
  <2>6. v = Append(w, data)
    BY <1>1, <1>4, <1>5, <2>1, <2>4, <2>5
  <2> QED
    BY <1>1, <1>4, <1>7, <2>6
<1>8. CASE ~ (n < k)
  <2>1. n = k /\ n2 = k
    BY <1>1, <1>8
  <2> DEFINE slot(j) == IF i + j < k THEN i + j ELSE i + j - k
  <2>2. \A j \in 1 .. k : AgeSlot(k, i2, n2, j) = slot(j)
    BY <1>1, <1>2, <2>1 DEF AgeSlot
  <2>3. \A j \in 1 .. k - 1 : AgeSlot(k, i, n, j + 1) = slot(j)
    BY <1>1, <2>1 DEF AgeSlot
  <2>4. slot(k) = i /\ \A j \in 1 .. k - 1 : slot(j) # i
    BY <1>1
  <2> HIDE DEF slot
  <2>5. v[k] = data
    BY <1>1, <1>6, <2>1, <2>2, <2>4
  <2>6. ASSUME NEW j \in 1 .. k - 1
        PROVE  v[j] = w[j + 1]
    <3>1. j \in 1 .. k /\ j + 1 \in 1 .. k
      BY <1>1
    <3>2. v[j] = buff[<<t, slot(j)>>]
      BY <1>6, <2>1, <2>2, <2>4, <3>1
    <3>3. w[j + 1] = buff[<<t, slot(j)>>]
      BY <1>4, <2>1, <2>3, <3>1
    <3> QED
      BY <3>2, <3>3
  <2>7. /\ Tail(w) \in Seq(V) /\ Len(Tail(w)) = k - 1
        /\ \A j \in 1 .. k - 1 : Tail(w)[j] = w[j + 1]
    BY <1>1, <1>4, <2>1
  <2>8. v = Append(Tail(w), data)
    BY <1>1, <1>5, <2>1, <2>5, <2>6, <2>7, SMTT(40)
  <2> QED
    BY <1>4, <2>1, <2>8
<1> QED
  BY <1>7, <1>8

\* What the refinement mapping makes of table t.
WindowOf(t) == [j \in 1 .. uiRecordNum[t] |-> pRecordBuff[AgeOrder(t)[j]]]

\* It reads the ring.
LEMMA WindowReads ==
  /\ \A t \in Tables : WindowOf(t) = ReadRing(t, uiRecordLoc[t], uiRecordNum[t], pRecordBuff)
  /\ \A t \in Tables : WindowOf(t)' = ReadRing(t, uiRecordLoc'[t], uiRecordNum'[t], pRecordBuff')
BY DEF WindowOf, AgeOrder, ReadRing

\* An insert moves the window of its table on by one event and leaves the
\* other windows alone.
LEMMA WindowStep ==
  ASSUME IInv, NEW t \in Tables, NEW data \in RecordOf(t), NEW pos, Insert(t, data, pos)
  PROVE  /\ WindowOf(t)' =
              Append(IF Len(WindowOf(t)) = Keep[t] THEN Tail(WindowOf(t)) ELSE WindowOf(t), data)
         /\ \A u \in Tables : u # t => WindowOf(u)' = WindowOf(u)
<1> DEFINE V == (UNION {RecordOf(u) : u \in Tables}) \cup {NoRecord}
           a == <<t, uiRecordLoc[t]>>
<1>1. TypeOK /\ RingType /\ RingFilled /\ RingType'
  <2>1. TypeOK /\ RingType /\ RingFilled
    BY DEF IInv, RingType, TypeOK
  <2> QED
    BY <2>1, RingTypeStep
<1>2. /\ a \in Addr
      /\ pRecordBuff'[a] = data
      /\ \A b \in Addr : b # a => pRecordBuff'[b] = pRecordBuff[b]
  BY <1>1, WrittenSlot
<1>3. \A u \in Tables : RingOf(Keep[u], uiRecordLoc[u], uiRecordNum[u])
  BY <1>1, SchemaAssumption DEF RingType, RingFilled, RingOf
<1>4. /\ uiRecordLoc'[t] = (uiRecordLoc[t] + 1) % Keep[t]
      /\ uiRecordNum'[t] = NumAfter(t, a)
      /\ \A u \in Tables : u # t => /\ uiRecordLoc'[u] = uiRecordLoc[u]
                                    /\ uiRecordNum'[u] = uiRecordNum[u]
  BY <1>1 DEF Insert, TypeOK, LocAfter
<1>5. NumAfter(t, a) = IF uiRecordNum[t] < Keep[t] THEN uiRecordNum[t] + 1 ELSE Keep[t]
  <2>0. /\ Keep[t] \in Nat \ {0} /\ uiRecordNum[t] \in 0 .. Keep[t]
        /\ uiRecordLoc[t] \in 0 .. Keep[t] - 1
        /\ uiRecordNum[t] < Keep[t] => uiRecordLoc[t] = uiRecordNum[t]
    BY <1>3 DEF RingOf
  <2>1. a \in Slots(t) /\ a[2] = uiRecordLoc[t]
    BY <2>0, SlotAddr
  <2>2. (pRecordBuff[a] # NoRecord) <=> (uiRecordLoc[t] < uiRecordNum[t])
    BY <1>1, <1>2, <2>1 DEF RingFilled, Live
  <2> HIDE DEF a
  <2> QED
    BY <2>0, <2>2 DEF NumAfter
<1>6. pRecordBuff \in [Addr -> V] /\ pRecordBuff' \in [Addr -> V] /\ data \in V
  BY <1>1 DEF RingType
<1> HIDE DEF V
<1>7. WindowOf(t)' =
        Append(IF Len(WindowOf(t)) = Keep[t] THEN Tail(WindowOf(t)) ELSE WindowOf(t), data)
  <2>1. PICK k, i, n, i2, n2, buff, buff2, w, v :
          /\ k = Keep[t] /\ i = uiRecordLoc[t] /\ n = uiRecordNum[t]
          /\ i2 = uiRecordLoc'[t] /\ n2 = uiRecordNum'[t]
          /\ buff = pRecordBuff /\ buff2 = pRecordBuff'
          /\ w = WindowOf(t) /\ v = WindowOf(t)'
    OBVIOUS
  <2>2. RingOf(k, i, n) /\ buff \in [Addr -> V] /\ buff2 \in [Addr -> V]
    BY <1>3, <1>6, <2>1
  <2>3. /\ buff2[<<t, i>>] = data
        /\ \A b \in Addr : b # <<t, i>> => buff2[b] = buff[b]
    BY <1>2, <2>1
  <2>4. i2 = (i + 1) % k /\ n2 = IF n < k THEN n + 1 ELSE k
    BY <1>4, <1>5, <2>1
  <2>5. w = ReadRing(t, i, n, buff) /\ v = ReadRing(t, i2, n2, buff2)
    BY <2>1, WindowReads
  <2>6. v = Append(IF Len(w) = k THEN Tail(w) ELSE w, data)
    <3> HIDE <2>1
    <3>1. data \in V /\ k = Keep[t]
      BY <1>6, <2>1
    <3> QED
      BY <2>2, <2>3, <2>4, <2>5, <3>1, RingMoves, SMTT(40)
  <2> QED
    BY <2>1, <2>6
<1>8. ASSUME NEW u \in Tables, u # t
      PROVE  WindowOf(u)' = WindowOf(u)
  <2>1. PICK w, v : w = WindowOf(u) /\ v = WindowOf(u)'
    OBVIOUS
  <2>2. /\ w = ReadRing(u, uiRecordLoc[u], uiRecordNum[u], pRecordBuff)
        /\ v = ReadRing(u, uiRecordLoc[u], uiRecordNum[u], pRecordBuff')
    BY <1>4, <1>8, <2>1, WindowReads
  <2>3. /\ Reads(w, u, uiRecordLoc[u], uiRecordNum[u], pRecordBuff, V)
        /\ Reads(v, u, uiRecordLoc[u], uiRecordNum[u], pRecordBuff', V)
    BY <1>3, <1>6, <2>2, ReadRingAt
  <2>4. \A j : <<u, j>> # a
    BY <1>8
  <2>5. /\ w \in Seq(V) /\ v \in Seq(V) /\ Len(v) = Len(w)
        /\ \A j \in 1 .. Len(w) : v[j] = w[j]
    BY <1>2, <2>3, <2>4 DEF Reads
  <2>6. v = w
    BY <2>5, SeqEqual
  <2> QED
    BY <2>1, <2>6
<1> QED
  BY <1>7, <1>8

\* The ring of kr_insert_record implements the sliding window: every insert
\* appends one event and drops the oldest of a full table, for every
\* lSizeKeepValue.
THEOREM RingIsWindow == Spec => WindowSpec
<1>1. Init => Window!Init
  <2> SUFFICES ASSUME Init
               PROVE  \A t \in Tables : WindowOf(t) = <<>>
    BY DEF Window!Init, WindowOf
  <2> TAKE t \in Tables
  <2>1. uiRecordNum[t] = 0
    BY DEF Init
  <2> QED
    BY <2>1 DEF WindowOf
<1>2. ASSUME IInv, [Next]_vars
      PROVE  [Window!Next]_([t \in Tables |-> WindowOf(t)])
  <2>1. ASSUME NEW t \in Tables, NEW data \in RecordOf(t), NEW pos, Insert(t, data, pos)
        PROVE  Window!Insert(t, data)
    <3>1. /\ WindowOf(t)' =
               Append(IF Len(WindowOf(t)) = Keep[t] THEN Tail(WindowOf(t)) ELSE WindowOf(t), data)
          /\ \A u \in Tables : u # t => WindowOf(u)' = WindowOf(u)
      BY <1>2, <2>1, WindowStep
    <3>2. [u \in Tables |-> WindowOf(u)'] =
            [[u \in Tables |-> WindowOf(u)] EXCEPT ![t] =
               Append(IF Len(WindowOf(t)) = Keep[t] THEN Tail(WindowOf(t)) ELSE WindowOf(t), data)]
      BY <3>1
    <3> QED
      BY <3>2 DEF Window!Insert, Window!Kept, WindowOf
  <2>2. CASE UNCHANGED vars
    BY <2>2 DEF vars, WindowOf, AgeOrder
  <2> QED
    BY <1>2, <2>1, <2>2 DEF Next, Window!Next
<1> QED
  BY <1>1, <1>2, StoreInvariant, PTL DEF Spec, WindowSpec, Window!Spec, WindowOf

-----------------------------------------------------------------------------
(***************************************************************************)
(* The lists follow the age of the records.                                *)
(***************************************************************************)

\* In a ring whose next slot is i, slot p was written before slot q.
Older(i, p, q) == IF p >= i THEN q < i \/ p < q ELSE q < i /\ p < q

\* A list in which the records of every table come in the order of their age,
\* as far as the table appends to it.
Aged(list, loc, x) ==
  \A i, j \in 1 .. Len(list) :
    (i < j /\ list[i][1] = list[j][1] /\ <<list[i][1], x>> \notin SortIndexes)
      => Older(loc[list[i][1]], list[i][2], list[j][2])

\* All lists of hash table ht, which are those of index x.
AllAged(ht, loc, x) == \A e \in ht : Aged(e.list, loc, x)

AgeInv == \A h \in Hashes : AllAged(pHashTable[h], uiRecordLoc, h.id)

\* kr_list_remove keeps the order of the others.
LEMMA RemoveAged ==
  ASSUME NEW s \in Seq(Addr), IsInjective(s), NEW a \in ToSet(s), NEW loc, NEW x, Aged(s, loc, x)
  PROVE  Aged(RemoveFirst(s, a), loc, x)
<1>1. PICK p \in 1 .. Len(s) : RemoveFirst(s, a) = RemoveAt(s, p)
  BY RemoveFirstAt
<1>2. PICK r : r = RemoveFirst(s, a)
  OBVIOUS
<1>3. Removed(r, Addr, s, p)
  BY <1>1, <1>2, RemoveAtPositions
<1> DEFINE from(j) == IF j < p THEN j ELSE j + 1
<1>4. \A j \in 1 .. Len(r) : from(j) \in 1 .. Len(s) /\ r[j] = s[from(j)]
  BY <1>3 DEF Removed
<1>5. \A i, j \in 1 .. Len(r) : i < j => from(i) < from(j)
  BY <1>3 DEF Removed
<1> HIDE DEF from
<1>6. ASSUME NEW i \in 1 .. Len(r), NEW j \in 1 .. Len(r),
             i < j, r[i][1] = r[j][1], <<r[i][1], x>> \notin SortIndexes
      PROVE  Older(loc[r[i][1]], r[i][2], r[j][2])
  <2>1. PICK u \in 1 .. Len(s), v \in 1 .. Len(s) : u < v /\ r[i] = s[u] /\ r[j] = s[v]
    BY <1>4, <1>5, <1>6, Zenon
  <2> QED
    BY <1>6, <2>1, Zenon DEF Aged
<1>7. Aged(r, loc, x)
  BY <1>6, Zenon DEF Aged
<1> QED
  BY <1>2, <1>7

\* kr_list_add_tail, or kr_list_add_sorted, keeps the order of the others;
\* what is put at the end is newer than all of them.
LEMMA InsertAged ==
  ASSUME NEW s \in Seq(Addr), NEW a \in Addr, NEW p \in 1 .. Len(s) + 1, NEW loc, NEW x,
         Aged(s, loc, x),
         <<a[1], x>> \in SortIndexes \/ p = Len(s) + 1,
         \A i \in 1 .. Len(s) : s[i][1] = a[1] => Older(loc[a[1]], s[i][2], a[2])
  PROVE  Aged(InsertAt(s, p, a), loc, x)
<1>1. PICK r : r = InsertAt(s, p, a)
  OBVIOUS
<1>2. Inserted(r, Addr, s, p, a)
  BY <1>1, InsertAtPositions
<1>3. Len(s) \in Nat /\ Len(r) = Len(s) + 1 /\ r[p] = a /\ p \in Int /\ Len(r) \in Nat
  BY <1>2 DEF Inserted
<1> DEFINE from(j) == IF j < p THEN j ELSE j - 1
<1>4. \A j \in 1 .. Len(r) : j # p => from(j) \in 1 .. Len(s) /\ r[j] = s[from(j)]
  BY <1>2, <1>3 DEF Inserted
<1>5. \A i, j \in 1 .. Len(r) : i < j /\ i # p /\ j # p => from(i) < from(j)
  BY <1>3
<1> HIDE DEF from
<1> SUFFICES ASSUME NEW i \in 1 .. Len(r), NEW j \in 1 .. Len(r), i < j,
                    r[i][1] = r[j][1], <<r[i][1], x>> \notin SortIndexes
             PROVE  Older(loc[r[i][1]], r[i][2], r[j][2])
  BY <1>1 DEF Aged
<1>6. CASE i # p /\ j # p
  BY <1>4, <1>5, <1>6 DEF Aged
<1>7. CASE j = p
  <2>1. i # p
    BY <1>3, <1>7
  <2> QED
    BY <1>3, <1>4, <1>7, <2>1
<1>8. CASE i = p
  <2>1. p # Len(s) + 1
    BY <1>3, <1>8
  <2> QED
    BY <1>3, <1>8, <2>1
<1> QED
  BY <1>6, <1>7, <1>8

\* The position moves on: the slots that stay keep their order, and the slot
\* just written is the newest (the ring arithmetic of kr_insert_record).
LEMMA OlderMoves ==
  ASSUME NEW n \in Nat \ {0}, NEW i \in 0 .. n - 1, NEW p \in 0 .. n - 1, NEW q \in 0 .. n - 1, p # i
  PROVE  /\ Older((i + 1) % n, p, i)
         /\ q # i /\ Older(i, p, q) => Older((i + 1) % n, p, q)
<1>1. /\ i + 1 < n => (i + 1) % n = i + 1
      /\ i + 1 = n => (i + 1) % n = 0
  BY NextSlot
<1> QED
  BY <1>1 DEF Older

\* ... so a list without the slot that is reused keeps its order.
LEMMA AgedMoves ==
  ASSUME TypeOK, NEW t \in Tables, NEW loc,
         loc = [uiRecordLoc EXCEPT ![t] = LocAfter(t)],
         NEW s \in Seq(Addr), <<t, uiRecordLoc[t]>> \notin ToSet(s), NEW x, Aged(s, uiRecordLoc, x)
  PROVE  /\ Aged(s, loc, x)
         /\ \A i \in 1 .. Len(s) : s[i][1] = t => Older(loc[t], s[i][2], uiRecordLoc[t])
<1> DEFINE n == Keep[t]
           l == uiRecordLoc[t]
<1>0. n \in Nat \ {0} /\ l \in 0 .. n - 1
  <2>1. Keep \in [Tables -> Nat \ {0}]
    BY SchemaAssumption
  <2>2. uiRecordLoc \in [Tables -> Nat] /\ uiRecordLoc[t] < Keep[t]
    BY DEF TypeOK
  <2> QED
    BY <2>1, <2>2
<1>1. /\ loc[t] = (l + 1) % n
      /\ \A u \in Tables : u # t => loc[u] = uiRecordLoc[u]
  BY DEF TypeOK, LocAfter
<1>5. ASSUME NEW p \in 0 .. n - 1, NEW q \in 0 .. n - 1, p # l
      PROVE  /\ Older(loc[t], p, l)
             /\ q # l /\ Older(l, p, q) => Older(loc[t], p, q)
  <2> HIDE DEF n, l
  <2> QED
    BY <1>0, <1>1, <1>5, OlderMoves
<1>2. ASSUME NEW i \in 1 .. Len(s)
      PROVE  /\ s[i][1] \in Tables
             /\ s[i][1] = t => s[i][2] \in 0 .. Keep[t] - 1 /\ s[i][2] # uiRecordLoc[t]
  <2>1. s[i] \in Addr /\ s[i] \in ToSet(s)
    BY SetOfList
  <2>2. s[i] = <<s[i][1], s[i][2]>> /\ s[i][1] \in Tables /\ s[i][2] \in 0 .. Keep[s[i][1]] - 1
    BY <2>1, AddrParts
  <2> QED
    BY <2>1, <2>2
<1>3. ASSUME NEW i \in 1 .. Len(s), s[i][1] = t
      PROVE  Older(loc[t], s[i][2], uiRecordLoc[t])
  BY <1>2, <1>3, <1>5
<1>4. ASSUME NEW i \in 1 .. Len(s), NEW j \in 1 .. Len(s), i < j,
             s[i][1] = s[j][1], <<s[i][1], x>> \notin SortIndexes
      PROVE  Older(loc[s[i][1]], s[i][2], s[j][2])
  <2>1. Older(uiRecordLoc[s[i][1]], s[i][2], s[j][2])
    BY <1>4 DEF Aged
  <2>2. CASE s[i][1] # t
    BY <1>1, <1>2, <2>1, <2>2
  <2>3. CASE s[i][1] = t
    BY <1>2, <1>4, <1>5, <2>1, <2>3
  <2> QED
    BY <2>2, <2>3
<1> QED
  BY <1>3, <1>4 DEF Aged

\* The entry of a key gets another list (kr_hashtable_replace).
LEMMA ReplaceAged ==
  ASSUME NEW ht, NEW buff, NEW x, NEW a, NEW list, NEW loc, AllAged(ht, loc, x), Aged(list, loc, x)
  PROVE  AllAged(Replace(ht, buff, x, a, list), loc, x)
BY DEF AllAged, Replace

\* The list that a lookup finds is in order.
LEMMA ListAged ==
  ASSUME NEW ht, NEW buff, NEW x, NEW k, NEW loc, AllAged(ht, loc, x)
  PROVE  Aged(ListAt(ht, buff, x, k), loc, x)
<1> DEFINE found == Lookup(ht, buff, x, k)
<1>1. CASE found = {}
  <2>1. ListAt(ht, buff, x, k) = <<>>
    BY <1>1 DEF ListAt
  <2> QED
    BY <2>1 DEF Aged
<1>2. CASE found # {}
  <2>1. PICK e \in found : ListAt(ht, buff, x, k) = e.list
    BY <1>2 DEF ListAt
  <2>2. e \in ht
    BY <2>1 DEF Lookup
  <2> QED
    BY <2>1, <2>2 DEF AllAged
<1> QED
  BY <1>1, <1>2

\* kr_rebuild_index_del keeps the lists in order.
LEMMA IndexDelAged ==
  ASSUME NEW ht, NEW buff, NEW x, NEW D, NEW a \in D, NEW loc,
         IndexOK(ht, buff, x, D), AllAged(ht, loc, x)
  PROVE  AllAged(IndexDel(ht, buff, x, a), loc, x)
<1> DEFINE k    == FieldAt(buff, a, x)
           old  == ListAt(ht, buff, x, k)
           rest == RemoveFirst(old, a)
<1>1. old \in Seq(Addr) /\ IsInjective(old) /\ a \in ToSet(old)
  BY ListFound
<1>2. Aged(old, loc, x)
  BY ListAged
<1>3. IndexDel(ht, buff, x, a) = IF rest = <<>> THEN ht \ Lookup(ht, buff, x, k)
                                               ELSE Replace(ht, buff, x, Last(rest), rest)
  BY DEF IndexDel
<1> HIDE DEF old
<1>4. Aged(rest, loc, x)
  BY <1>1, <1>2, RemoveAged
<1> HIDE DEF rest
<1>5. AllAged(ht \ Lookup(ht, buff, x, k), loc, x)
  BY DEF AllAged
<1> QED
  BY <1>3, <1>4, <1>5, ReplaceAged

\* The position of the ring moves on under a hash table that does not hold
\* the slot that is reused.
LEMMA TableAgedMoves ==
  ASSUME TypeOK, NEW t \in Tables, NEW loc,
         loc = [uiRecordLoc EXCEPT ![t] = LocAfter(t)],
         NEW ht, NEW buff, NEW x, NEW D, IndexOK(ht, buff, x, D), <<t, uiRecordLoc[t]>> \notin D,
         AllAged(ht, uiRecordLoc, x)
  PROVE  AllAged(ht, loc, x)
<1> SUFFICES ASSUME NEW e \in ht
             PROVE  Aged(e.list, loc, x)
  BY DEF AllAged
<1>1. e.list \in Seq(Addr) /\ <<t, uiRecordLoc[t]>> \notin ToSet(e.list)
  BY DEF IndexOK, Entry
<1>2. Aged(e.list, uiRecordLoc, x)
  BY DEF AllAged
<1> QED
  BY <1>1, <1>2, AgedMoves

\* The lists of the table that is written stay in order.
LEMMA OwnAgedStep ==
  ASSUME TypeOK, IndexInv, AgeInv, NEW t \in Tables, NEW data \in RecordOf(t), NEW pos,
         Insert(t, data, pos), NEW h \in Hashes, t \in h.tables
  PROVE  AllAged(pHashTable'[h], uiRecordLoc', h.id)
<1>1. PICK a : a = <<t, uiRecordLoc[t]>>
  OBVIOUS
<1> DEFINE x    == h.id
           ht   == AfterDelete(h, a)
           list == ListAt(ht, pRecordBuff', x, data[x])
           new  == InsertAt(list, pos[x], a)
<1>2. /\ IndexOK(ht, pRecordBuff', x, Held(h) \ {a})
      /\ FieldAt(pRecordBuff', a, x) = data[x]
      /\ pos[x] \in Places(t, x, list)
      /\ pHashTable'[h] = IndexIns(ht, pRecordBuff', x, a, pos[x])
  BY <1>1, OwnIndexDelete
<1>3. a \in Addr /\ a[1] = t /\ a[2] = uiRecordLoc[t]
  BY <1>1, WrittenSlot
<1>4. uiRecordLoc' = [uiRecordLoc EXCEPT ![t] = LocAfter(t)]
  BY DEF Insert
<1>5. AllAged(ht, uiRecordLoc, x)
  <2>1. AllAged(pHashTable[h], uiRecordLoc, x) /\ IndexOK(pHashTable[h], pRecordBuff, x, Held(h))
    BY DEF AgeInv, IndexInv
  <2>2. CASE pRecordBuff[a] = NoRecord
    BY <2>1, <2>2 DEF AfterDelete
  <2>3. CASE pRecordBuff[a] # NoRecord
    <3>1. ht = IndexDel(pHashTable[h], pRecordBuff, x, a)
      BY <2>3 DEF AfterDelete
    <3>2. a \in Held(h)
      BY <1>3, <2>3 DEF Held, Live
    <3> QED
      BY <2>1, <3>1, <3>2, IndexDelAged
  <2> QED
    BY <2>2, <2>3
<1>6. pHashTable'[h] = Replace(ht, pRecordBuff', x, a, new)
  BY <1>2 DEF IndexIns
<1> HIDE DEF ht
<1>7. AllAged(ht, uiRecordLoc', x)
  BY <1>1, <1>2, <1>4, <1>5, TableAgedMoves
<1>8. list \in Seq(Addr) /\ a \notin ToSet(list)
  BY <1>2, ListFound
<1>9. Aged(list, uiRecordLoc, x)
  BY <1>5, ListAged
<1> HIDE DEF list
<1>10. /\ Aged(list, uiRecordLoc', x)
       /\ \A i \in 1 .. Len(list) : list[i][1] = t => Older(uiRecordLoc'[t], list[i][2], uiRecordLoc[t])
  BY <1>1, <1>4, <1>8, <1>9, AgedMoves
<1>11. pos[x] \in 1 .. Len(list) + 1 /\ (<<t, x>> \in SortIndexes \/ pos[x] = Len(list) + 1)
  BY <1>2, <1>8 DEF Places
<1>12. Aged(new, uiRecordLoc', x)
  BY <1>3, <1>8, <1>10, <1>11, InsertAged
<1> HIDE DEF new
<1> QED
  BY <1>6, <1>7, <1>12, ReplaceAged

\* So do those of the others.
LEMMA OtherAgedStep ==
  ASSUME TypeOK, IndexInv, AgeInv, NEW t \in Tables, NEW data \in RecordOf(t), NEW pos,
         Insert(t, data, pos), NEW h \in Hashes, t \notin h.tables
  PROVE  AllAged(pHashTable'[h], uiRecordLoc', h.id)
<1>1. /\ pHashTable'[h] = pHashTable[h]
      /\ uiRecordLoc' = [uiRecordLoc EXCEPT ![t] = LocAfter(t)]
  BY DEF Insert
<1>2. /\ IndexOK(pHashTable[h], pRecordBuff, h.id, Held(h))
      /\ AllAged(pHashTable[h], uiRecordLoc, h.id)
  BY DEF IndexInv, AgeInv
<1>3. <<t, uiRecordLoc[t]>> \notin Held(h)
  BY DEF Held
<1> QED
  BY <1>1, <1>2, <1>3, TableAgedMoves

\* The inductive invariant with the order of the lists.
LEMMA AgeInvariant == Spec => [](IInv /\ AgeInv)
<1>1. Init => AgeInv
  BY DEF Init, AgeInv, AllAged
<1>2. IInv /\ AgeInv /\ [Next]_vars => AgeInv'
  <2> SUFFICES ASSUME IInv, AgeInv, [Next]_vars
               PROVE  AgeInv'
    OBVIOUS
  <2>1. TypeOK /\ IndexInv
    BY DEF IInv, RingType, TypeOK
  <2>2. ASSUME NEW t \in Tables, NEW data \in RecordOf(t), NEW pos, Insert(t, data, pos)
        PROVE  AgeInv'
    <3>1. ASSUME NEW h \in Hashes
          PROVE  AllAged(pHashTable'[h], uiRecordLoc', h.id)
      BY <2>1, <2>2, OwnAgedStep, OtherAgedStep
    <3> QED
      BY <3>1 DEF AgeInv
  <2>3. CASE UNCHANGED vars
    BY <2>3 DEF vars, AgeInv
  <2> QED
    BY <2>2, <2>3 DEF Next
<1> QED
  BY <1>1, <1>2, StoreInit, StoreStep, PTL DEF Spec

\* The order of AgeOrder is the order of age, and it lists the slots in use.
LEMMA AgeOrderIs ==
  ASSUME RingType, RingFilled, NEW t \in Tables
  PROVE  LET age == AgeOrder(t)
         IN  /\ DOMAIN age = 1 .. uiRecordNum[t]
             /\ ToSet(age) = {a \in Live : a[1] = t}
             /\ \A m \in 1 .. uiRecordNum[t] : age[m] \in Addr /\ age[m][1] = t
             /\ \A m, n \in 1 .. uiRecordNum[t] :
                  /\ m < n <=> Older(uiRecordLoc[t], age[m][2], age[n][2])
                  /\ age[m] = age[n] => m = n
<1> DEFINE age == AgeOrder(t)
<1>1. PICK k, i, n : k = Keep[t] /\ i = uiRecordLoc[t] /\ n = uiRecordNum[t]
  OBVIOUS
<1>2. RingOf(k, i, n) /\ \A b \in Slots(t) : b \in Live <=> b[2] < n
  BY <1>1, SchemaAssumption DEF RingOf, RingType, RingFilled
<1>3. age = [j \in 1 .. n |-> <<t, (i + k - n + j - 1) % k>>]
  BY <1>1 DEF AgeOrder
<1>4. \A j \in 1 .. n : age[j] = <<t, AgeSlot(k, i, n, j)>> /\ AgeSlot(k, i, n, j) \in 0 .. k - 1
  BY <1>2, <1>3, AgeArithmetic
<1>5. /\ \A p, q \in 1 .. n : p < q <=> Older(i, AgeSlot(k, i, n, p), AgeSlot(k, i, n, q))
      /\ \A p, q \in 1 .. n : AgeSlot(k, i, n, p) = AgeSlot(k, i, n, q) => p = q
  BY <1>2 DEF RingOf, AgeSlot, Older
<1>6. \A p \in 1 .. n : AgeSlot(k, i, n, p) < n
  BY <1>2, <1>4 DEF RingOf, AgeSlot
<1>7. ASSUME NEW s \in 0 .. k - 1, s < n
      PROVE  \E p \in 1 .. n : AgeSlot(k, i, n, p) = s
  <2> DEFINE p == IF n < k THEN s + 1 ELSE IF s >= i THEN s - i + 1 ELSE s - i + 1 + k
  <2>1. p \in 1 .. n /\ AgeSlot(k, i, n, p) = s
    BY <1>2, <1>7 DEF RingOf, AgeSlot
  <2> QED
    BY <2>1
<1> HIDE DEF age
<1>8. DOMAIN age = 1 .. n
  BY <1>3
<1>9. \A m \in 1 .. n : age[m] \in Slots(t) /\ age[m] \in Addr /\ age[m][1] = t /\ age[m][2] = AgeSlot(k, i, n, m)
  BY <1>1, <1>4, SlotAddr
<1>10. ToSet(age) = {age[m] : m \in 1 .. n}
  BY <1>8 DEF ToSet
<1>11. ToSet(age) \subseteq {a \in Live : a[1] = t}
  BY <1>2, <1>6, <1>9, <1>10
<1>12. ASSUME NEW a \in Live, a[1] = t
       PROVE  a \in ToSet(age)
  <2>1. a \in Addr
    BY DEF Live
  <2>2. a[2] \in 0 .. k - 1 /\ a = <<t, a[2]>> /\ a \in Slots(t)
    BY <1>1, <1>12, <2>1, AddrParts, SlotAddr
  <2>3. a[2] < n
    BY <1>2, <2>2
  <2>4. PICK p \in 1 .. n : AgeSlot(k, i, n, p) = a[2]
    BY <1>7, <2>2, <2>3
  <2> QED
    BY <1>4, <1>10, <2>2, <2>4
<1>13. \A p, q \in 1 .. n : /\ p < q <=> Older(i, age[p][2], age[q][2])
                            /\ age[p] = age[q] => p = q
  BY <1>5, <1>9
<1>14. ToSet(age) = {a \in Live : a[1] = t}
  BY <1>11, <1>12
<1>15. DOMAIN age = 1 .. uiRecordNum[t] /\ \A m \in 1 .. uiRecordNum[t] : age[m] \in Addr /\ age[m][1] = t
  BY <1>1, <1>8, <1>9
<1>16. ASSUME NEW p \in 1 .. uiRecordNum[t], NEW q \in 1 .. uiRecordNum[t]
       PROVE  /\ p < q <=> Older(uiRecordLoc[t], age[p][2], age[q][2])
              /\ age[p] = age[q] => p = q
  BY <1>1, <1>13
<1> QED
  BY <1>14, <1>15, <1>16 DEF age

\* A select of an index without sort field returns the records of a table in
\* the order of their age and leaves none out, whatever other tables share
\* the index (kr_list_add_tail, kr_list_remove).
THEOREM SelectFollowsAge == Spec => []ListsFollowAge
<1>1. IInv /\ AgeInv => ListsFollowAge
  <2> SUFFICES ASSUME IInv, AgeInv, NEW t \in Tables, NEW x \in TableIndexes[t], NEW k \in Keys,
                      <<t, x>> \notin SortIndexes
               PROVE  LET list == Select(t, x, k)
                          age  == AgeOrder(t)
                      IN  /\ {a \in ToSet(list) : a[1] = t} =
                               {a \in ToSet(age) : FieldAt(pRecordBuff, a, x) = k}
                          /\ \A i, j \in DOMAIN list : \A m, n \in DOMAIN age :
                               list[i] = age[m] /\ list[j] = age[n] => (i < j <=> m < n)
    BY DEF ListsFollowAge
  <2>1. PICK h \in Hashes : h = HashOf(t, x) /\ h.id = x /\ t \in h.tables
    <3>1. HashOf(t, x) \in Hashes
      BY DEF Hashes
    <3>2. HashOf(t, x).id = x /\ t \in HashOf(t, x).tables
      BY DEF HashOf
    <3> QED
      BY <3>1, <3>2
  <2>2. PICK list : list = Select(t, x, k)
    OBVIOUS
  <2>3. PICK age : age = AgeOrder(t)
    OBVIOUS
  <2>4. /\ IndexOK(pHashTable[h], pRecordBuff, x, Held(h))
        /\ AllAged(pHashTable[h], uiRecordLoc, x)
    BY <2>1 DEF IInv, IndexInv, AgeInv
  <2>5. /\ list \in Seq(Addr) /\ IsInjective(list)
        /\ ToSet(list) = {a \in Held(h) : FieldAt(pRecordBuff, a, x) = k}
    BY <2>1, <2>2, <2>4, ListFound DEF Select
  <2>6. Aged(list, uiRecordLoc, x)
    BY <2>1, <2>2, <2>4, ListAged DEF Select
  <2>7. /\ DOMAIN age = 1 .. uiRecordNum[t]
        /\ ToSet(age) = {a \in Live : a[1] = t}
        /\ \A m \in DOMAIN age : age[m][1] = t
    BY <2>3, AgeOrderIs DEF IInv
  <2>8. \A m, n \in DOMAIN age :
          /\ m < n <=> Older(uiRecordLoc[t], age[m][2], age[n][2])
          /\ age[m] = age[n] => m = n
    <3>1. RingType /\ RingFilled
      BY DEF IInv
    <3>2. \A m, n \in 1 .. uiRecordNum[t] :
            /\ m < n <=> Older(uiRecordLoc[t], age[m][2], age[n][2])
            /\ age[m] = age[n] => m = n
      BY <2>3, <3>1, AgeOrderIs
    <3> QED
      BY <2>7, <3>2
  <2>9. {a \in ToSet(list) : a[1] = t} = {a \in ToSet(age) : FieldAt(pRecordBuff, a, x) = k}
    BY <2>1, <2>5, <2>7 DEF Held
  <2>10. ASSUME NEW i \in 1 .. Len(list), NEW j \in 1 .. Len(list), NEW m \in DOMAIN age, NEW n \in DOMAIN age,
                list[i] = age[m], list[j] = age[n]
         PROVE  i < j <=> m < n
    <3>1. list[i][1] = t /\ list[j][1] = t
      BY <2>7, <2>10
    <3>2. i < j => m < n
      BY <2>6, <2>8, <2>10, <3>1 DEF Aged
    <3>3. j < i => n < m
      BY <2>6, <2>8, <2>10, <3>1 DEF Aged
    <3>4. i = j => m = n
      BY <2>8, <2>10
    <3>5. i \in Int /\ j \in Int /\ m \in Int /\ n \in Int
      BY <2>5, <2>7
    <3> QED
      BY <3>2, <3>3, <3>4, <3>5
  <2>11. DOMAIN list = 1 .. Len(list)
    BY <2>5
  <2>12. \A i, j \in DOMAIN list : \A m, n \in DOMAIN age :
            list[i] = age[m] /\ list[j] = age[n] => (i < j <=> m < n)
    BY <2>10, <2>11
  <2> QED
    BY <2>2, <2>3, <2>9, <2>12
<1> QED
  BY <1>1, AgeInvariant, PTL

=============================================================================
