----------------------------- MODULE KrDbInsert -----------------------------
(***************************************************************************)
(* kr_db_insert as the worker threads of the engine run it: the steps of   *)
(* one insert, from kr_lock_table to kr_unlock_table, interleaved with the *)
(* steps of the inserts of the other workers.                              *)
(*                                                                         *)
(* The mutex belongs to the table.  A hash table of type KR_INDEXTYPE_DB   *)
(* belongs to several tables, and no lock covers it.  Record lists are     *)
(* heap objects here: the hash table stores the pointer, and a worker      *)
(* holds a copy of the pointer between the lookup and the last use.        *)
(***************************************************************************)
EXTENDS Integers, FiniteSets, SequencesExt

CONSTANTS
  Workers,       \* the threads of the pool
  Tables, Keep, Keys, TableIndexes, DbIndexes, SortIndexes, NoRecord,
  MaxLists,      \* heap cells for the record lists of one key
  Free           \* the owner of a mutex that nobody holds

\* Every table has an index (a datasource without one cannot be selected).
ASSUME IndexedAssumption == \A t \in Tables : TableIndexes[t] # {}

\* The schema is as in KrDb; indexes have the numbers of the definition file,
\* there is memory for a list, and nobody's name is that of a free mutex.
ASSUME InsertAssumption ==
  /\ IsFiniteSet(Tables) /\ Keep \in [Tables -> Nat \ {0}]
  /\ DOMAIN TableIndexes = Tables
  /\ \A t \in Tables : TableIndexes[t] \subseteq Nat /\ NoRecord \notin [TableIndexes[t] -> Keys]
  /\ \A p \in DbIndexes : /\ p = <<p[1], p[2]>>
                          /\ p[1] \in Tables /\ p[2] \in TableIndexes[p[1]]
  /\ MaxLists \in Nat \ {0}
  /\ Free \notin Workers

VARIABLES
  pRecordBuff, uiRecordLoc, uiRecordNum,
  pHashTable,    \* entries: hash, key pointer, list pointer
  recList,       \* the allocated record lists
  tLock,         \* the mutex of each table
  pc,            \* the step each worker is at
  job,           \* the table, the event and the slot of the worker's insert
  todo,          \* the indexes kr_list_foreach has still to visit
  held,          \* the list pointer the worker read from the hash table
  committed      \* history: each table as its last kr_unlock_table left it

shared == <<pRecordBuff, uiRecordLoc, uiRecordNum, pHashTable, recList>>
vars == <<shared, tLock, pc, job, todo, held, committed>>

\* KrDb over the state that the unlocks have published.
Db == INSTANCE KrDb WITH
  pRecordBuff <- committed.buff,
  uiRecordLoc <- committed.loc,
  uiRecordNum <- committed.num,
  pHashTable  <- committed.hash

-----------------------------------------------------------------------------
NoJob == [table |-> Free, data |-> Free, slot |-> Free]

\* kr_list_foreach visits pIndexList from its head: the ids in the order
\* they were created.
Current(w) == Min(todo[w])

JobHash(w) == Db!HashOf(job[w].table, Current(w))

\* The entries under the key that record a has in the current index.
Found(w, buff) ==
  Db!Lookup(pHashTable[JobHash(w)], buff, Current(w), buff[job[w].slot][Current(w)])

\* Addresses of record lists, named after the key they are allocated for.
ListIds == Db!Hashes \X Keys \X (1 .. MaxLists)

\* kr_list_new: a cell that is not in use; a freed one is taken again.
NewList(w) ==
  LET cell(n) == <<JobHash(w), job[w].data[Current(w)], n>>
  IN  cell(Min({n \in 1 .. MaxLists : cell(n) \notin DOMAIN recList}))

\* The state of table t as a reader of KrDb sees it, lists by value.
Contents(h) == {[e EXCEPT !.list = recList[e.list]] : e \in pHashTable[h]}

Publish(t, buff, loc, num) ==
  [buff |-> [a \in Db!Addr |-> IF a[1] = t THEN buff[a] ELSE committed.buff[a]],
   loc  |-> [committed.loc EXCEPT ![t] = loc],
   num  |-> [committed.num EXCEPT ![t] = num],
   hash |-> [h \in Db!Hashes |-> IF t \in h.tables THEN Contents(h) ELSE committed.hash[h]]]

-----------------------------------------------------------------------------
Init ==
  /\ pRecordBuff = [a \in Db!Addr |-> NoRecord]
  /\ uiRecordLoc = [t \in Tables |-> 0]
  /\ uiRecordNum = [t \in Tables |-> 0]
  /\ pHashTable = [h \in Db!Hashes |-> {}]
  /\ recList = <<>>
  /\ tLock = [t \in Tables |-> Free]
  /\ pc = [w \in Workers |-> "idle"]
  /\ job = [w \in Workers |-> NoJob]
  /\ todo = [w \in Workers |-> {}]
  /\ held = [w \in Workers |-> Free]
  /\ committed = [buff |-> pRecordBuff, loc |-> uiRecordLoc,
                  num |-> uiRecordNum, hash |-> pHashTable]

\* The engine hands the worker an event for table t: kr_db_insert is called.
Begin(w, t, data) ==
  /\ pc[w] = "idle"
  /\ pc' = [pc EXCEPT ![w] = "lock"]
  /\ job' = [job EXCEPT ![w] = [table |-> t, data |-> data, slot |-> Free]]
  /\ UNCHANGED <<shared, tLock, todo, held, committed>>

\* Mutant of LockTable: the insert does not wait for the table's mutex.
LockTableSkipped(w, t) == UNCHANGED tLock

\* kr_lock_table, kr_unlock_table: the pthread mutex of the table.
LockTable(w, t) == tLock[t] = Free /\ tLock' = [tLock EXCEPT ![t] = w]

\* Mutant of UnlockTable: a return without kr_unlock_table.
UnlockTableMissing(t) == UNCHANGED tLock

UnlockTable(t) == tLock' = [tLock EXCEPT ![t] = Free]

\* kr_lock_table, then kr_create_record_from_data takes the slot at
\* uiRecordLoc; a slot in use goes through kr_delete_record first.
Lock(w) ==
  LET t == job[w].table
      a == <<t, uiRecordLoc[t]>>
  IN  /\ pc[w] = "lock"
      /\ LockTable(w, t)
      /\ pc' = [pc EXCEPT ![w] = IF pRecordBuff[a] = NoRecord THEN "fill" ELSE "unlink"]
      /\ job' = [job EXCEPT ![w].slot = a]
      /\ todo' = [todo EXCEPT ![w] = TableIndexes[t]]
      /\ UNCHANGED <<shared, held, committed>>

\* The worker's next step dereferences NULL (kr_list_length of no list) or a
\* list that another worker has freed: the process traps.
Traps(w) ==
  \/ pc[w] = "unlink" /\ Found(w, pRecordBuff) = {}
  \/ pc[w] \in {"rekey", "link"} /\ held[w] \notin DOMAIN recList

\* kr_rebuild_index_del, first half: look the list up, unlink the record.
Unlink(w) ==
  LET l == (CHOOSE e \in Found(w, pRecordBuff) : TRUE).list
  IN  /\ pc[w] = "unlink"
      /\ ~ Traps(w)
      /\ pc' = [pc EXCEPT ![w] = "rekey"]
      /\ held' = [held EXCEPT ![w] = l]
      /\ recList' = [recList EXCEPT ![l] = RemoveFirst(@, job[w].slot)]
      /\ UNCHANGED <<pRecordBuff, uiRecordLoc, uiRecordNum, pHashTable, tLock, job, todo, committed>>

\* The list still has records: the key pointer moves to the last of them.
MoveKey(w) ==
  /\ pHashTable' = [pHashTable EXCEPT
       ![JobHash(w)] = Db!Replace(@, pRecordBuff, Current(w), Last(recList[held[w]]), held[w])]
  /\ UNCHANGED recList

\* Mutant of DropList: the list is not freed.
DropListLeaks(w) ==
  /\ pHashTable' = [pHashTable EXCEPT ![JobHash(w)] = @ \ Found(w, pRecordBuff)]
  /\ UNCHANGED recList

\* The list is empty: kr_list_destroy and kr_hashtable_remove.
DropList(w) ==
  /\ recList' = [l \in DOMAIN recList \ {held[w]} |-> recList[l]]
  /\ pHashTable' = [pHashTable EXCEPT ![JobHash(w)] = @ \ Found(w, pRecordBuff)]

\* kr_rebuild_index_del, second half.  After the last index kr_delete_record
\* decrements uiRecordNum.
Rekey(w) ==
  /\ pc[w] = "rekey"
  /\ ~ Traps(w)
  /\ IF recList[held[w]] # <<>> THEN MoveKey(w) ELSE DropList(w)
  /\ todo' = [todo EXCEPT ![w] = @ \ {Current(w)}]
  /\ held' = [held EXCEPT ![w] = Free]
  /\ IF todo'[w] = {}
     THEN /\ pc' = [pc EXCEPT ![w] = "fill"]
          /\ uiRecordNum' = [uiRecordNum EXCEPT ![job[w].table] = @ - 1]
     ELSE /\ pc' = [pc EXCEPT ![w] = "unlink"]
          /\ UNCHANGED uiRecordNum
  /\ UNCHANGED <<pRecordBuff, uiRecordLoc, tLock, job, committed>>

\* memset of the slot and kr_assign_field_value.
Fill(w) ==
  /\ pc[w] = "fill"
  /\ pRecordBuff' = [pRecordBuff EXCEPT ![job[w].slot] = job[w].data]
  /\ todo' = [todo EXCEPT ![w] = TableIndexes[job[w].table]]
  /\ pc' = [pc EXCEPT ![w] = "find"]
  /\ UNCHANGED <<uiRecordLoc, uiRecordNum, pHashTable, recList, tLock, job, held, committed>>

\* kr_rebuild_index_ins, first half: the list of the key, or a new one.
Find(w) ==
  /\ pc[w] = "find"
  /\ IF Found(w, pRecordBuff) = {}
     THEN /\ held' = [held EXCEPT ![w] = NewList(w)]
          /\ recList' = [l \in DOMAIN recList \cup {NewList(w)} |->
                           IF l = NewList(w) THEN <<>> ELSE recList[l]]
     ELSE /\ held' = [held EXCEPT ![w] = (CHOOSE e \in Found(w, pRecordBuff) : TRUE).list]
          /\ UNCHANGED recList
  /\ pc' = [pc EXCEPT ![w] = "link"]
  /\ UNCHANGED <<pRecordBuff, uiRecordLoc, uiRecordNum, pHashTable, tLock, job, todo, committed>>

\* kr_rebuild_index_ins, second half: add the record to the list and store
\* the list under the record's key.
Link(w) ==
  LET x == Current(w)
      l == held[w]
  IN  /\ pc[w] = "link"
      /\ ~ Traps(w)
      /\ \E p \in Db!Places(job[w].table, x, recList[l]) :
           recList' = [recList EXCEPT ![l] = InsertAt(@, p, job[w].slot)]
      /\ pHashTable' = [pHashTable EXCEPT
           ![JobHash(w)] = Db!Replace(@, pRecordBuff, x, job[w].slot, l)]
      /\ todo' = [todo EXCEPT ![w] = @ \ {x}]
      /\ held' = [held EXCEPT ![w] = Free]
      /\ pc' = [pc EXCEPT ![w] = IF todo'[w] = {} THEN "unlock" ELSE "find"]
      /\ UNCHANGED <<pRecordBuff, uiRecordLoc, uiRecordNum, tLock, job, committed>>

\* The end of kr_insert_record, kr_unlock_table and the return.
Unlock(w) ==
  LET t   == job[w].table
      num == IF uiRecordNum[t] + 1 > Keep[t] THEN Keep[t] ELSE uiRecordNum[t] + 1
      loc == (uiRecordLoc[t] + 1) % Keep[t]
  IN  /\ pc[w] = "unlock"
      /\ uiRecordNum' = [uiRecordNum EXCEPT ![t] = num]
      /\ uiRecordLoc' = [uiRecordLoc EXCEPT ![t] = loc]
      /\ UnlockTable(t)
      /\ committed' = Publish(t, pRecordBuff, loc, num)
      /\ pc' = [pc EXCEPT ![w] = "idle"]
      /\ job' = [job EXCEPT ![w] = NoJob]
      /\ UNCHANGED <<pRecordBuff, pHashTable, recList, todo, held>>

\* The steps of an insert that has been called.
Step(w) == Lock(w) \/ Unlink(w) \/ Rekey(w) \/ Fill(w) \/ Find(w) \/ Link(w) \/ Unlock(w)

Next ==
  \E w \in Workers :
    \/ \E t \in Tables : \E data \in Db!RecordOf(t) : Begin(w, t, data)
    \/ Step(w)

\* A running thread that is not blocked on the mutex goes on.
Spec == Init /\ [][Next]_vars /\ \A w \in Workers : WF_vars(Step(w))

-----------------------------------------------------------------------------
\* Workers between the lock and the unlock of an insert.
Inside(w) == pc[w] \in {"unlink", "rekey", "fill", "find", "link", "unlock"}

\* Program points, lock owners and pointers are what the code allows.
TypeOK ==
  /\ pc \in [Workers -> {"idle", "lock", "unlink", "rekey", "fill", "find", "link", "unlock"}]
  /\ tLock \in [Tables -> Workers \cup {Free}]
  /\ DOMAIN recList \subseteq ListIds
  /\ \A l \in DOMAIN recList : recList[l] \in Seq(Db!Addr)
  /\ \A h \in DOMAIN pHashTable : \A e \in pHashTable[h] : e.list \in DOMAIN recList
  /\ \A w \in Workers : pc[w] \in {"rekey", "link"} => held[w] \in ListIds

\* No worker ever traps: kr_rebuild_index_del finds the list of the record
\* it deletes, and no list is freed while a worker holds its pointer.
NoTrap == \A w \in Workers : ~ Traps(w)

\* Two inserts are never inside the same hash table: the table lock is taken
\* to protect it ("need lock this table").
IndexExclusive ==
  \A v, w \in Workers : v # w /\ Inside(v) /\ Inside(w) =>
    \A x \in TableIndexes[job[v].table], y \in TableIndexes[job[w].table] :
      Db!HashOf(job[v].table, x) # Db!HashOf(job[w].table, y)

\* A table nobody has locked is exactly as its last unlock left it: no insert
\* into another table changes it, its indexes or its lists.
UnlockedIsCommitted ==
  \A t \in Tables : tLock[t] = Free =>
    /\ \A a \in Db!Slots(t) : pRecordBuff[a] = committed.buff[a]
    /\ uiRecordLoc[t] = committed.loc[t]
    /\ uiRecordNum[t] = committed.num[t]
    /\ \A h \in Db!Hashes : t \in h.tables => Contents(h) = committed.hash[h]

\* The lists that no entry points to and no worker is about to store are
\* leaked: kr_list_new and kr_list_destroy pair up.
NoLeakedList ==
  \A l \in DOMAIN recList :
    \/ \E h \in DOMAIN pHashTable : \E e \in pHashTable[h] : e.list = l
    \/ \E w \in Workers : pc[w] \in {"link", "rekey"} /\ held[w] = l

\* The interleaved inserts are the atomic inserts of KrDb, in the order of
\* their kr_unlock_table calls.
AtomicInsert == Db!Init /\ [][Db!Next]_(Db!vars)

\* A lock that is taken is given back: an insert never stops half way.
LockGivenBack == \A t \in Tables : tLock[t] # Free ~> tLock[t] = Free

\* When no insert is running, every stored record is found through every
\* index of its table.
StoredIsIndexed ==
  (\A w \in Workers : pc[w] \in {"idle", "lock"}) =>
     \A a \in Db!Addr : pRecordBuff[a] # NoRecord =>
       \A x \in TableIndexes[a[1]] :
         \E e \in pHashTable[Db!HashOf(a[1], x)] : a \in ToSet(recList[e.list])

=============================================================================
