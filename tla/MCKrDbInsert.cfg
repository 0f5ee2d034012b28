SPECIFICATION Spec
CONSTANTS
  w1 = w1
  w2 = w2
  t1 = t1
  t2 = t2
  k1 = k1
  k2 = k2
  NoRecord = NoRecord
  Free = Free
  MaxLists = 3
  Workers <- MCWorkers
  Tables <- MCTables
  Keep <- MCKeep
  Keys <- MCKeys
  TableIndexes <- MCTableIndexes
  DbIndexes <- OwnIndexes
  SortIndexes <- Unsorted
INVARIANTS
  NoTrap
  UnlockedIsCommitted
  NoLeakedList
PROPERTIES
  AtomicInsert
  LockGivenBack
