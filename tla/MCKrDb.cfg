SPECIFICATION MCSpec
CONSTANTS
  t1 = t1
  t2 = t2
  k1 = k1
  k2 = k2
  NoRecord = NoRecord
  Tables <- MCTables
  Keep <- MCKeep
  Keys <- MCKeys
  TableIndexes <- MCTableIndexes
  DbIndexes <- MCDbIndexes
  SortIndexes <- MCSortIndexes
  Key <- HashKeys
  Value <- HashValues
  HashFunc <- HashOfKey
  Predicate <- Predicates
  NULL = 0
INVARIANTS
  KeyAnchored
  IndexSound
  IndexComplete
  OneEntryPerKey
  ListsFollowAge
  LookupEnds
  LookupExact
PROPERTY WindowSpec
