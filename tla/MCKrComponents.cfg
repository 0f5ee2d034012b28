SPECIFICATION Spec
CONSTANTS
  \* Two descriptors, up to three timers, a second of two milliseconds.
  Fd = {0, 1}
  SEC = 2
  Delay = {1, 2}
  Proc = {1}
  Api = {"epoll", "select"}
  MaxTimer = 3
  MaxTime = 3
  \* Three keys in a cache of one or three, two items, one worker.
  CacheKey = {1, 2, 3}
  HdiId = {1, 2}
  IndexId = {1, 2}
  IndexOf <- OwnIndex
  CurrRec <- CurrentRecords
  SizeSet = {1, 3}
  Asker = {1}
  MaxNode = 3
  \* The databases of MCKrComponents.
  Database <- Databases
  N_MAX <- TwoOfEach
  MaxLoad = 2
  MaxLost = 1
  RowId = {1, 2, 3}
  SubRow <- SubRows
  Schema <- Schemas
  \* Three tables, of which two have the index; twelve items.
  Table = {1, 2, 3}
  Keep <- Rings
  HasIndex = {1, 2}
  Event <- Events
  Item = {1, 2, 3, 4, 5, 6, 7, 8, 9, 10, 11, 12}
  Def <- Defs
  Flag <- Flags
  Group <- Groups
  Ask <- Questions
  SetId = {1}
  Readable = {1, 2}
  MaxEvent = 4
  \* Every operator and every kind of operand.
  Formula <- Formulas
  Record <- Records
  Distance = 2
INVARIANTS
  LinksExact
  TraversalExact
  EvalExact
  CheckSound
  
  InterestExact
  TimersServed
  LoadedWhole
  CursorsClosed
  ReplyExact
  StoreLifecycle
CHECK_DEADLOCK FALSE
