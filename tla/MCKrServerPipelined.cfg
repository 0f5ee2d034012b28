SPECIFICATION Spec
CONSTANTS
  w1 = w1
  w2 = w2
  None = None
  Workers <- MCWorkers
  MaxConns = 1
  SetSize = 1
  MaxRequests = 2
  MaxLen = 1
  BufferMaxLen = 1
  ReplyLen = 2
INVARIANT
  MessageFormat
CHECK_DEADLOCK FALSE
