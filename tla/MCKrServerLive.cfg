SPECIFICATION Spec
CONSTANTS
  w1 = w1
  w2 = w2
  None = None
  Workers <- MCWorkers
  MaxConns = 2
  SetSize = 1
  MaxRequests = 2
  MaxLen = 3
  BufferMaxLen = 2
  ReplyLen = 2
PROPERTY
  AnsweredOrClosed
CHECK_DEADLOCK FALSE
