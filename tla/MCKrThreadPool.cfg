SPECIFICATION Spec
CONSTANTS
  w1 = w1
  w2 = w2
  w3 = w3
  main = main
  Free = Free
  Workers <- ThreeWorkers
  Callers <- MainOnly
  Hwm = 3
  MaxTasks = 3
INVARIANTS
  EnoughAlert
  SoleCallerNeverRefused
PROPERTIES
  PoolSafe
  PoolFair
CHECK_DEADLOCK FALSE
