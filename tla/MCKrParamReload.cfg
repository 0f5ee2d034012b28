SPECIFICATION Spec
CONSTANTS
  w1 = w1
  w2 = w2
  Workers <- MCWorkers
  NKinds = 2
  MaxLoads = 3
  MaxTime = 3
INVARIANT ReadOnlyInThread
