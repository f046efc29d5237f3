SPECIFICATION Spec
CONSTANTS
  NumWorkers = 2
  Fds = {5, 6, 7}
  CAPACITY = 2
  SqDepth = 2
  CounterWrap = 3
INVARIANT
  EveryConnectionDelivered
CHECK_DEADLOCK FALSE
