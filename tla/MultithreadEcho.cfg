SPECIFICATION FairSpec
CONSTANTS
  NumWorkers = 2
  Fds = {5, 6}
  CAPACITY = 2
  SqDepth = 2
  CounterWrap = 3
INVARIANTS
  WakeupInv
  OneHolder
PROPERTY
  QueuedIsServed
CHECK_DEADLOCK FALSE
