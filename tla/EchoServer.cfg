SPECIFICATION FairSpec
CONSTANTS
  SqDepth = 3
  Fds = {5, 6}
  BufSize = 2
  MaxBytes = 2
  MaxConns = 2
INVARIANTS
  OneOperation
PROPERTIES
  ImplementsService
  EveryByteEchoed
CHECK_DEADLOCK FALSE
