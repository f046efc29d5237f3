SPECIFICATION Spec
CONSTANTS
  SqDepth = 4
  Fds = {5}
  MultishotFds = {5}
  Conns = {1}
  NUM_BUFS = 2
  MultishotBufs = 2
  BUF_SIZE = 2
  MaxBytes = 3
INVARIANT
  InOrder
CHECK_DEADLOCK FALSE
