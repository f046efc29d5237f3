SPECIFICATION FairSpec
CONSTANTS
  SqDepth = 3
  Fds = {5, 6}
  MultishotFds = {5}
  Conns = {1, 2}
  NUM_BUFS = 1
  MultishotBufs = 2
  BUF_SIZE = 2
  MaxBytes = 2
INVARIANTS
  BuffersConserved
  NobodyForgotten
  EchoesInOrder
PROPERTY
  EverythingEchoed
CHECK_DEADLOCK FALSE
