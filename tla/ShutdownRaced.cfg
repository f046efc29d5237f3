SPECIFICATION FairSpec
CONSTANTS
  SqDepth = 6
  Fds = {5, 6}
PROPERTY
  ShutdownCompletes
CHECK_DEADLOCK FALSE
