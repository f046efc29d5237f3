SPECIFICATION FairSpec
CONSTANTS
  SqDepth = 6
  Fds = {5, 6}
INVARIANTS
  RegistryExact
  ShutdownFits
PROPERTY
  ShutdownUnlessRaced
CHECK_DEADLOCK FALSE
