SPECIFICATION MCSpec
CONSTANTS
  Variants = {"plain", "timeout", "splice", "slots", "files"}
  FileSizes = {0, 3}
  SqDepth = 5
  Fds = {5, 6}
  BufSize = 2
  MaxBytes = 2
  MaxConns = 2
INVARIANTS
  OneAwait
  FilesServed
PROPERTIES
  ImplementsService
  NobodyStays
CHECK_DEADLOCK FALSE
