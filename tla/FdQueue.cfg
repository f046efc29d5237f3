SPECIFICATION QueueSpec
CONSTANTS
  CAPACITY = 4
  Fds = {5, 6}
INVARIANTS
  NoSlotRace
  QueueInv
PROPERTY
  ImplementsChannel
CHECK_DEADLOCK TRUE
