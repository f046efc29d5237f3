SPECIFICATION FairSpec
CONSTANTS
  Samples = {"echo_loop", "irq_echo_loop", "ctrl_promisc", "promisc_observe", "ctrl_mac_addr", "ctrl_mac_table"}
  RxBuffers = 2
  TxBuffers = 1
  DeviceSize = 3
  IdxWrap = 4
  MaxPackets = 2
  MaxRx = 2
INVARIANTS
  OneOwner
  NoRxLeak
  AckBelieved
  EchoesOnce
  NoMissedInterrupt
  NoMissedNotify
PROPERTIES
  TxBufferStable
  RxConsumed
CHECK_DEADLOCK FALSE
