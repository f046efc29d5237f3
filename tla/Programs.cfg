SPECIFICATION MCSpec
CONSTANTS
  Samples = {"vfio_info", "region_dump", "virtio_caps", "common_cfg", "dma_map", "irq_eventfd", "queue_info", "reset_status", "feature_bits", "vring_map", "queue_program", "queue_enable", "notify_info", "notify_write", "driver_ok", "rx_buffers", "rx_observe", "tx_packet", "rx_tx_echo", "echo_loop", "irq_echo_loop", "ctrl_promisc", "promisc_observe", "ctrl_mac_addr", "ctrl_mac_table"}
  PortSamples = {"env_check", "pci_probe", "ethdev_info", "ethdev_configure", "queue_setup", "start_stop"}
  CopySamples = {"file_copy", "linked_copy", "pipeline_copy", "fixed_buffers"}
  BlockSize = 2
  MaxFileSize = 5
  MaxQueues = 2
  MaxDesc = 2
  MaxMbufs = 4
  TotalVfs = 2
  Peers = {1, 2}
  MaxMessages = 2
  MsgLen = 2
  PointerBytes = {0, 21, 64, 82, 254}
  ConfigSize = 256
  WordMax = 63
  PageBytes = 8
  QueueBytes = 3
  CommonBytes = 4
  BarSizes = {0, 8, 20}
  Offsets = {0, 3, 8, 17, 61, 62, 63}
  Lengths = {0, 2, 3, 7}
  SizeMax = 511
  PageSize = 16
  QueueSizes = {1, 2, 3}
  Alignments = {4, 32, 256}
  BufferCounts = {0, 1, 2, 3}
  BufferSizes = {0, 1, 16, 31, 100, 256, 300, 511}
  ExtraSizes = {0, 1, 13, 40}
INVARIANTS InUseIsGuarded NothingLeftBehind PlanKept PortTornDown PoolServesQueues SysfsOutcome CopiedOrTold BenchVerdict RegistersReached MemoryLaidOut
PROPERTIES NothingWithoutYes ProgramEnds
