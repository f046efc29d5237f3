SPECIFICATION Spec
CONSTANTS
  Samples = {"vfio_info", "region_dump", "virtio_caps", "common_cfg", "dma_map", "irq_eventfd", "queue_info", "reset_status", "feature_bits", "vring_map", "queue_program", "queue_enable", "notify_info", "notify_write", "driver_ok", "rx_buffers", "rx_observe", "tx_packet", "rx_tx_echo", "echo_loop", "irq_echo_loop", "ctrl_promisc", "promisc_observe", "ctrl_mac_addr", "ctrl_mac_table"}
INVARIANT MappedUntilReset
