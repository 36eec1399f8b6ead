SPECIFICATION Spec
CONSTANTS
  Programs = {"dma_lago", "counter_dma", "dma_test", "dma_loopback", "app_dma_test", "linux_cdma", "linux_dma", "uio", "simple_poll", "passthrough", "sg_poll", "axidma", "zynq_dma"}
  Rounds = 2
  Bds = 3
  MaxStarts = 3
  MaxFaults = 2
INVARIANTS ReadsFinished QuietAfterExit
PROPERTY Terminates
CHECK_DEADLOCK FALSE
