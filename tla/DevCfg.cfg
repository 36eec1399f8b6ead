SPECIFICATION Spec
CONSTANTS
  Threads = {t1, t2}
  Attrs = {"enable_dap", "enable_dbg_in", "enable_dbg_nonin", "enable_sec_dbg_in", "enable_sec_dbg_nonin", "enable_seu", "enable_aes", "aes_en_lock", "seu_lock", "dbg_lock"}
  Chunks = {6, 9}
  SyncAt = 1
  Swapped = TRUE
  MaxOps = 3
INVARIANTS TransfersOwned StreamWhole PlConnected Readback
PROPERTIES CallsReturn
CHECK_DEADLOCK FALSE
