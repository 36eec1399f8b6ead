SPECIFICATION Spec
CONSTANTS
  Procs = {"p1", "p2"}
  Eprom <- MCEprom
  RawT = {27898, 28411}
  RawP = {47686}
  Seconds = 5
  MaxCalls = 2
  MaxFaults = 1
  MaxNoise = 2
  MaxQueue = 1
  BufferTexts = 3
INVARIANTS ReportsMeasured FixIntact
PROPERTY FixArrives
CHECK_DEADLOCK FALSE
