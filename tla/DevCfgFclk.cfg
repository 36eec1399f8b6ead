SPECIFICATION FclkSpec
CONSTANTS
  Writers = {t1, t2}
  Fclks = {"fclk0", "fclk1"}
  MaxCalls = 8
  MaxFaults = 2
INVARIANTS Balanced
CHECK_DEADLOCK FALSE
