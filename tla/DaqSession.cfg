SPECIFICATION Spec
CONSTANTS
  Procs = {p1, p2}
  Releases = {"v1_0", "v1_2", "v1_3", "v1_5"}
  Commands <- MCCommands
  Beside <- MCBeside
  Addrs = {a1, a2}
  None = None
  Fixed = Fixed
  Stray = Stray
  MaxStarts = 3
  MaxFaults = 1
INVARIANTS WriterInLiveBuffer ReaderSeesWriter QuietBetween ClockSourceChosen SettingsKept
PROPERTY Recovers
CHECK_DEADLOCK FALSE

SYMMETRY MCSymmetry
