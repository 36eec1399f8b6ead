SPECIFICATION Spec
CONSTANTS
    CNT = 4
    SPM = 2
    MPH = 2
    HPD = 3
    TimeBytes <- MCTimeBytes
    MaxGap = 2
    MaxTrig = 7
    MaxPulses = 3
    MaxPps = 12
INVARIANTS BaselineOncePerPulse DeadTime HourInFile 
CHECK_DEADLOCK FALSE
