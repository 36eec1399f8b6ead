SPECIFICATION FairSpec
CONSTANTS
    NB = 3
    MAXV = 2
    N = 6
    MaxAcc = 8
    MaxResets = 2
INVARIANTS BinsExact SamplesCounted
PROPERTY Completes
CHECK_DEADLOCK FALSE
