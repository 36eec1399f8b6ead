SPECIFICATION FairSpec
CONSTANTS
    NSAMP = 5
    NMETA = 2
    NSUB = 2
    BIN = 3
    ScalerValues = {0, 1}
    ScalerWrap = 2
    CntWrap = 3
    PpsGap = 1
    MaxPps = 2
PROPERTIES Framed CounterGrows ReturnsToIdle
