SPECIFICATION FairRateSpec
CONSTANTS
    W = 6
    R = 3
    Scalers = {0, 1, 2, 4}
    MaxSec = 4
INVARIANT RateUnlessClash
PROPERTY KeepsTriggering
