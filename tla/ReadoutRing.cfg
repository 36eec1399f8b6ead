\* lago_v1_0: the ring of the writer and the limit of the reader agree.
SPECIFICATION FairSpec
CONSTANTS
    WRAP = 8
    LIMIT = 64
    D = 3
    MaxWords = 17
INVARIANTS IInv PendingIntact NeverReadsAfterLimit
PROPERTIES Implements Delivered
