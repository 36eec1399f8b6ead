\* lago_v1_5, scaled down: the writer wraps at 32 MB, the reader's limit is
\* 8 MB.
SPECIFICATION Spec
CONSTANTS
    WRAP = 8
    LIMIT = 16
    D = 3
    MaxWords = 20
INVARIANT NeverReadsAfterLimit
