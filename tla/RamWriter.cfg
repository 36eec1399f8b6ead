SPECIFICATION FairSpec
CONSTANTS
    WRAP = 32
    FifoDepth = 18
    AELevel = 16
    MaxWords = 36
INVARIANTS NoUnderflow BurstAligned
PROPERTIES Implements StreamResumes
