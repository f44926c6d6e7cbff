SPECIFICATION FairSpec
CHECK_DEADLOCK FALSE
CONSTANTS
    ThreadCnt = 3
    MaxSpurious = 2
INVARIANTS
    LoopsAreReady
PROPERTIES
    PoolStarts
