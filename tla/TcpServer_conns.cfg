SPECIFICATION FairSpec
CONSTANTS
    MaxThreads = 2
    Fd = {1, 2}
    MaxClients = 3
    MaxAfter = 1
    AfterThreads = {0}
    MaxCalls = 1
    CallThreads = {1}
    Shared = {1}
    IntBits = 8
    MaxReleases = 1
    MayQuit = {0}
    TimedThreads = {0, 2}
INVARIANTS
    TypeOK
    NoDanglingPointers
    WatchesOwnFds
    OpenIsKnown
    FunctorsKept
PROPERTIES
    ImplementsLife
    ReleasedIsDestroyed
    ClientsAreAccepted
