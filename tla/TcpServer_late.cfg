SPECIFICATION Spec
CONSTANTS
    MaxThreads = 1
    Fd = {1}
    MaxClients = 2
    MaxAfter = 0
    AfterThreads = {}
    MaxCalls = 1
    CallThreads = {1}
    Shared = {1}
    IntBits = 8
    MaxReleases = 1
    MayQuit = {}
    TimedThreads = {}
INVARIANTS
    TranslatesReadyFds
