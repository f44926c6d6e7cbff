SPECIFICATION Spec
CONSTANTS
    MaxThreads = 1
    Fd = {1, 2}
    MaxClients = 2
    MaxAfter = 0
    AfterThreads = {}
    MaxCalls = 0
    CallThreads = {}
    Shared = {}
    IntBits = 2
    MaxReleases = 2
    MayQuit = {}
    TimedThreads = {}
INVARIANTS
    RemoveRemoves
