SPECIFICATION FairSpec
CONSTANTS
    p1 = p1
    p2 = p2
    main = main
    Posters = {p1, p2}
    LoopThread = main
    MaxPosts = 2
    MaxTasks = 4
    MaxExpirations = 1
    MayInterrupt = TRUE
INVARIANTS
    TypeOK
    NoLostWakeup
    ExactlyOnce
    PosterOrder
PROPERTIES
    ImplementsExecutor
    EveryTaskRuns
    TicksRunTheRest
