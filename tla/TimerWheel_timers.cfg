SPECIFICATION FairSpec
CONSTANTS
    a = a
    b = b
    Id = {a, b}
    None = None
    Capacity = 3
    Timeouts = {1, 2, 3, 4}
    MaxBacklog = 2
INVARIANTS
    TypeOK
    MapMatchesWheel
    NoRevival
    OnSchedule
PROPERTIES
    ImplementsCountdown
    EventuallyGone
