SPECIFICATION FairSpec
CONSTANTS
    MaxUnread = 1
    MaxSend = 2
    AppTasks = {"Send", "ShutDown", "Register", "Cancel"}
    MaxAppTasks = 2
    Inactivity = TRUE
    EarlyTimer = FALSE
INVARIANTS
    TypeOK
    OutputWatched
    DrainedBeforeRelease
    EnabledIsTimed
    ShutDownUnderWay
PROPERTIES
    StaysDisconnected
    PeerGoneReleases
    ShutDownCompletes
