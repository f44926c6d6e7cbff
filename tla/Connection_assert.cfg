SPECIFICATION Spec
CONSTANTS
    MaxUnread = 0
    MaxSend = 0
    AppTasks = {}
    MaxAppTasks = 0
    Inactivity = TRUE
    EarlyTimer = TRUE
INVARIANTS
    AssertConnecting
