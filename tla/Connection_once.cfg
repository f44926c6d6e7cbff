SPECIFICATION Spec
CONSTANTS
    MaxUnread = 1
    MaxSend = 1
    AppTasks = {}
    MaxAppTasks = 0
    Inactivity = FALSE
    EarlyTimer = FALSE
INVARIANTS
    CloseCallbackOnce
