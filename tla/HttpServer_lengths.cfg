SPECIFICATION Spec
CHECK_DEADLOCK FALSE
CONSTANTS
    Kind <- MCUpload
    MaxRequests = 1
    MaxLine = 2
INVARIANTS
    ResponsesDelimited
