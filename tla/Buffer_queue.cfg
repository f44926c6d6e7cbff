SPECIFICATION Spec
CONSTANTS
    Byte = {"0", "a", "n"}
    LF = "n"
    Zero = "0"
    DefaultSize = 2
    MaxWrite = 3
    MaxSize = 5
INVARIANTS
    TypeOK
PROPERTIES
    ImplementsQueue
