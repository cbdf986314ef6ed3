\* A buffer that wraps around and grows.
SPECIFICATION Spec
CONSTANTS
    Bytes = {1, 2}
    Zero = 0
    InitCaps = {0, 2, 3}
    MaxWrite = 3
    MaxRead = 3
    MaxCap = 5
CHECK_DEADLOCK FALSE
INVARIANTS
    TypeOK
PROPERTIES
    ImplementsByteQueue
