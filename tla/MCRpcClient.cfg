\* Pooling, IDs that wrap around, timeouts, cancellation, a fault, a Stop and restart.
SPECIFICATION Spec
CONSTANTS
    c1 = c1
    c2 = c2
    c3 = c3
    c4 = c4
    Calls = {c1, c2, c3}
    CallSet = {c1, c2}
    AsyncSet = {c3}
    Kind <- MCKind
    HasBody = {c1}
    Objs = {o1, o2}
    Conns = {k1}
    PendingRequests = 1
    PendingFactor = 1
    IDModulus = 2
    HeaderLimit = 2
    MaxFaults = 1
    MaxStops = 1
    NoCall = NoCall
    NoObj = NoObj
SYMMETRY ObjSymmetry
CHECK_DEADLOCK FALSE
INVARIANTS
    TypeOK
    ExclusiveOwnership
    NoDoubleClose
    ResponseMatchesCall
    CanceledOnlyIfAsked
    CountExact
PROPERTIES
    CompletedIsFinal
    ImplementsAtMostOnce
