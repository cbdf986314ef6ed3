\* A queue of one, two connections, a server that may not answer.
SPECIFICATION Spec
CONSTANTS
    c1 = c1
    c2 = c2
    c3 = c3
    c4 = c4
    Calls = {c1, c2, c3, c4}
    CallSet = {c1}
    AsyncSet = {c2, c3}
    Kind <- MCKind
    HasBody = {c1}
    Objs = {o1, o2, o3}
    Conns = {k1, k2}
    PendingRequests = 1
    PendingFactor = 0
    IDModulus = 3
    HeaderLimit = 2
    MaxFaults = 0
    MaxStops = 0
    NoCall = NoCall
    NoObj = NoObj
SYMMETRY FullSymmetry
CHECK_DEADLOCK FALSE
INVARIANTS
    SentOnce
    FlushArmed
    PendingBounded
