\* A timed out batch with a request that expects no response, and a Call.
SPECIFICATION BatchSpec
CONSTANTS
    c1 = c1
    c2 = c2
    c3 = c3
    c4 = c4
    Calls = {c1, c2, c3}
    CallSet = {c3}
    AsyncSet = {c1}
    Size = 2
    Kind <- MCKind
    Ops <- MCOps
    Retries = 1
    HasBody = {}
    Objs = {o1, o2}
    Conns = {k1}
    PendingRequests = 2
    PendingFactor = 1
    IDModulus = 4
    HeaderLimit = 2
    MaxFaults = 0
    MaxStops = 0
    NoCall = NoCall
    NoObj = NoObj
SYMMETRY ObjSymmetry
CHECK_DEADLOCK FALSE
INVARIANTS
    CanceledOnlyIfAsked
