\* A batch of three, one of them without response, and a Call that competes for a queue of one.
SPECIFICATION BatchSpec
CONSTANTS
    c1 = c1
    c2 = c2
    c3 = c3
    c4 = c4
    Calls = {c1, c2, c3, c4}
    CallSet = {c4}
    AsyncSet = {c1, c3}
    Size = 3
    Kind <- MCKind
    Ops <- MCOps
    Retries = 1
    HasBody = {}
    Objs = {o1, o2, o3}
    Conns = {k1}
    PendingRequests = 1
    PendingFactor = 1
    IDModulus = 3
    HeaderLimit = 2
    MaxFaults = 1
    MaxStops = 1
    NoCall = NoCall
    NoObj = NoObj
SYMMETRY ObjSymmetry
CHECK_DEADLOCK FALSE
INVARIANTS
    BatchTypeOK
    DoneAfterCall
    BatchAnswered
    NoDoubleClose
