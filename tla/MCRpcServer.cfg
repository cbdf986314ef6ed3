\* A streamed response, a buffered one and a request without one; a fault, a Stop.
SPECIFICATION Spec
CONSTANTS
    r1 = r1
    r2 = r2
    r3 = r3
    k1 = k1
    k2 = k2
    Conns = {k1}
    Reqs = {r1, r2, r3}
    SecondConn = {}
    Skip = {r3}
    HasBody = {r1}
    Outcomes = {"ok", "error", "empty"}
    Objs = {o1, o2}
    Concurrency = 1
    PendingResponses = 1
    HeaderLimit = 2
    Relisten = TRUE
    MaxStarts = 1
    MaxFaults = 1
    Origin <- MCOrigin
    NoConn = NoConn
    NoReq = NoReq
    NoObj = NoObj
SYMMETRY ObjSymmetry
CHECK_DEADLOCK FALSE
INVARIANTS
    TypeOK
    MessageOwnership
    PooledIsClean
    ResponseMatchesHandler
    SlotsExact
    ServedOnce
    FlushArmed
