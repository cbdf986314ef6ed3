\* Two connections share pool and slots; Stop with handlers running, and a restart.
SPECIFICATION Spec
CONSTANTS
    r1 = r1
    r2 = r2
    r3 = r3
    k1 = k1
    k2 = k2
    Conns = {k1, k2}
    Reqs = {r1, r2}
    SecondConn = {r2}
    Skip = {}
    HasBody = {}
    Outcomes = {"ok", "error", "empty"}
    Objs = {o1, o2}
    Concurrency = 1
    PendingResponses = 1
    HeaderLimit = 2
    Relisten = TRUE
    MaxStarts = 2
    MaxFaults = 0
    Origin <- MCOrigin
    NoConn = NoConn
    NoReq = NoReq
    NoObj = NoObj
SYMMETRY ConnSymmetry
CHECK_DEADLOCK FALSE
INVARIANTS
    MessageOwnership
    SlotsExact
