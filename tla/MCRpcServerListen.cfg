\* The net listeners keep their address after Close.
SPECIFICATION Spec
CONSTANTS
    r1 = r1
    r2 = r2
    r3 = r3
    k1 = k1
    k2 = k2
    Conns = {k1}
    Reqs = {r1, r2}
    SecondConn = {}
    Skip = {}
    HasBody = {r1}
    Outcomes = {"ok", "error", "empty"}
    Objs = {o1, o2}
    Concurrency = 1
    PendingResponses = 1
    HeaderLimit = 2
    Relisten = FALSE
    MaxStarts = 2
    MaxFaults = 1
    Origin <- MCOrigin
    NoConn = NoConn
    NoReq = NoReq
    NoObj = NoObj
SYMMETRY ObjSymmetry
CHECK_DEADLOCK FALSE
INVARIANTS
    RunningListens
