\* Liveness: one slot, room for one response, one more request than fit into the
\* server when a write stalls, and handlers that may never return.
SPECIFICATION MCLiveSpec
CONSTANTS
    r1 = r1
    r2 = r2
    r3 = r3
    k1 = k1
    k2 = k2
    Conns = {k1}
    Reqs = {r1, r2, r3}
    SecondConn = {}
    Skip = {}
    HasBody = {r1}
    Outcomes = {"ok"}
    Objs = {o1, o2}
    Concurrency = 1
    PendingResponses = 1
    HeaderLimit = 2
    Relisten = TRUE
    MaxStarts = 1
    MaxFaults = 0
    Origin <- MCOrigin
    NoConn = NoConn
    NoReq = NoReq
    NoObj = NoObj
CHECK_DEADLOCK FALSE
PROPERTIES
    StopReturns
    SlotsReturned
    ReplyDelivered
