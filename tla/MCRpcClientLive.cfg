\* Accepted calls complete, Stop terminates and leaves nothing pending.
SPECIFICATION FairSpec
CONSTANTS
    c1 = c1
    c2 = c2
    c3 = c3
    c4 = c4
    Calls = {c1, c2}
    CallSet = {c1}
    AsyncSet = {c2}
    Kind <- MCKind
    HasBody = {c1}
    Objs = {o1, o2}
    Conns = {k1}
    PendingRequests = 1
    PendingFactor = 1
    IDModulus = 3
    HeaderLimit = 2
    MaxFaults = 1
    MaxStops = 1
    NoCall = NoCall
    NoObj = NoObj
CHECK_DEADLOCK FALSE
PROPERTIES
    AcceptedEventuallyDone
    PendingEventuallyDone
    StopReturns
