\* Every kind of body, two pipe pairs, a fault, splicing or not, CloseBody or not.
SPECIFICATION Spec
CONSTANTS
    file = file
    short = short
    source = source
    memory = memory
    passed = passed
    plain = plain
    oops = oops
    large = large
    hollow = hollow
    Msgs = {file, short, large, source, memory, passed, plain, oops, hollow}
    Scripts <- MCScripts
    HasHead = {file, memory}
    HasErr = {oops}
    NotClose = {passed}
    NoMsg = NoMsg
    Kind <- MCKind
    Size <- MCSize
    Offset <- MCOffset
    SrcLen <- MCSrcLen
    From <- MCFrom
    PageSize = 2
    DefaultPipeSize = 1
    MaxPipeSize = 8
    MaxPairs = 2
    HeaderLimit = 3
    MaxFaults = 1
CHECK_DEADLOCK FALSE
INVARIANTS
    TypeOK
    PairOwnership
    UsedCountExact
    UnusedIsEmpty
    InSync
    DeliveredInOrder
    StatsAgree
PROPERTIES
    Arrives
