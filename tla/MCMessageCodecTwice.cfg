\* A body that is passed on without NotClose.
SPECIFICATION Spec
CONSTANTS
    file = file
    short = short
    source = source
    memory = memory
    passed = passed
    plain = plain
    oops = oops
    large = large
    hollow = hollow
    Msgs = {file, short, large, source, memory, passed, plain, oops, hollow}
    Scripts <- MCScripts
    HasHead = {file, memory}
    HasErr = {oops}
    NotClose = {}
    NoMsg = NoMsg
    Kind <- MCKind
    Size <- MCSize
    Offset <- MCOffset
    SrcLen <- MCSrcLen
    From <- MCFrom
    PageSize = 2
    DefaultPipeSize = 1
    MaxPipeSize = 8
    MaxPairs = 2
    HeaderLimit = 3
    MaxFaults = 1
CHECK_DEADLOCK FALSE
INVARIANT
    OneUser
