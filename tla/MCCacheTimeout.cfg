SPECIFICATION CacheSpec
CONSTANTS
    k1 = k1
    k2 = k2
    Key <- MCKey
    Simultaneous = 1
    SuccessPeriod = 2
    FailurePeriod = 1
    MaxOps = 0
    Res = {r1}
    Storer = {}
    Reader = {}
    MaxVersion = 1
    MaxCrashes = 0
    b1 = b1
    b2 = b2
    b3 = b3
    Empty = Empty
    Peer = {p1}
    LanPeer = {}
    Injected = {1, 2, 3}
    Blocks <- SomeBlocks
    Kinds = {"dht"}
    MayTimeOut = TRUE
    u1 = u1
    u2 = u2
    None = None
    BlockSize = 2
    MaxPiece = 2
    SizeMod = 16
    Unit <- SomeUnits
    Bodies = {}
    OtherBodies <- SomeOtherBodies
INVARIANTS
    EndedIsFailed
CHECK_DEADLOCK FALSE
