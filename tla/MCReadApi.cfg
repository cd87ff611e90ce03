SPECIFICATION ApiSpec
CONSTANTS
    ann = ann
    bea = bea
    Tasks = {1, 2, 3}
    People = {ann, bea}
    Nobody = nobody
    Slots = {w1}
    NoRun = norun
    Chains <- MovingChain
    MaxBlock = 5
    StartBlock = 1
    Confirmations = 1
    ChunkSize = 2
    MaxChunks = 2
    MaxEvents = 4
    Lease = 0
    RunLimit = 0
    RpcLag = 0
    MayOmit = TRUE
    MaxFaults = 0
    Requests <- MCRequests
    DefaultLimit = 2
    MaxLimit = 2
INVARIANTS DetailIsProven WalkIsExact CountedIsListed RowsMatchEvents
PROPERTIES WalkEnds
