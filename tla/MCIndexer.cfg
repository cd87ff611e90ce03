SPECIFICATION Spec
CONSTANTS
    ann = ann
    bea = bea
    Tasks = {1, 2}
    People = {ann, bea}
    Nobody = nobody
    Slots = {w1, w2}
    NoRun = norun
    Chains <- MCChains
    MaxBlock = 6
    StartBlock = 1
    Confirmations = 1
    ChunkSize = 2
    MaxChunks = 2
    MaxEvents = 3
    Lease = 2
    RunLimit = 2
    RpcLag = 1
    MayOmit = FALSE
    MaxFaults = 1
INVARIANTS LeaseExcludes ProjectionExact OnlyFinal
PROPERTIES KeepsMirror
