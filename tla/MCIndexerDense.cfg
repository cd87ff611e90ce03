SPECIFICATION FairSpec
CONSTANTS
    ann = ann
    bea = bea
    Tasks = {1, 2}
    People = {ann, bea}
    Nobody = nobody
    Slots = {w1}
    NoRun = norun
    Chains <- DenseChain
    MaxBlock = 6
    StartBlock = 1
    Confirmations = 1
    ChunkSize = 1
    MaxChunks = 2
    MaxEvents = 3
    Lease = 2
    RunLimit = 2
    RpcLag = 0
    MayOmit = FALSE
    MaxFaults = 0
PROPERTIES CatchesUp
