SPECIFICATION FairSpec
CONSTANTS
    ann = ann
    bea = bea
    Tasks = {1}
    People = {ann, bea}
    Nobody = nobody
    Slots = {w1, w2}
    NoRun = norun
    Chains <- ShortChain
    MaxBlock = 4
    StartBlock = 1
    Confirmations = 1
    ChunkSize = 1
    MaxChunks = 2
    MaxEvents = 2
    Lease = 2
    RunLimit = 3
    RpcLag = 0
    MayOmit = FALSE
    MaxFaults = 1
INVARIANTS NoEventLost
PROPERTIES CatchesUp LeaseComesFree LeaseNotStolen
