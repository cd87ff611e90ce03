SPECIFICATION FairSpec
CONSTANTS
    Slots = {w1}
    Docs <- OneTask
    MaxTasks = 2
    Contents = {c1, c2}
    Garbage = garbage
    NoHash = nohash
    Reliable <- Oldest
    Limit = 1
    BackOff = 3
    RunLimit = 1
    MaxRedirects = 2
    MaxBytes = 1
    MayReplace = TRUE
    MaxFaults = 1
INVARIANTS VerdictFits RequestsBounded
PROPERTIES VerifiedStays ServedIsVerified
