SPECIFICATION Spec
CONSTANTS
    Accounts = {alice, bob, carol}
    Escrow = escrow
    NoOne = noone
    EmptyURI = empty
    ZeroHash = zero
    u1 = u1
    h1 = h1
    h2 = h2
    Metadata <- MCMetadata
    Results <- MCResults
    Skims <- MCSkims
    MaxTasks = 2
    MaxReward = 2
    InitialBalance = 2
    MaxUint = 5
    MaxDepth = 2
INVARIANTS TypeOK Solvent PayoutFunded BooksBalance PaidOnce LogTellsTheStory
PROPERTIES CommitmentsAreFixed KeepsPromise
CHECK_DEADLOCK FALSE
