SPECIFICATION FairSpec
CONSTANTS
    ann = ann
    bea = bea
    doc1 = doc1
    doc2 = doc2
    Accounts = {ann, bea}
    Creator = ann
    Nobody = nobody
    Artifacts = {doc1}
    NoArtifact = noartifact
    NoTask = notask
    LoadIds = {l1, l2}
    Starts <- TakenTask
    Coston2 = coston2
    Chains = {coston2, otherchain}
    RequestIds = {r1}
    NoId = noid
    Users = {ann, bea}
    NoIntent = nointent
INVARIANTS SubmittedWasVerified ApprovedWasVerified
PROPERTIES PageNeverGoesBack ConfirmedIsShown
