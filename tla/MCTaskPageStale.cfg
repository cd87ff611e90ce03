SPECIFICATION Spec
CONSTANTS
    ann = ann
    bea = bea
    doc1 = doc1
    doc2 = doc2
    Accounts = {ann, bea}
    Creator = ann
    Nobody = nobody
    Artifacts = {doc1}
    NoArtifact = noartifact
    NoTask = notask
    LoadIds = {l1}
    Starts <- SubmittedTask
    Coston2 = coston2
    Chains = {coston2}
    RequestIds = {r1}
    NoId = noid
    Users = {ann}
    NoIntent = nointent
PROPERTIES SendIsPrepared
