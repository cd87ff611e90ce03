SPECIFICATION FairSpec
CONSTANTS
    me = me
    d = d
    nodoc = nodoc
    Users = {me}
    Nobody = nobody
    Chains = {coston2}
    Coston2 = coston2
    Rewards = {1, 2}
    Docs = {d}
    NoDoc = nodoc
    ManifestOf <- OneManifest
    DraftOf <- OneDraft
    Funds = 2
    Allowances = {0, 1, 2}
    Elsewhere = {0}
    MaxChecks = 1
    MaxId = 2
    RequestIds = {r1}
    NoId = noid
    NoIntent = nointent
INVARIANTS AnnouncedIsOwn PublishedSaysReward
PROPERTIES ReceiptRefreshes
