SPECIFICATION FairSpec
CONSTANTS
    Creator = creator
    Stranger = stranger
    Nobody = nobody
    Chains = {coston2, otherchain}
    Coston2 = coston2
    NoChain = nochain
    Funds = 1
    Allowances = {0, 1, 2}
    Elsewhere = {0}
    MaxId = 3
    Fallible = {"allowance"}
    RequestIds = {r1}
    NoId = noid
    NoIntent = nointent
INVARIANTS ReadyIsAccepted VerifiedIsTaskTwo
PROPERTIES LocksForGood ReceiptIsShown
