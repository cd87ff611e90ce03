SPECIFICATION Spec
CONSTANTS
    Creator = creator
    Stranger = stranger
    Nobody = nobody
    Chains = {coston2}
    Coston2 = coston2
    NoChain = nochain
    Funds = 2
    Allowances = {0, 1, 2}
    Elsewhere = {1}
    MaxId = 3
    Fallible = {"contractBalance"}
    RequestIds = {r1, r2}
    NoId = noid
    NoIntent = nointent
PROPERTIES SubmittedOnce
