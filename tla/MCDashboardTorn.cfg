SPECIFICATION Spec
CONSTANTS
    Reward = 1
    Hashes = {h1, h2}
    NoHash = nohash
    MaxBlock = 3
    Loads = {l1, l2}
INVARIANTS ShowsOneBlock
