SPECIFICATION Spec
CONSTANTS
    MaxTasks = 3
    MayOmit = {2}
    Limit = 2
INVARIANTS CountedAreListed ListIsExact
