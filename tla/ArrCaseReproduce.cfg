SPECIFICATION Spec
CONSTANTS
    Users = {u1}
    Kinds = {"arr"}
    Keys = {"escalation"}
    Lines = {"power_purchase"}
    MaxEntered = 1
    MaxSets = 1
    MaxRuns = 1
    MaxDrafts = 0
    MaxPublished = 1
    MaxOverlaps = 0
CHECK_DEADLOCK FALSE
INVARIANT FrozenReproduces
