SPECIFICATION Spec
CONSTANTS
    Workers = {w1, w2}
    Users = {u1}
    Profiles = {p1}
    NoProfile = NoProfile
    Calls = {"confirm", "correct", "annotate", "profile", "rerun", "reprocess"}
    MaxRegions = 3
    MaxEdits = 2
    MaxFaults = 0
SYMMETRY WorkerSymmetry
INVARIANTS
    ReadOnlyDecidedRegions
PROPERTIES
    RegionsFrozenOnceExtracted
CHECK_DEADLOCK FALSE
