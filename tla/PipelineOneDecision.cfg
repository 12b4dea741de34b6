SPECIFICATION FairSpec
CONSTANTS
    Workers = {w1, w2}
    Users = {u1}
    Profiles = {p1}
    NoProfile = NoProfile
    Calls = {"confirm", "correct"}
    MaxRegions = 3
    MaxEdits = 1
    MaxFaults = 1
INVARIANTS
    PipelineTypeOK
    ReviewerSeesCurrentReading
    NotStranded
PROPERTIES
    EveryStageChains
CHECK_DEADLOCK FALSE
