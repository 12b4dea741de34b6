SPECIFICATION Spec
CONSTANTS
    energy = energy
    demand = demand
    v1 = v1
    v2 = v2
    rita = rita
    sam = sam
    Items = {energy}
    Values = {v1, v2}
    Reviewers = {rita, sam}
    NoOne = NoOne
    NoValue = NoValue
    AlwaysSecond = {}
    CorrectedSecond = {energy}
    Flawed <- FlawedValue
    Outcomes = {"correct"}
    Overlap = TRUE
    MaxReads = 2
    MaxDecisions = 2
    Scopes <- OneScope
    MaxReleases = 2
SYMMETRY ReviewerSymmetry
INVARIANTS
    SecondFollowsFirst
CHECK_DEADLOCK FALSE
