SPECIFICATION Spec
CONSTANTS
    energy = energy
    demand = demand
    v1 = v1
    v2 = v2
    rita = rita
    sam = sam
    Items = {energy}
    Values = {v1}
    Reviewers = {rita, sam}
    NoOne = NoOne
    NoValue = NoValue
    AlwaysSecond = {energy}
    CorrectedSecond = {}
    Flawed = {}
    Outcomes = {"approve"}
    Overlap = TRUE
    MaxReads = 1
    MaxDecisions = 3
    Scopes <- OneScope
    MaxReleases = 0
INVARIANT SecondIsByAnother
CHECK_DEADLOCK FALSE
