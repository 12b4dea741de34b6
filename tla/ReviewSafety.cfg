SPECIFICATION Spec
CONSTANTS
    energy = energy
    demand = demand
    v1 = v1
    v2 = v2
    rita = rita
    sam = sam
    Items = {energy}
    Values = {v1, v2}
    Reviewers = {rita, sam}
    NoOne = NoOne
    NoValue = NoValue
    AlwaysSecond = {}
    CorrectedSecond = {energy}
    Flawed = {}
    Outcomes = {"approve", "correct", "reject"}
    Overlap = FALSE
    MaxReads = 2
    MaxDecisions = 3
    Scopes <- OneScope
    MaxReleases = 2
SYMMETRY Symmetry
INVARIANTS
    FourEyes
    RowFollowsHistory
    DecidedAsSeen
    ReleasesHold
CHECK_DEADLOCK FALSE
