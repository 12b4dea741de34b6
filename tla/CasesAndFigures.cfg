SPECIFICATION ArrReadingSpec
CONSTANTS
    c1 = c1
    c2 = c2
    c3 = c3
    Cells = {c1, c2, c3}
    Targets = {c2, c3}
    SheetOf <- OnSheets
    Plans <- SomePlans
    None = None
    MaxPasses = 5
    u1 = u1
    u2 = u2
    Users = {u1, u2}
    Kinds = {"arr", "true_up"}
    Keys = {"escalation"}
    Lines = {"power_purchase"}
    MaxEntered = 1
    MaxSets = 2
    MaxRuns = 2
    MaxDrafts = 1
    MaxPublished = 2
    MaxOverlaps = 1
    Viewers = {u1, u2}
    Cited = {energy, demand}
    Pages = {p1, p2}
    TwoRounds = {energy}
    MaxViews = 2
    MaxTaken = 2
SYMMETRY UserSymmetry
INVARIANTS
    EnteredIsKept
    FillSettles
    PagesAsPrinted
    ReadingsKept
    FindingsStand
    FrozenStands
    DraftsRest
    ReproducedAsFiled
    FormulatedAsPlanned
    DecisionsAsPrinted
    ArrReadAsPrinted
    EvidenceHolds
PROPERTIES
    FrozenIsLeftAlone
CHECK_DEADLOCK FALSE
