SPECIFICATION DeskSpec
CONSTANTS
    Lines = {l1, l2}
    Figures = {1, 2}
    Rows = {1, 2}
    MaxReadings = 2
    MaxCalls = 2
    Fills = {1, 2}
    Narrative = TRUE
    MaxCrashes = 1
    People = {1, 2, 3}
    Administrators = {3}
    Founder = 1
    MaxOrgChanges = 3
    MaxInFlight = 2
    Licensees = {u1, u2}
    Documents = {d1, d2}
    MaxKeys = 2
    MaxChanges = 2
    None = None
    Requests <- SomeRequests
    NoKey = 0
    MaxSends = 2
INVARIANTS
    DeskTypeOK
    TrackCheckpoints
    ReviewStands
    RegisteredOnce
PROPERTIES
    FillHolds
    EveryFillEnds
    MembershipHolds
    HoldingsStand
CHECK_DEADLOCK FALSE
