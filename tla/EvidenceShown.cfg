SPECIFICATION EvidenceSpec
CONSTANTS
    Viewers = {rita, sam}
    Cited = {x1}
    Pages = {p1, p2}
    TwoRounds = {x1}
    MaxViews = 3
    MaxTaken = 3
INVARIANT ApprovedWasShown
CHECK_DEADLOCK FALSE
