SPECIFICATION FindingsSpec
CONSTANT None = None
INVARIANT FindingsReachTheirRows
CHECK_DEADLOCK FALSE
