SPECIFICATION LimitsSpec
CONSTANTS
    Limit = 2
    Span = 3
    MaxNow = 6
CHECK_DEADLOCK FALSE
INVARIANTS SignInsLimited
