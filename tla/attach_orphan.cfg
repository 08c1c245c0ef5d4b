SPECIFICATION Spec
CONSTANTS
    Items = {i1}
    Requests = {r1, r2}
    Contents = {pdf}
    MaxKeys = 2
    MaxFaults = 0
CHECK_DEADLOCK FALSE
INVARIANTS PriorRemoved
