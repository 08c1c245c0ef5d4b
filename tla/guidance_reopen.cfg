SPECIFICATION Spec
CONSTANTS
    Cases = {c1}
    Staff = {s1, s2}
    Requests = {r1, r2}
    MaxNotes = 0
    MaxBegun = 4
    MaxFaults = 0
CHECK_DEADLOCK FALSE
PROPERTIES ReopenedByElevated
