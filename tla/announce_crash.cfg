SPECIFICATION Spec
CONSTANTS
    Announcements = {a1}
    Users = {u1}
    Requests = {r1}
    Cycles = {c1}
    MaxTime = 1
    MaxPublications = 0
    MaxFaults = 1
CHECK_DEADLOCK FALSE
INVARIANTS PublishedAtomically
