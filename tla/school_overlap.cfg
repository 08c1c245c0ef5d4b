SPECIFICATION OfficeSpec
CONSTANTS
    Items = {i1}
    Requests = {a1, a2, a3}
    Contents = {pdf, png}
    MaxKeys = 2
    MaxFaults = 1
    Schools = {k1, k2}
    People = {p1, p2}
    Names = {n1}
    Clerks = {a1, a2}
    MaxMembers = 2
    MaxTasks = 4
    Events = {e1}
    FollowUps = {g1}
    Members = {p1, p2}
    Workers = {a1, a2}
    MaxDay = 2
    MaxScans = 2
    MaxMoves = 1
    Limit = 2
    Span = 3
    MaxNow = 6
SYMMETRY OfficeSymmetry
CHECK_DEADLOCK FALSE
INVARIANTS NoDangling DownloadIsWhole FilesAccountedFor
    StructureSound NotifiedMaySee EveryoneReminded AttemptsBounded
