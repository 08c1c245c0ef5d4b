SPECIFICATION Spec
CONSTANTS
    Students = {s1, s2}
    Child = s1
    Parents = {p1}
    Requests = {r1}
    MaxRequests = 0
    MaxFaults = 0
    Contents = {c1, c2}
    Writers = {w1, w2}
    MaxEdits = 2
    MaxStops = 0
    Talks = {k1}
    MaxTalks = 0
    MaxRefusals = 0
    MaxBreaks = 0
    Pupils = {s1}
    Guardians = {p1}
    Tasks = {t1}
    MaxTasks = 0
    MaxSlips = 0
    MaxMoves = 0
CHECK_DEADLOCK FALSE
INVARIANTS PreviousIsKept
