SPECIFICATION Spec
CONSTANTS
    Students = {s1, s2}
    Child = s1
    Parents = {p1}
    Requests = {r1, r2}
    MaxRequests = 3
    MaxFaults = 1
    Contents = {c1}
    Writers = {r1, r2}
    MaxEdits = 2
    MaxStops = 1
    Talks = {r1, r2}
    MaxTalks = 3
    MaxRefusals = 1
    MaxBreaks = 1
    Pupils = {s1}
    Guardians = {p1}
    Tasks = {r1, r2}
    MaxTasks = 3
    MaxSlips = 1
    MaxMoves = 1
CHECK_DEADLOCK FALSE
SYMMETRY RequestSymmetry
INVARIANTS
    TypeOK
    StatesExplained AbsenceIsNotified
    EditsHaveHistory InternalStaysInternal
    FilesOfMessages ConversationAudited
    SubmittedWhenOffered NoticesOfWork
