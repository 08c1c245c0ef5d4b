SPECIFICATION CareSpec
CONSTANTS
    Cases = {c1}
    Staff = {s1, s2}
    Requests = {r1, r2}
    Texts = {t1, t2}
    ReportStatuses = {"SUBMITTED", "CLOSED"}
    MaxReports = 2
    MaxCalls = 3
    MaxNotes = 1
    MaxBegun = 4
    MaxFaults = 1
    MaxJobs = 2
    Cycles = {w1}
    BatchLimit = 2
    MaxAttempts = 2
    MaxAborts = 1
    MaxChanges = 1
SYMMETRY StaffSymmetry
CHECK_DEADLOCK FALSE
INVARIANTS ElevatedWork CaseIsAudited ClosedIsKept StatusExplained
    DisclosureAudited
PROPERTIES ClosedCasesRest PromiseKept
