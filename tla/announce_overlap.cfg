SPECIFICATION BoardSpec
CONSTANTS
    Announcements = {a1}
    Users = {u1}
    Requests = {r1}
    Cycles = {c1, c2}
    MaxTime = 1
    MaxPublications = 2
    MaxFaults = 1
    RoleSets <- UserKinds
    MaxSessions = 2
    MaxHandlers = 3
    Classes = {"7A", "7B"}
    Days = {"Mon", "Tue"}
    FirstDay = "Mon"
    MaxCalls = 3
    Works = {"essay", "sums"}
    MaxSaves = 3
    MaxTexts = 2
    Versions = {"v1", "v2", "v3"}
    MaxInstalls = 3
    MaxShutdowns = 1
CHECK_DEADLOCK FALSE
INVARIANTS NothingEarly NoticeBudget
    SheetIsOfChoice SaysWhatIsSaved TextStaysWithItsRow OfferedIsAllowed ShellKept
PROPERTIES DueIsPublished
