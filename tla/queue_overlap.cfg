SPECIFICATION QueueFairSpec
CONSTANTS
    MaxJobs = 1
    Cycles = {c1, c2}
    BatchLimit = 1
    MaxAttempts = 3
    MaxAborts = 1
    MaxChanges = 1
INVARIANTS NeverGivenUpEarly DeliveredIsTrue NothingAfterLeaving
PROPERTIES EventuallySettled AttemptsKept
CHECK_DEADLOCK FALSE
