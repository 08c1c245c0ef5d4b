SPECIFICATION Spec
CONSTANTS
    Invitations = {i1, i2}
    Resets = {t1, t2}
    Schools = {k1, k2}
    Requests = {r1, r2, r3}
    MaxRequests = 5
    MaxFaults = 1
CHECK_DEADLOCK FALSE
SYMMETRY CodeSymmetry
INVARIANTS CodesWorkOnce InvitationIsWhole ResetCloses DeactivationCloses
