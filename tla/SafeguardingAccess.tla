------------------------- MODULE SafeguardingAccess -------------------------
(***************************************************************************)
(* What guidance cases and safety reports share: the guidance staff whose  *)
(* safeguarding access is active, the requests in progress and how many    *)
(* calls may fail.                                                         *)
(***************************************************************************)
EXTENDS Naturals

CONSTANTS
    Staff,      \* guidance users
    Requests,   \* HTTP requests that may be in progress together
    MaxFaults   \* bound: failed statements and process deaths

ASSUME FaultBound == MaxFaults \in Nat

VARIABLES
    access,     \* staff with active safeguarding access
    faults      \* calls failed so far

accessVars == <<access, faults>>

AccessInit == access \in SUBSET Staff /\ faults = 0

Fault == faults < MaxFaults /\ faults' = faults + 1

(* Safeguarding access is granted outside these services; it can be ended  *)
(* at any time.                                                            *)
Withdraw(s) ==
    /\ s \in access
    /\ access' = access \ {s}
=============================================================================
