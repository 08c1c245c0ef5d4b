---------------------------- MODULE Safeguarding ----------------------------
(***************************************************************************)
(* Guidance cases and safety reports side by side, over one set of staff   *)
(* with safeguarding access.  A case only names its report and neither     *)
(* writes a table of the other, so a behaviour follows one of the two.     *)
(***************************************************************************)
EXTENDS GuidanceCases, SafetyReports

VARIABLE desk

safeguardingVars == <<caseVars, safetyVars, accessVars, desk>>

SafeguardingInit == desk \in {"cases", "reports"} /\ Init /\ SafetyInit

SafeguardingNext ==
    /\ \/ desk = "cases" /\ Next /\ UNCHANGED safetyVars
       \/ desk = "reports" /\ SafetyNext /\ UNCHANGED caseVars
    /\ UNCHANGED desk

SafeguardingSpec == SafeguardingInit /\ [][SafeguardingNext]_safeguardingVars

(* Both parts have their types. *)
SafeguardingTypeOK == TypeOK /\ SafetyTypeOK
=============================================================================
