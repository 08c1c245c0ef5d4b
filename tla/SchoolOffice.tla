---------------------------- MODULE SchoolOffice ----------------------------
(***************************************************************************)
(* The attachment store, the structure of the schools, the calendar with   *)
(* its reminders and the rate limits side by side.  They share no state,   *)
(* so a behaviour follows one of them.                                     *)
(***************************************************************************)
EXTENDS AttachmentStore, SchoolStructure, Calendar, RateLimits

VARIABLE desk

officeVars == <<vars, structureVars, calendarVars, limitVars, desk>>

OfficeInit ==
    /\ desk \in {"files", "structure", "calendar", "limits"}
    /\ Init /\ StructureInit /\ CalendarInit /\ LimitsInit
    /\ desk # "structure" => member = [p \in People \X Schools |-> "none"] /\ rows = {}
    /\ IF desk = "calendar" THEN \A i, j \in Occasions : audience[i] = audience[j]
       ELSE audience = [i \in Occasions |-> {}]

OfficeNext ==
    /\ \/ desk = "files" /\ Next /\ UNCHANGED <<structureVars, calendarVars, limitVars>>
       \/ desk = "structure" /\ StructureNext /\ UNCHANGED <<vars, calendarVars, limitVars>>
       \/ desk = "calendar" /\ CalendarNext /\ UNCHANGED <<vars, structureVars, limitVars>>
       \/ desk = "limits" /\ LimitsNext /\ UNCHANGED <<vars, structureVars, calendarVars>>
    /\ UNCHANGED desk

OfficeSpec == OfficeInit /\ [][OfficeNext]_officeVars
=============================================================================
