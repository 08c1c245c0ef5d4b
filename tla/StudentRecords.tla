--------------------------- MODULE StudentRecords ---------------------------
(***************************************************************************)
(* Attendance, evaluations, conversations and coursework side by side.     *)
(* They write no table in common and share only the parent links, which    *)
(* none of them writes, so a step of one never disables or alters a step   *)
(* of another; a behaviour therefore follows one desk.                     *)
(***************************************************************************)
EXTENDS Attendance, Evaluations, Messaging, Coursework

VARIABLE desk

vars == <<linkVars, attendanceVars, evaluationVars, messagingVars, courseworkVars, desk>>

Init ==
    /\ desk \in {"attendance", "evaluations", "messaging", "coursework"}
    /\ LinksInit
    /\ desk = "evaluations" => \A s \in Students \ {Child} : links[s] = {}
    /\ desk \in {"messaging", "coursework"} => \A s \in Students : links[s] = {}
    /\ AttendanceInit /\ EvaluationInit /\ MessagingInit /\ CourseworkInit

(* The steps of one desk, and what stays as it is. *)
RecordStep ==
    /\ \/ desk = "attendance" /\ AttendanceNext /\ UNCHANGED evaluationVars
       \/ desk = "evaluations" /\ EvaluationNext /\ UNCHANGED attendanceVars
    /\ UNCHANGED <<messagingVars, courseworkVars>>

DialogueStep ==
    /\ \/ desk = "messaging" /\ MessagingNext /\ UNCHANGED courseworkVars
       \/ desk = "coursework" /\ CourseworkNext /\ UNCHANGED messagingVars
    /\ UNCHANGED <<linkVars, attendanceVars, evaluationVars>>

Next == UNCHANGED desk /\ (RecordStep \/ DialogueStep)

Spec == Init /\ [][Next]_vars

(* Every part has its type. *)
TypeOK == AttendanceTypeOK /\ EvaluationTypeOK /\ MessagingTypeOK /\ CourseworkTypeOK
=============================================================================
