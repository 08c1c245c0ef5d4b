----------------------------- MODULE CareOffice -----------------------------
(***************************************************************************)
(* Guidance cases, safety reports and the notification queue side by side. *)
(* A follow-up comes to the queue as a job like any other, and no handler  *)
(* of one side reads a table of the other, so a behaviour follows one.     *)
(***************************************************************************)
EXTENDS Safeguarding, NotificationQueue

VARIABLE office

careVars == <<safeguardingVars, queueVars, office>>

CareInit ==
    /\ office \in {"safeguarding", "queue"}
    /\ SafeguardingInit /\ QueueInit
    /\ office = "queue" => desk = "cases" /\ access = {}

CareNext ==
    /\ \/ office = "safeguarding" /\ SafeguardingNext /\ UNCHANGED queueVars
       \/ office = "queue" /\ QueueNext /\ UNCHANGED safeguardingVars
    /\ UNCHANGED office

CareSpec == CareInit /\ [][CareNext]_careVars
=============================================================================
