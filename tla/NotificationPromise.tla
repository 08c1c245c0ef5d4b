------------------------ MODULE NotificationPromise ------------------------
(***************************************************************************)
(* What the notification queue promises for each job, with no batches, no  *)
(* cycles and no stages: the recipient is notified on each channel while   *)
(* the job is open, at most MaxAttempts attempts are made, and the outcome *)
(* is final.                                                               *)
(***************************************************************************)
EXTENDS Naturals

CONSTANTS Jobs, MaxAttempts

VARIABLES
    asked,      \* jobs some event asked for
    outcome,    \* what became of each
    tries,      \* attempts finished
    shown,      \* in the recipient's in-app list
    sent        \* e-mailed

promiseVars == <<asked, outcome, tries, shown, sent>>

Init ==
    /\ asked = {}
    /\ outcome = [j \in Jobs |-> "open"]
    /\ tries = [j \in Jobs |-> 0]
    /\ shown = {}
    /\ sent = {}

Open(j) == j \in asked /\ outcome[j] = "open"

Ask(j) ==
    /\ j \notin asked
    /\ asked' = asked \cup {j}
    /\ UNCHANGED <<outcome, tries, shown, sent>>

Show(j) ==
    /\ Open(j)
    /\ shown' = shown \cup {j}
    /\ UNCHANGED <<asked, outcome, tries, sent>>

Send(j) ==
    /\ Open(j)
    /\ sent' = sent \cup {j}
    /\ UNCHANGED <<asked, outcome, tries, shown>>

(* An attempt ends: the job is delivered, stays open while attempts are    *)
(* left, or is abandoned with the last of them.                            *)
EndAttempt(j) ==
    /\ Open(j)
    /\ tries' = [tries EXCEPT ![j] = @ + 1]
    /\ \/ outcome' = [outcome EXCEPT ![j] = "delivered"]
       \/ tries'[j] < MaxAttempts /\ UNCHANGED outcome
       \/ tries'[j] = MaxAttempts /\ outcome' = [outcome EXCEPT ![j] = "abandoned"]
    /\ UNCHANGED <<asked, shown, sent>>

Next == \E j \in Jobs : Ask(j) \/ Show(j) \/ Send(j) \/ EndAttempt(j)

Spec == Init /\ [][Next]_promiseVars
=============================================================================
