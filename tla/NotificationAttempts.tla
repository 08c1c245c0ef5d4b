----------------------- MODULE NotificationAttempts ------------------------
(***************************************************************************)
(* What is left of NotificationPromise when deliveries overlap.  Workers   *)
(* may hold the same job, and the one that ends last decides what becomes  *)
(* of it.  But every attempt began while its job was open, nothing is      *)
(* shown or sent outside an attempt, and no ending is invented: a job is   *)
(* delivered with every channel served or waived, and given up only for    *)
(* MaxAttempts attempts that failed.                                       *)
(***************************************************************************)
EXTENDS Naturals

CONSTANTS Jobs, Workers, MaxAttempts

VARIABLES
    asked,      \* jobs some event asked for
    outcome,    \* what the last attempt to end made of each
    tries,      \* the number that attempt had
    failures,   \* attempts that failed
    held,       \* jobs each worker has still to attempt
    shown,      \* in the recipient's in-app list
    sent,       \* e-mailed
    waived      \* channels found turned off or without a recipient

attemptVars == <<asked, outcome, tries, failures, held, shown, sent, waived>>

Init ==
    /\ asked = {}
    /\ outcome = [j \in Jobs |-> "open"]
    /\ tries = [j \in Jobs |-> 0]
    /\ failures = [j \in Jobs |-> 0]
    /\ held = [w \in Workers |-> {}]
    /\ shown = {}
    /\ sent = {}
    /\ waived = [j \in Jobs |-> {}]

Ask(j) ==
    /\ j \notin asked
    /\ asked' = asked \cup {j}
    /\ UNCHANGED <<outcome, tries, failures, held, shown, sent, waived>>

Take(w, some) ==
    /\ held[w] = {}
    /\ \A j \in some : j \in asked /\ outcome[j] = "open"
    /\ held' = [held EXCEPT ![w] = some]
    /\ UNCHANGED <<asked, outcome, tries, failures, shown, sent, waived>>

Show(w, j) ==
    /\ j \in held[w]
    /\ shown' = shown \cup {j}
    /\ UNCHANGED <<asked, outcome, tries, failures, held, sent, waived>>

Send(w, j) ==
    /\ j \in held[w]
    /\ sent' = sent \cup {j}
    /\ UNCHANGED <<asked, outcome, tries, failures, held, shown, waived>>

Waive(w, j, channels) ==
    /\ j \in held[w]
    /\ waived' = [waived EXCEPT ![j] = @ \cup channels]
    /\ UNCHANGED <<asked, outcome, tries, failures, held, shown, sent>>

(* The attempt of w at j was the n-th or a later one. *)
End(w, j, n, what) ==
    /\ j \in held[w]
    /\ held' = [held EXCEPT ![w] = @ \ {j}]
    /\ tries' = [tries EXCEPT ![j] = n]
    /\ outcome' = [outcome EXCEPT ![j] = what]
    /\ UNCHANGED <<asked, shown, sent, waived>>

Deliver(w, j, n) ==
    /\ j \in shown \/ "IN_APP" \in waived[j]
    /\ j \in sent \/ "EMAIL" \in waived[j]
    /\ n <= failures[j] + 1
    /\ End(w, j, n, "delivered")
    /\ UNCHANGED failures

Fail(w, j, n) ==
    /\ failures' = [failures EXCEPT ![j] = @ + 1]
    /\ n <= failures[j] + 1
    /\ End(w, j, n, IF n = MaxAttempts THEN "abandoned" ELSE "open")

Drop(w) ==
    /\ held' = [held EXCEPT ![w] = {}]
    /\ UNCHANGED <<asked, outcome, tries, failures, shown, sent, waived>>

Next ==
    \/ \E j \in Jobs : Ask(j)
    \/ \E w \in Workers :
          \/ \E some \in SUBSET Jobs : Take(w, some)
          \/ \E j \in Jobs :
                \/ Show(w, j) \/ Send(w, j)
                \/ \E channels \in SUBSET {"IN_APP", "EMAIL"} : Waive(w, j, channels)
                \/ \E n \in 1..MaxAttempts : Deliver(w, j, n) \/ Fail(w, j, n)
          \/ Drop(w)

Spec == Init /\ [][Next]_attemptVars
=============================================================================
