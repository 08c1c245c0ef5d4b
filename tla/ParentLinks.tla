---------------------------- MODULE ParentLinks ----------------------------
(***************************************************************************)
(* The approved parent-student links (ParentStudentLink), the relation by  *)
(* which attendance and evaluations decide whom they may tell.             *)
(***************************************************************************)
CONSTANTS Students, Parents

VARIABLES
    links,        \* approved parents of each student
    everLinked    \* history: parents each student has had

linkVars == <<links, everLinked>>

LinksInit ==
    /\ links \in [Students -> SUBSET Parents]
    /\ everLinked = links

(* linkParent creates the row approved; one row per parent and student. *)
Link(s, p) ==
    /\ p \notin links[s]
    /\ links' = [links EXCEPT ![s] = @ \cup {p}]
    /\ everLinked' = [everLinked EXCEPT ![s] = @ \cup {p}]

(* No service takes a link away; operators do. *)
Unlink(s, p) ==
    /\ p \in links[s]
    /\ links' = [links EXCEPT ![s] = @ \ {p}]
    /\ UNCHANGED everLinked

LinksChange == \E s \in Students, p \in Parents : Link(s, p) \/ Unlink(s, p)

LinksOK ==
    /\ links \in [Students -> SUBSET Parents]
    /\ everLinked \in [Students -> SUBSET Parents]
    /\ \A s \in Students : links[s] \subseteq everLinked[s]
=============================================================================
