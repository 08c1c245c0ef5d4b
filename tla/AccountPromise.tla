--------------------------- MODULE AccountPromise ---------------------------
(***************************************************************************)
(* An account as its owner sees it.  A code works once or never: a         *)
(* membership comes in the very step that spends its invitation, a new     *)
(* password in the step that spends its token, and a token taken and not   *)
(* spent is wasted.  A session opens only for a request admitted while the *)
(* account was active, and is never open again once it was closed.         *)
(***************************************************************************)
EXTENDS Naturals

CONSTANTS Invitations, Resets, Schools, Requests

VARIABLES
    schoolOf,   \* the school of each invitation
    code,       \* what has become of each invitation and token
    status,     \* of the account; "NONE" before there is one
    members,    \* schools it belongs to
    passwords,  \* passwords set by a reset
    admitted,   \* requests that may open a session
    opened,     \* sessions 1..opened have been opened
    open        \* those not closed since

accountVars == <<schoolOf, code, status, members, passwords, admitted, opened, open>>

Init ==
    /\ schoolOf \in [Invitations -> Schools]
    /\ code = [c \in Invitations \cup Resets |-> "unissued"]
    /\ status = "NONE" /\ members = {}
    /\ passwords = 0
    /\ admitted = {}
    /\ opened = 0 /\ open = {}

Becomes(c, old, new) ==
    /\ code[c] = old
    /\ code' = [code EXCEPT ![c] = new]

Issue(c) ==
    /\ Becomes(c, "unissued", "open")
    /\ c \in Resets => status # "NONE"
    /\ UNCHANGED <<schoolOf, status, members, passwords, admitted, opened, open>>

Expire(c) ==
    /\ Becomes(c, "open", "expired")
    /\ UNCHANGED <<schoolOf, status, members, passwords, admitted, opened, open>>

Redeem(r, i) ==
    /\ Becomes(i, "open", "used")
    /\ schoolOf[i] \notin members
    /\ members' = members \cup {schoolOf[i]}
    /\ status' = "ACTIVE"
    /\ admitted' = admitted \cup {r}
    /\ UNCHANGED <<schoolOf, passwords, opened, open>>

Take(t) ==
    /\ Becomes(t, "open", "taken")
    /\ UNCHANGED <<schoolOf, status, members, passwords, admitted, opened, open>>

Waste(t) ==
    /\ Becomes(t, "taken", "wasted")
    /\ UNCHANGED <<schoolOf, status, members, passwords, admitted, opened, open>>

Reset(t) ==
    /\ Becomes(t, "taken", "used")
    /\ passwords' = passwords + 1
    /\ status' = "ACTIVE"
    /\ UNCHANGED <<schoolOf, members, admitted, opened, open>>

SetStatus(new) ==
    /\ status # "NONE"
    /\ status' = new
    /\ UNCHANGED <<schoolOf, code, members, passwords, admitted, opened, open>>

Admit(r) ==
    /\ status = "ACTIVE" /\ members # {}
    /\ admitted' = admitted \cup {r}
    /\ UNCHANGED <<schoolOf, code, status, members, passwords, opened, open>>

SignIn(r) ==
    /\ r \in admitted
    /\ admitted' = admitted \ {r}
    /\ opened' = opened + 1
    /\ open' = open \cup {opened'}
    /\ UNCHANGED <<schoolOf, code, status, members, passwords>>

GiveUp(r) ==
    /\ admitted' = admitted \ {r}
    /\ UNCHANGED <<schoolOf, code, status, members, passwords, opened, open>>

Close(some) ==
    /\ open' = open \ some
    /\ UNCHANGED <<schoolOf, code, status, members, passwords, admitted, opened>>

Next ==
    \/ \E c \in Invitations \cup Resets : Issue(c) \/ Expire(c)
    \/ \E t \in Resets : Take(t) \/ Waste(t) \/ Reset(t)
    \/ \E r \in Requests :
          \/ \E i \in Invitations : Redeem(r, i)
          \/ Admit(r) \/ SignIn(r) \/ GiveUp(r)
    \/ \E new \in {"ACTIVE", "INACTIVE"} : SetStatus(new)
    \/ \E some \in SUBSET (1..opened) : Close(some)

Spec == Init /\ [][Next]_accountVars
=============================================================================
