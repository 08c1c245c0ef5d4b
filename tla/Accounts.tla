------------------------------ MODULE Accounts ------------------------------
(***************************************************************************)
(* One person's account (auth.service.ts): invitations, password recovery, *)
(* sign-in, sign-out and (de)activation, and the sessions they open and    *)
(* close.                                                                  *)
(*                                                                         *)
(* One-time codes are found, then claimed by a conditional update.  What   *)
(* follows the claim is one transaction for an invitation and a series of  *)
(* statements for a reset; a sign-in opens its session some awaits after   *)
(* it read the account.                                                    *)
(***************************************************************************)
EXTENDS Integers, Sequences

CONSTANTS
    Invitations, Resets,   \* one-time codes
    Schools,
    Requests,              \* HTTP requests that may be in progress together
    MaxRequests,           \* bound: requests begun
    MaxFaults              \* bound: failed statements and process deaths

ASSUME AccountsBounds == MaxRequests \in Nat /\ MaxFaults \in Nat

(* Invitations and recovery tokens are rows of different tables. *)
ASSUME CodesApart == Invitations \cap Resets = {}

Codes == Invitations \cup Resets
CodeStates == {"unissued", "open", "used", "expired"}
Statuses == {"NONE", "ACTIVE", "INACTIVE"}    \* NONE: no user row

VARIABLES
    schoolOf,    \* the school of each invitation
    code,        \* state of each invitation and recovery token
    status,      \* the user's status
    members,     \* schools the user is an active member of
    sessions,    \* AuthSession rows in the order of their creation
    request,
    begun,       \* requests begun so far
    failed,      \* statements failed so far
    uses,        \* history: times each code has had its effect
    resets,      \* history: passwords set by a reset
    closures     \* history: deactivations written

counts == <<uses, resets, closures>>
vars == <<schoolOf, code, status, members, sessions, request, begun, failed, counts>>

Idle == [at |-> "idle", of |-> 0, code |-> "none"]
Busy(r) == request[r].at # "idle"
Finish(r) == request' = [request EXCEPT ![r] = Idle]
Go(r, where) == request' = [request EXCEPT ![r].at = where]
Open(c) == code[c] = "open"

Init ==
    /\ schoolOf \in [Invitations -> Schools]
    /\ code = [c \in Codes |-> "unissued"]
    /\ status = "NONE" /\ members = {}
    /\ sessions = <<>>
    /\ request = [r \in Requests |-> Idle]
    /\ begun = 0 /\ failed = 0
    /\ uses = [c \in Codes |-> 0]
    /\ resets = 0 /\ closures = 0

BeginRequest(r, q) ==
    /\ ~Busy(r)
    /\ begun < MaxRequests
    /\ begun' = begun + 1
    /\ request' = [request EXCEPT ![r] = q]
    /\ UNCHANGED <<schoolOf, code, status, members, sessions, failed, counts>>

(* SchoolsService.invite; requestRecovery, for an account that exists. *)
Issue(c) ==
    /\ code[c] = "unissued"
    /\ c \in Resets => status # "NONE"
    /\ code' = [code EXCEPT ![c] = "open"]
    /\ UNCHANGED <<schoolOf, status, members, sessions, request, begun, failed, counts>>

Expire(c) ==
    /\ Open(c)
    /\ code' = [code EXCEPT ![c] = "expired"]
    /\ UNCHANGED <<schoolOf, status, members, sessions, request, begun, failed, counts>>

-----------------------------------------------------------------------------
(* redeemInvitation.                                                       *)

BeginRedeem(r, i) ==
    /\ Open(i)
    /\ BeginRequest(r, [Idle EXCEPT !.at = "redeem", !.code = i])

Redeem_NoTransaction(r) ==
    LET i == request[r].code
        taken == schoolOf[i] \in members IN
    /\ request[r].at = "redeem"
    /\ IF Open(i)
       THEN /\ code' = [code EXCEPT ![i] = "used"]
            /\ uses' = [uses EXCEPT ![i] = @ + 1]
            /\ status' = "ACTIVE"
            /\ members' = members \cup {schoolOf[i]}
            /\ IF taken THEN Finish(r) ELSE Go(r, "session")
       ELSE Finish(r) /\ UNCHANGED <<code, status, members, uses>>
    /\ UNCHANGED <<schoolOf, sessions, begun, failed, resets, closures>>

(* One transaction claims the code, creates or updates the user as ACTIVE  *)
(* and verified, and creates the membership; a code claimed or lapsed      *)
(* meanwhile, or a membership that exists already, undoes all of it.       *)
Redeem(r) ==
    LET i == request[r].code IN
    /\ request[r].at = "redeem"
    /\ IF Open(i) /\ schoolOf[i] \notin members
       THEN /\ code' = [code EXCEPT ![i] = "used"]
            /\ uses' = [uses EXCEPT ![i] = @ + 1]
            /\ status' = "ACTIVE"
            /\ members' = members \cup {schoolOf[i]}
            /\ Go(r, "session")
       ELSE Finish(r) /\ UNCHANGED <<code, status, members, uses>>
    /\ UNCHANGED <<schoolOf, sessions, begun, failed, resets, closures>>

(* login: the right password of an ACTIVE member.  Verifying the password  *)
(* awaits, so the session is created later.                                *)
BeginLogin(r) ==
    /\ status = "ACTIVE" /\ members # {}
    /\ BeginRequest(r, [Idle EXCEPT !.at = "session"])

CreateSession(r) ==
    /\ request[r].at = "session"
    /\ sessions' = Append(sessions, [open |-> TRUE, resets |-> resets, closures |-> closures])
    /\ Finish(r)
    /\ UNCHANGED <<schoolOf, code, status, members, begun, failed, counts>>

-----------------------------------------------------------------------------
(* logout: find the open session, then its ACTIVE user, then revoke it.    *)

BeginLogout(r, s) ==
    /\ sessions[s].open
    /\ BeginRequest(r, [Idle EXCEPT !.at = "context", !.of = s])

Context(r) ==
    /\ request[r].at = "context"
    /\ IF status = "ACTIVE" THEN Go(r, "revoke") ELSE Finish(r)
    /\ UNCHANGED <<schoolOf, code, status, members, sessions, begun, failed, counts>>

Revoke(r) ==
    /\ request[r].at = "revoke"
    /\ sessions' = [sessions EXCEPT ![request[r].of].open = FALSE]
    /\ Finish(r)
    /\ UNCHANGED <<schoolOf, code, status, members, begun, failed, counts>>

-----------------------------------------------------------------------------
(* resetPassword.                                                          *)

BeginReset(r, t) ==
    /\ Open(t)
    /\ BeginRequest(r, [Idle EXCEPT !.at = "claim", !.code = t])

Claim_Unconditional(r) ==
    LET t == request[r].code IN
    /\ request[r].at = "claim"
    /\ code' = [code EXCEPT ![t] = "used"]
    /\ Go(r, "password")
    /\ UNCHANGED <<schoolOf, status, members, sessions, begun, failed, counts>>

Claim(r) ==
    LET t == request[r].code IN
    /\ request[r].at = "claim"
    /\ IF Open(t) THEN code' = [code EXCEPT ![t] = "used"] /\ Go(r, "password")
                  ELSE Finish(r) /\ UNCHANGED code
    /\ UNCHANGED <<schoolOf, status, members, sessions, begun, failed, counts>>

SetPassword_SessionsKept(r) ==
    LET t == request[r].code IN
    /\ request[r].at = "password"
    /\ status' = "ACTIVE"
    /\ uses' = [uses EXCEPT ![t] = @ + 1]
    /\ resets' = resets + 1
    /\ Finish(r)
    /\ UNCHANGED <<schoolOf, code, members, sessions, begun, failed, closures>>

SetPassword(r) ==
    LET t == request[r].code IN
    /\ request[r].at = "password"
    /\ status' = "ACTIVE"
    /\ uses' = [uses EXCEPT ![t] = @ + 1]
    /\ resets' = resets + 1
    /\ Go(r, "revokeAll")
    /\ UNCHANGED <<schoolOf, code, members, sessions, begun, failed, closures>>

(* The last step of a reset and of a deactivation. *)
RevokeAll(r) ==
    /\ request[r].at = "revokeAll"
    /\ sessions' = [s \in DOMAIN sessions |-> [sessions[s] EXCEPT !.open = FALSE]]
    /\ Finish(r)
    /\ UNCHANGED <<schoolOf, code, status, members, begun, failed, counts>>

-----------------------------------------------------------------------------
(* updateStatus, by an administrator who may manage the account.           *)

BeginStatus(r, new) ==
    /\ status # "NONE"
    /\ BeginRequest(r, [Idle EXCEPT !.at = new])

Activate(r) ==
    /\ request[r].at = "ACTIVE"
    /\ status' = "ACTIVE"
    /\ Finish(r)
    /\ UNCHANGED <<schoolOf, code, members, sessions, begun, failed, counts>>

Deactivate_RevokeFirst(r) ==
    /\ request[r].at \in {"INACTIVE", "status"}
    /\ IF request[r].at = "INACTIVE"
       THEN /\ sessions' = [s \in DOMAIN sessions |-> [sessions[s] EXCEPT !.open = FALSE]]
            /\ Go(r, "status")
            /\ UNCHANGED <<status, closures>>
       ELSE /\ status' = "INACTIVE" /\ closures' = closures + 1
            /\ Finish(r)
            /\ UNCHANGED sessions
    /\ UNCHANGED <<schoolOf, code, members, begun, failed, uses, resets>>

Deactivate(r) ==
    /\ request[r].at = "INACTIVE"
    /\ status' = "INACTIVE"
    /\ closures' = closures + 1
    /\ Go(r, "revokeAll")
    /\ UNCHANGED <<schoolOf, code, members, sessions, begun, failed, uses, resets>>

-----------------------------------------------------------------------------
(* A statement fails or the process dies; committed statements stay. *)
Die(r) ==
    /\ Busy(r)
    /\ failed < MaxFaults
    /\ failed' = failed + 1
    /\ Finish(r)
    /\ UNCHANGED <<schoolOf, code, status, members, sessions, begun, counts>>

Next ==
    \/ \E r \in Requests :
          \/ \E i \in Invitations : BeginRedeem(r, i)
          \/ \E t \in Resets : BeginReset(r, t)
          \/ \E s \in DOMAIN sessions : BeginLogout(r, s)
          \/ \E new \in {"ACTIVE", "INACTIVE"} : BeginStatus(r, new)
          \/ Redeem(r) \/ BeginLogin(r) \/ CreateSession(r)
          \/ Context(r) \/ Revoke(r)
          \/ Claim(r) \/ SetPassword(r) \/ RevokeAll(r)
          \/ Activate(r) \/ Deactivate(r) \/ Die(r)
    \/ \E c \in Codes : Issue(c) \/ Expire(c)

Spec == Init /\ [][Next]_vars

-----------------------------------------------------------------------------
(* Properties.                                                             *)

Sessions == [open : BOOLEAN, resets : Nat, closures : Nat]
Steps == {"idle", "redeem", "session", "context", "revoke", "claim", "password",
          "revokeAll", "ACTIVE", "INACTIVE"}

Request == [at : Steps, of : Nat, code : Codes \cup {"none"}]

(* Every variable has its type, and a request carries the code or session  *)
(* its step is about.                                                      *)
TypeOK ==
    /\ schoolOf \in [Invitations -> Schools]
    /\ code \in [Codes -> CodeStates]
    /\ status \in Statuses
    /\ members \subseteq Schools
    /\ sessions \in Seq(Sessions)
    /\ request \in [Requests -> Request]
    /\ \A r \in Requests :
          /\ request[r].at = "redeem" => request[r].code \in Invitations
          /\ request[r].at \in {"claim", "password"} => request[r].code \in Resets
          /\ request[r].at \in {"context", "revoke"} => request[r].of \in DOMAIN sessions
    /\ begun \in Nat /\ failed \in Nat
    /\ uses \in [Codes -> Nat]
    /\ resets \in Nat /\ closures \in Nat

(* A code has its effect at most once and only by being claimed; a reset   *)
(* that stopped after its claim has spent the code without one             *)
(* (redeemInvitation, resetPassword).                                      *)
CodesWorkOnce ==
    \A c \in Codes :
        /\ uses[c] <= 1
        /\ uses[c] = 1 => code[c] = "used"
        /\ c \in Invitations /\ code[c] = "used" => uses[c] = 1

(* An invitation is used exactly when it has given the user the membership *)
(* it is for: every membership comes from one used invitation, and a       *)
(* conflicting one stays open (redeemInvitation, in one transaction).      *)
InvitationIsWhole ==
    /\ \A i \in Invitations : code[i] = "used" => schoolOf[i] \in members /\ status # "NONE"
    /\ \A k \in members : \E i \in Invitations : code[i] = "used" /\ schoolOf[i] = k
    /\ \A i, j \in Invitations :
          code[i] = "used" /\ code[j] = "used" /\ schoolOf[i] = schoolOf[j] => i = j

Settled == failed = 0 /\ \A r \in Requests : ~Busy(r)

(* Unless a statement fails, once no request is in progress every open     *)
(* session was created after the last reset set its password               *)
(* (resetPassword).                                                        *)
ResetCloses ==
    Settled => \A s \in DOMAIN sessions : sessions[s].open => sessions[s].resets = resets

(* Unless a statement fails, once no request is in progress every open     *)
(* session was created after the last deactivation was written, even if    *)
(* the account has been activated again ("deactivation revoke sessions",   *)
(* updateStatus).                                                          *)
DeactivationCloses ==
    Settled => \A s \in DOMAIN sessions : sessions[s].open => sessions[s].closures = closures

-----------------------------------------------------------------------------
(* The promise.  A claimed token without effect is in a request's hands or *)
(* lost.                                                                   *)
InHand(t) == \E r \in Requests : request[r].at = "password" /\ request[r].code = t

Fate(c) ==
    IF code[c] = "used" /\ uses[c] = 0 THEN IF InHand(c) THEN "taken" ELSE "wasted"
    ELSE code[c]

Fates == [c \in Codes |-> Fate(c)]
Admitted == {r \in Requests : request[r].at = "session"}
OpenSessions == {s \in DOMAIN sessions : sessions[s].open}

Promise == INSTANCE AccountPromise WITH
    code <- Fates, passwords <- resets, admitted <- Admitted,
    opened <- Len(sessions), open <- OpenSessions

(* However requests overlap, fail or die: passwords and memberships change *)
(* only in the step that spends a code, no code is spent twice, sessions   *)
(* open only for requests admitted while the account was active, and stay  *)
(* closed once closed (redeemInvitation, resetPassword, login, logout).    *)
CodesAreOneShot == Promise!Spec
=============================================================================
