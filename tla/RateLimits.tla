----------------------------- MODULE RateLimits -----------------------------
(***************************************************************************)
(* The two limiters of one API process, for one person: the fixed window   *)
(* of sign-in and recovery (rate-limiter.ts), which begins with the first  *)
(* attempt after the last one ended, and the sliding window of safety      *)
(* reports (safety.service.ts).  Both check and count before their first   *)
(* await, so a check is one step.                                          *)
(***************************************************************************)
EXTENDS Integers, FiniteSets

CONSTANTS
    Limit,      \* attempts a window allows
    Span,       \* length of a window
    MaxNow      \* bound: the clock

ASSUME LimitBounds == Limit \in Nat \ {0} /\ Span \in Nat \ {0} /\ MaxNow \in Nat

VARIABLES
    now,
    window,     \* count and end of the fixed window; count 0: no entry
    entries,    \* submissions the sliding window remembers
    signIns,    \* history: sign-ins let through since the last success
    reports     \* history: submissions let through

limitVars == <<now, window, entries, signIns, reports>>

Times == 0..MaxNow

(* An attempt: its time and its number, which only keeps it apart.         *)
Attempt(before) == <<now, Cardinality(before) + 1>>

(* Attempts within the last Span units of time. *)
Within(attempts, t) == {x \in attempts : x[1] <= t /\ x[1] > t - Span}
Recent(attempts, t) == Cardinality(Within(attempts, t))

LimitsInit ==
    /\ now = 0
    /\ window = [count |-> 0, ends |-> 0]
    /\ entries = {} /\ signIns = {} /\ reports = {}

Tick ==
    /\ now < MaxNow
    /\ now' = now + 1
    /\ UNCHANGED <<window, entries, signIns, reports>>

CheckSignIn_NewWindowAtZero ==
    /\ IF window.ends = 0 \/ window.ends <= now
       THEN window' = [count |-> 0, ends |-> now + Span]
       ELSE window.count < Limit /\ window' = [window EXCEPT !.count = @ + 1]
    /\ signIns' = signIns \cup {Attempt(signIns)}
    /\ UNCHANGED <<now, entries, reports>>

(* check *)
CheckSignIn ==
    /\ IF window.count = 0 \/ window.ends <= now
       THEN window' = [count |-> 1, ends |-> now + Span]
       ELSE window.count < Limit /\ window' = [window EXCEPT !.count = @ + 1]
    /\ signIns' = signIns \cup {Attempt(signIns)}
    /\ UNCHANGED <<now, entries, reports>>

(* clear, after the right password: other attempts may still be in         *)
(* progress, but they have been counted.                                   *)
ClearSignIn ==
    /\ window.count > 0
    /\ window' = [count |-> 0, ends |-> 0]
    /\ signIns' = {}
    /\ UNCHANGED <<now, entries, reports>>

CheckReport_Stale ==
    /\ Recent(entries, now) < Limit
    /\ entries' = {Attempt(reports)}
    /\ reports' = reports \cup {Attempt(reports)}
    /\ UNCHANGED <<now, window, signIns>>

(* rateLimit: forget what is older than the window, count what is left.    *)
CheckReport ==
    /\ Recent(entries, now) < Limit
    /\ entries' = Within(entries, now) \cup {Attempt(reports)}
    /\ reports' = reports \cup {Attempt(reports)}
    /\ UNCHANGED <<now, window, signIns>>

LimitsNext == Tick \/ CheckSignIn \/ ClearSignIn \/ CheckReport

LimitsSpec == LimitsInit /\ [][LimitsNext]_limitVars

-----------------------------------------------------------------------------
(* What is promised, and what is kept.                                     *)

(* docs/security.md:11: "Login and recovery attempts are limited to five   *)
(* per identity per fifteen minutes per API process": no stretch of time   *)
(* as long as a window has more attempts than the limit.  The fixed window *)
(* of check does not keep this: what comes at the end of one window and at *)
(* the beginning of the next is counted apart.                             *)
SignInsLimited == \A t \in Times : Recent(signIns, t) <= Limit

(* What the limiters do keep: the sliding window of safety reports its     *)
(* limit in every stretch of time as long as a window (rateLimit); the     *)
(* fixed window of sign-in, short of the document's limit above, a burst   *)
(* of at most twice the limit less one since the last success (check).     *)
AttemptsBounded ==
    \A t \in Times : /\ Recent(reports, t) <= Limit
                     /\ Recent(signIns, t) <= 2 * Limit - 1
=============================================================================
