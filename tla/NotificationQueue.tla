------------------------- MODULE NotificationQueue -------------------------
(***************************************************************************)
(* The notification job table and the delivery loop of the queue worker    *)
(* (apps/api/src/notifications/notification-worker.service.ts, process).   *)
(*                                                                         *)
(* A job row is keyed by (event, recipient); the n-th row created is job n.*)
(* A delivery cycle reads a batch of due PENDING rows once and then works  *)
(* through it, one database or provider call at a time, with the attempt   *)
(* counts it read at the start.  Nothing keeps two cycles apart: the timer *)
(* starts one every minute without waiting for the last, and every API     *)
(* process has its own timer.  Cycles is the set of cycles that can be in  *)
(* progress together.                                                      *)
(*                                                                         *)
(* Assumed of the environment: a database statement that throws changed    *)
(* nothing; an e-mail call that throws may have been accepted.             *)
(***************************************************************************)
EXTENDS Integers, FiniteSets

CONSTANTS
    MaxJobs,      \* bound: job rows ever created
    Cycles,       \* delivery cycles that may overlap
    BatchLimit,   \* process(limit), 50 in the code
    MaxAttempts,  \* MAX_ATTEMPTS, 3 in the code
    MaxAborts,    \* bound: cycles lost to a crash or to a failing catch block
    MaxChanges    \* bound: changes of a recipient's settings and membership

ASSUME MaxJobsAssumption == MaxJobs \in Nat
ASSUME BatchLimitAssumption == BatchLimit \in Nat \ {0}
ASSUME MaxAttemptsAssumption == MaxAttempts \in Nat \ {0}
ASSUME BoundsAssumption == MaxAborts \in Nat /\ MaxChanges \in Nat

Jobs == 1..MaxJobs
Channels == {"IN_APP", "EMAIL"}

VARIABLES
    created,    \* rows 1..created exist
    jobStatus,  \* NotificationJob.status
    attempts,   \* NotificationJob.attempts
    due,        \* rows whose availableAt has passed
    member,     \* jobs whose recipient has an active membership
    enabled,    \* the recipient's channels: preference, address usable
    inbox,      \* in-app rows, unique on `${key}:IN_APP`
    mailed,     \* messages accepted by the provider, unique on `${key}:EMAIL`
    cycle,      \* what each delivery cycle holds in its local variables
    failures,   \* history: failed deliveries recorded for each job
    excused,    \* history: channels some cycle found it need not use
    aborts, changes

queueVars == <<created, jobStatus, attempts, due, member, enabled, inbox, mailed,
          cycle, failures, excused, aborts, changes>>
recipientVars == <<member, enabled, changes>>
jobVars == <<created, jobStatus, attempts, due>>

JobStatuses == {"PENDING", "DELIVERED", "FAILED"}
Stages == {"idle", "membership", "preference", "inApp", "email", "done", "catch"}

(* The batch still to do with the attempts read for it, the channels the   *)
(* preference row of the current job allows, and, as history, the jobs of  *)
(* the batch whose recipient was no member when the batch was read.        *)
CycleState == [at: Stages, left: SUBSET Jobs, seen: [Jobs -> Nat],
               allowed: SUBSET Channels, outsiders: SUBSET Jobs]

IdleCycle == [at |-> "idle", left |-> {}, seen |-> [j \in Jobs |-> 0],
         allowed |-> {}, outsiders |-> {}]

Types ==
    /\ created \in 0..MaxJobs
    /\ jobStatus \in [Jobs -> JobStatuses]
    /\ attempts \in [Jobs -> Nat]
    /\ due \subseteq Jobs
    /\ member \subseteq Jobs
    /\ enabled \in [Jobs -> SUBSET Channels]
    /\ inbox \subseteq Jobs
    /\ mailed \subseteq Jobs
    /\ cycle \in [Cycles -> CycleState]
    /\ failures \in [Jobs -> Nat]
    /\ excused \in [Jobs -> SUBSET Channels]
    /\ aborts \in 0..MaxAborts
    /\ changes \in 0..MaxChanges

BusyWithBatch == \A c \in Cycles : cycle[c].at = "idle" <=> cycle[c].left = {}

(* The declared types; a cycle holds a batch exactly while it is busy.     *)
QueueTypeOK == Types /\ BusyWithBatch

QueueInit ==
    /\ created = 0
    /\ jobStatus = [j \in Jobs |-> "PENDING"]
    /\ attempts = [j \in Jobs |-> 0]
    /\ due = Jobs
    /\ member = Jobs
    /\ enabled = [j \in Jobs |-> Channels]
    /\ inbox = {}
    /\ mailed = {}
    /\ cycle = [c \in Cycles |-> IdleCycle]
    /\ failures = [j \in Jobs |-> 0]
    /\ excused = [j \in Jobs |-> {}]
    /\ aborts = 0
    /\ changes = 0

Existing == 1..created

-----------------------------------------------------------------------------
(* Producers and recipients.                                               *)

(* enqueueEvent for a new (event, recipient): the row starts PENDING, with *)
(* no attempts and available at once.  For a key that exists the upsert    *)
(* has an empty update, so it is not a step.                               *)
Enqueue ==
    /\ created < MaxJobs
    /\ created' = created + 1
    /\ UNCHANGED <<jobStatus, attempts, due, inbox, mailed, cycle, failures,
                   excused, aborts, recipientVars>>

(* setPreference: the recipient chooses channels again.  Verifying or      *)
(* losing the e-mail address has the same effect on delivery.              *)
SetPreference(j, chosen) ==
    /\ changes < MaxChanges
    /\ chosen # enabled[j]
    /\ enabled' = [enabled EXCEPT ![j] = chosen]
    /\ changes' = changes + 1
    /\ UNCHANGED <<jobVars, member, inbox, mailed, cycle, failures, excused, aborts>>

(* An operator ends the recipient's membership (no code under src does).   *)
EndMembership(j) ==
    /\ changes < MaxChanges
    /\ j \in member
    /\ member' = member \ {j}
    /\ changes' = changes + 1
    /\ UNCHANGED <<jobVars, enabled, inbox, mailed, cycle, failures, excused, aborts>>

(* availableAt passes.  It is only read for PENDING rows.                  *)
BackoffElapses(j) ==
    /\ j \in Existing \ due
    /\ jobStatus[j] = "PENDING"
    /\ due' = due \cup {j}
    /\ UNCHANGED <<created, jobStatus, attempts, inbox, mailed, cycle, failures,
                   excused, aborts, recipientVars>>

-----------------------------------------------------------------------------
(* One delivery cycle.                                                     *)

Eligible_AnyStatus == {j \in Existing : j \in due}

Eligible_FirstTryOnly == {j \in Existing : jobStatus[j] = "PENDING" /\ attempts[j] = 0}

Eligible == {j \in Existing : jobStatus[j] = "PENDING" /\ j \in due}

(* The oldest BatchLimit eligible rows.                                    *)
Batch == {j \in Eligible : Cardinality({k \in Eligible : k < j}) < BatchLimit}

(* c is working on j, the oldest job left in its batch.                    *)
Working(c, j) == j \in cycle[c].left /\ \A k \in cycle[c].left : j <= k

AtStage(c, j, stage) == cycle[c].at = stage /\ Working(c, j)

Goto(c, stage) == cycle' = [cycle EXCEPT ![c].at = stage]

(* The for loop goes on with the next job of the batch, or ends.           *)
NextJob(c, j) ==
    LET rest == cycle[c].left \ {j} IN
    cycle' = [cycle EXCEPT ![c] =
                IF rest = {} THEN IdleCycle
                ELSE [@ EXCEPT !.at = "membership", !.left = rest, !.allowed = {}]]

(* findMany: one statement, hence one snapshot.                            *)
ReadBatch(c) ==
    /\ cycle[c].at = "idle"
    /\ Batch # {}
    /\ cycle' = [cycle EXCEPT ![c] =
                   [at |-> "membership", left |-> Batch,
                    seen |-> [j \in Jobs |-> IF j \in Batch THEN attempts[j] ELSE 0],
                    allowed |-> {}, outsiders |-> Batch \ member]]
    /\ UNCHANGED <<jobVars, recipientVars, inbox, mailed, failures, excused, aborts>>

CheckMembership_Skipped(c, j) ==
    /\ AtStage(c, j, "membership")
    /\ Goto(c, "preference")
    /\ UNCHANGED <<jobVars, recipientVars, inbox, mailed, failures, excused, aborts>>

(* The membership look-up; without one the job is closed at once.          *)
CheckMembership(c, j) ==
    /\ AtStage(c, j, "membership")
    /\ j \in member
    /\ Goto(c, "preference")
    /\ UNCHANGED <<jobVars, recipientVars, inbox, mailed, failures, excused, aborts>>

NotAMember(c, j) ==
    /\ AtStage(c, j, "membership")
    /\ j \notin member
    /\ excused' = [excused EXCEPT ![j] = Channels]
    /\ Goto(c, "done")
    /\ UNCHANGED <<jobVars, recipientVars, inbox, mailed, failures, aborts>>

ReadPreference(c, j) ==
    /\ AtStage(c, j, "preference")
    /\ cycle' = [cycle EXCEPT ![c].at = "inApp", ![c].allowed = enabled[j]]
    /\ excused' = [excused EXCEPT ![j] = @ \cup (Channels \ enabled[j])]
    /\ UNCHANGED <<jobVars, recipientVars, inbox, mailed, failures, aborts>>

DeliverInApp_ErrorSwallowed(c, j) ==
    /\ AtStage(c, j, "inApp")
    /\ inbox' \in {inbox, inbox \cup {j}}
    /\ Goto(c, "email")
    /\ UNCHANGED <<jobVars, recipientVars, mailed, failures, excused, aborts>>

(* The in-app upsert, skipped when the preference turns the channel off.   *)
DeliverInApp(c, j) ==
    /\ AtStage(c, j, "inApp")
    /\ inbox' = IF "IN_APP" \in cycle[c].allowed THEN inbox \cup {j} ELSE inbox
    /\ Goto(c, "email")
    /\ UNCHANGED <<jobVars, recipientVars, mailed, failures, excused, aborts>>

SendEmail(c, j) ==
    /\ AtStage(c, j, "email")
    /\ mailed' = IF "EMAIL" \in cycle[c].allowed THEN mailed \cup {j} ELSE mailed
    /\ Goto(c, "done")
    /\ UNCHANGED <<jobVars, recipientVars, inbox, failures, excused, aborts>>

(* The provider accepted the message but the answer was an error or lost.  *)
EmailAnswerLost(c, j) ==
    /\ AtStage(c, j, "email")
    /\ "EMAIL" \in cycle[c].allowed
    /\ mailed' = mailed \cup {j}
    /\ Goto(c, "catch")
    /\ UNCHANGED <<jobVars, recipientVars, inbox, failures, excused, aborts>>

(* Any call of the try block throws, done() included.                      *)
StepThrows(c, j) ==
    /\ cycle[c].at \in {"membership", "preference", "inApp", "email", "done"}
    /\ Working(c, j)
    /\ Goto(c, "catch")
    /\ UNCHANGED <<jobVars, recipientVars, inbox, mailed, failures, excused, aborts>>

(* done(job.id, job.attempts + 1): an update by id, whatever the row says. *)
Done(c, j) ==
    /\ AtStage(c, j, "done")
    /\ jobStatus' = [jobStatus EXCEPT ![j] = "DELIVERED"]
    /\ attempts' = [attempts EXCEPT ![j] = cycle[c].seen[j] + 1]
    /\ NextJob(c, j)
    /\ UNCHANGED <<created, due, recipientVars, inbox, mailed, failures, excused, aborts>>

StatusAfter_GivesUpLate(n) == IF n > MaxAttempts THEN "FAILED" ELSE "PENDING"
StatusAfter_GivesUpEarly(n) == IF n >= MaxAttempts - 1 THEN "FAILED" ELSE "PENDING"

StatusAfter(n) == IF n >= MaxAttempts THEN "FAILED" ELSE "PENDING"

(* The catch block: the same unconditional update, with back-off.          *)
RecordFailure(c, j) ==
    /\ AtStage(c, j, "catch")
    /\ LET n == cycle[c].seen[j] + 1 IN
       /\ attempts' = [attempts EXCEPT ![j] = n]
       /\ jobStatus' = [jobStatus EXCEPT ![j] = StatusAfter(n)]
    /\ due' = due \ {j}
    /\ failures' = [failures EXCEPT ![j] = @ + 1]
    /\ NextJob(c, j)
    /\ UNCHANGED <<created, recipientVars, inbox, mailed, excused, aborts>>

(* The process dies, or the update in the catch block throws: the rest of  *)
(* the batch is dropped and its rows stay as they are.                     *)
Abort(c) ==
    /\ aborts < MaxAborts
    /\ cycle[c].at # "idle"
    /\ cycle' = [cycle EXCEPT ![c] = IdleCycle]
    /\ aborts' = aborts + 1
    /\ UNCHANGED <<jobVars, recipientVars, inbox, mailed, failures, excused>>

CycleStep(c) ==
    \/ ReadBatch(c)
    \/ \E j \in Jobs :
         \/ CheckMembership(c, j) \/ NotAMember(c, j) \/ ReadPreference(c, j)
         \/ DeliverInApp(c, j) \/ SendEmail(c, j) \/ EmailAnswerLost(c, j)
         \/ StepThrows(c, j) \/ Done(c, j) \/ RecordFailure(c, j)

QueueNext ==
    \/ Enqueue
    \/ \E j \in Jobs, chosen \in SUBSET Channels : SetPreference(j, chosen)
    \/ \E j \in Jobs : EndMembership(j) \/ BackoffElapses(j)
    \/ \E c \in Cycles : CycleStep(c) \/ Abort(c)

QueueSpec == QueueInit /\ [][QueueNext]_queueVars

(* The timer keeps starting cycles, a cycle in progress keeps taking       *)
(* steps, and time passes.  Nothing is assumed of producers, recipients    *)
(* or the provider.                                                        *)
Fairness ==
    /\ \A c \in Cycles : WF_queueVars(CycleStep(c))
    /\ \A j \in Jobs : WF_queueVars(BackoffElapses(j))

QueueFairSpec == QueueSpec /\ Fairness
-----------------------------------------------------------------------------
(* Properties.                                                             *)

(* However cycles overlap, the attempt count of a row that is still to be  *)
(* tried stays below MAX_ATTEMPTS, and a row given up has used them all,   *)
(* although every update writes a count read long before (process).        *)
RetryBudget ==
    \A j \in Existing :
        /\ jobStatus[j] = "PENDING" => attempts[j] < MaxAttempts
        /\ jobStatus[j] = "FAILED" => attempts[j] = MaxAttempts
        /\ jobStatus[j] = "DELIVERED" => attempts[j] >= 1

(* No job is given up before MAX_ATTEMPTS deliveries of it really failed:  *)
(* overlapping cycles lose counts, they never invent one (process).        *)
NeverGivenUpEarly ==
    \A j \in Existing : jobStatus[j] = "FAILED" => failures[j] >= MaxAttempts

(* DELIVERED is the truth: the in-app row is there and the provider has    *)
(* accepted the message, unless a cycle found the recipient had left or    *)
(* turned the channel off (process, done).                                 *)
DeliveredIsTrue ==
    \A j \in Existing :
        jobStatus[j] = "DELIVERED" =>
            /\ j \in inbox \/ "IN_APP" \in excused[j]
            /\ j \in mailed \/ "EMAIL" \in excused[j]

(* A recipient whose membership ended before a cycle read its batch gets   *)
(* nothing from that cycle: delivery re-checks the membership, it does not *)
(* trust what was true when the event was queued (process).                *)
NothingAfterLeaving ==
    \A c \in Cycles, j \in Jobs :
        Working(c, j) /\ j \in cycle[c].outsiders
            => cycle[c].at \notin {"preference", "inApp", "email"}

Became(s) == CASE s = "PENDING" -> "open"
               [] s = "DELIVERED" -> "delivered"
               [] s = "FAILED" -> "abandoned"

Outcome == [j \in Jobs |-> Became(jobStatus[j])]

Promise == INSTANCE NotificationPromise WITH
    asked <- Existing,
    outcome <- Outcome,
    tries <- attempts,
    shown <- inbox,
    sent <- mailed

(* While cycles do not overlap the queue implements NotificationPromise:   *)
(* every attempt is counted, nothing is shown or sent for a job that is    *)
(* settled, and a settled job is never touched again (process).            *)
PromiseKept == Promise!Spec

Attempts == INSTANCE NotificationAttempts WITH
    Workers <- Cycles,
    asked <- Existing,
    outcome <- Outcome,
    tries <- attempts,
    held <- [c \in Cycles |-> cycle[c].left],
    shown <- inbox,
    sent <- mailed,
    waived <- excused

(* However cycles overlap the queue implements NotificationAttempts: what  *)
(* is written for a job, shown or sent belongs to an attempt that began    *)
(* while the job was open, and no delivery and no failure is invented,     *)
(* though a late one may overwrite the outcome of another (process).       *)
AttemptsKept == Attempts!Spec

(* Every queued job ends delivered or given up and stays so, even though   *)
(* an overlapping cycle can put a settled job back to PENDING: each write  *)
(* raises the lowest count any cycle still holds (process).                *)
EventuallySettled ==
    \A j \in Jobs : <>[](j \in Existing => jobStatus[j] # "PENDING")
=============================================================================
