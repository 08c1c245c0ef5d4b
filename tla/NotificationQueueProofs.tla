---------------------- MODULE NotificationQueueProofs ----------------------
(* Theorems about NotificationQueue, for every value of its constants.     *)
EXTENDS NotificationQueue, TLAPS

(* The bounds on aborts and changes are no part of the argument.           *)
LEMMA Assumptions == /\ MaxJobs \in Nat
                     /\ MaxAttempts \in Nat \ {0}
                     /\ MaxAborts \in Nat
                     /\ MaxChanges \in Nat
  BY MaxJobsAssumption, MaxAttemptsAssumption, BoundsAssumption

LEMMA ExistingInJobs == Types => Existing \subseteq Jobs
  BY Assumptions DEF Types, Existing, Jobs

(* A cycle with nothing to do is a cycle state.                            *)
LEMMA IdleType == IdleCycle \in CycleState
  BY DEF IdleCycle, CycleState, Stages, Jobs

(* What the end of a job does to the cycles: c keeps a part of its batch   *)
(* with the same counts, or holds nothing; the others are as they were.    *)
LEMMA NextJobType ==
  ASSUME Types, NEW c \in Cycles, NEW j \in Jobs, NextJob(c, j)
  PROVE  /\ cycle' \in [Cycles -> CycleState]
         /\ \A d \in Cycles : d # c => cycle'[d] = cycle[d]
         /\ cycle'[c].left \subseteq cycle[c].left
         /\ cycle'[c].at = "idle" <=> cycle'[c].left = {}
         /\ cycle'[c].left # {} =>
              /\ cycle'[c].seen = cycle[c].seen
              /\ cycle'[c].outsiders = cycle[c].outsiders
         /\ cycle'[c].outsiders \subseteq cycle[c].outsiders
<1>1. CASE cycle[c].left \ {j} = {}
  BY <1>1, IdleType DEF NextJob, Types, IdleCycle
<1>2. CASE cycle[c].left \ {j} # {}
  <2>. DEFINE next == [cycle[c] EXCEPT !.at = "membership", !.left = @ \ {j}, !.allowed = {}]
  <2>1. cycle' = [cycle EXCEPT ![c] = next]
    BY <1>2 DEF NextJob
  <2>2. cycle[c] \in CycleState /\ cycle \in [Cycles -> CycleState]
    BY DEF Types
  <2>3. /\ next \in CycleState /\ next.at = "membership" /\ next.left = cycle[c].left \ {j}
        /\ next.seen = cycle[c].seen /\ next.outsiders = cycle[c].outsiders
    BY <2>2 DEF CycleState, Stages
  <2>. HIDE DEF next
  <2>. QED BY <1>2, <2>1, <2>2, <2>3
<1>. QED BY <1>1, <1>2

LEMMA NextJobStage ==
  ASSUME Types, NEW c \in Cycles, NEW j \in Jobs, NextJob(c, j)
  PROVE  cycle'[c].at \in {"idle", "membership"}
  BY DEF NextJob, Types, CycleState, IdleCycle

(* What a move to another stage of the loop body does to the cycles.       *)
LEMMA GotoType ==
  ASSUME Types, NEW c \in Cycles, NEW stage \in Stages, Goto(c, stage)
  PROVE  /\ cycle' \in [Cycles -> CycleState]
         /\ \A d \in Cycles : d # c => cycle'[d] = cycle[d]
         /\ cycle'[c].at = stage
         /\ cycle'[c].left = cycle[c].left
         /\ cycle'[c].seen = cycle[c].seen
         /\ cycle'[c].allowed = cycle[c].allowed
         /\ cycle'[c].outsiders = cycle[c].outsiders
  BY DEF Goto, Types, CycleState

(* What reading the preference and reading a batch do to the cycles.       *)
LEMMA ReadPreferenceShape ==
  ASSUME Types, NEW c \in Cycles, NEW j \in Jobs, ReadPreference(c, j)
  PROVE  /\ \A d \in Cycles : d # c => cycle'[d] = cycle[d]
         /\ cycle'[c].at = "inApp"
         /\ cycle'[c].left = cycle[c].left
         /\ cycle'[c].seen = cycle[c].seen
         /\ cycle'[c].allowed = enabled[j]
         /\ cycle'[c].outsiders = cycle[c].outsiders
  BY DEF ReadPreference, Types, CycleState

(* The steps of the loop body that neither settle nor fail the job.        *)
InLoop(c, j) ==
    \/ CheckMembership(c, j) \/ NotAMember(c, j) \/ ReadPreference(c, j)
    \/ DeliverInApp(c, j) \/ SendEmail(c, j) \/ EmailAnswerLost(c, j)
    \/ StepThrows(c, j)

LEMMA InLoopShape ==
  ASSUME Types, NEW c \in Cycles, NEW j \in Jobs, InLoop(c, j)
  PROVE  /\ \A d \in Cycles : d # c => cycle'[d] = cycle[d]
         /\ cycle'[c].left = cycle[c].left
         /\ cycle'[c].seen = cycle[c].seen
         /\ cycle'[c].outsiders = cycle[c].outsiders
         /\ cycle'[c].at # "idle"
         /\ UNCHANGED <<created, jobStatus, attempts, due, member, failures>>
<1>1. {"preference", "email", "done", "catch"} \subseteq Stages
  BY DEF Stages
<1>2. CASE ReadPreference(c, j)
  BY <1>2, ReadPreferenceShape DEF ReadPreference, jobVars, recipientVars
<1>. QED
  BY <1>1, <1>2, GotoType
     DEF InLoop, CheckMembership, NotAMember, DeliverInApp, SendEmail, EmailAnswerLost,
         StepThrows, jobVars, recipientVars

LEMMA ReadBatchShape ==
  ASSUME Types, NEW c \in Cycles, ReadBatch(c)
  PROVE  /\ \A d \in Cycles : d # c => cycle'[d] = cycle[d]
         /\ cycle'[c].at = "membership"
         /\ cycle'[c].left = Batch
         /\ cycle'[c].seen = [j \in Jobs |-> IF j \in Batch THEN attempts[j] ELSE 0]
         /\ cycle'[c].outsiders = Batch \ member
         /\ Batch \subseteq Jobs
         /\ \A j \in Batch : jobStatus[j] = "PENDING"
  BY DEF ReadBatch, Types, CycleState, Batch, Eligible, Existing

-----------------------------------------------------------------------------
LEMMA InitTypes == QueueInit => Types
  BY Assumptions, IdleType DEF QueueInit, Types, Jobs, JobStatuses, Channels

LEMMA TypesStep == Types /\ [QueueNext]_queueVars => Types'
<1>. USE Assumptions DEF Types, Jobs
<1>. SUFFICES ASSUME Types, [QueueNext]_queueVars PROVE Types'
  OBVIOUS
<1>. USE DEF recipientVars, jobVars
<1>1. CASE Enqueue
  BY <1>1 DEF Enqueue
<1>2. ASSUME NEW j \in Jobs, NEW chosen \in SUBSET Channels, SetPreference(j, chosen)
      PROVE  Types'
  <2>1. enabled' \in [Jobs -> SUBSET Channels] /\ changes' \in 0..MaxChanges
    BY <1>2 DEF SetPreference
  <2>. QED BY <1>2, <2>1 DEF SetPreference
<1>3. ASSUME NEW j \in Jobs, EndMembership(j) PROVE Types'
  <2>1. member' \subseteq 1..MaxJobs /\ changes' \in 0..MaxChanges
    BY <1>3 DEF EndMembership
  <2>. QED BY <1>3, <2>1 DEF EndMembership
<1>4. ASSUME NEW j \in Jobs, BackoffElapses(j) PROVE Types'
  BY <1>4 DEF BackoffElapses
<1>5. ASSUME NEW c \in Cycles, ReadBatch(c) PROVE Types'
  <2>1. Batch \subseteq Jobs
    BY DEF Batch, Eligible, Existing
  <2>2. cycle' \in [Cycles -> CycleState]
    BY <1>5, <2>1 DEF ReadBatch, CycleState, Stages
  <2>. QED BY <1>5, <2>2 DEF ReadBatch
<1>6. ASSUME NEW c \in Cycles, NEW j \in Jobs,
             \/ CheckMembership(c, j) \/ NotAMember(c, j) \/ ReadPreference(c, j)
             \/ DeliverInApp(c, j) \/ SendEmail(c, j) \/ EmailAnswerLost(c, j)
             \/ StepThrows(c, j)
      PROVE  Types'
  <2>0. {"preference", "email", "done", "catch"} \subseteq Stages
    BY DEF Stages
  <2>1. CASE CheckMembership(c, j)
    BY <2>1, <2>0, GotoType DEF CheckMembership
  <2>2. CASE NotAMember(c, j)
    BY <2>2, <2>0, GotoType DEF NotAMember
  <2>3. CASE ReadPreference(c, j)
    <3>1. cycle' \in [Cycles -> CycleState]
      <4>1. /\ enabled[j] \in SUBSET Channels
            /\ cycle[c] \in CycleState
        OBVIOUS
      <4>2. [cycle[c] EXCEPT !.at = "inApp", !.allowed = enabled[j]] \in CycleState
        BY <4>1 DEF CycleState, Stages
      <4>. QED BY <2>3, <4>2 DEF ReadPreference
    <3>2. excused' \in [Jobs -> SUBSET Channels]
      <4>1. excused[j] \cup (Channels \ enabled[j]) \in SUBSET Channels
        OBVIOUS
      <4>. QED BY <2>3, <4>1 DEF ReadPreference
    <3>. QED BY <2>3, <3>1, <3>2 DEF ReadPreference
  <2>4. CASE DeliverInApp(c, j)
    BY <2>4, <2>0, GotoType DEF DeliverInApp
  <2>5. CASE SendEmail(c, j)
    BY <2>5, <2>0, GotoType DEF SendEmail
  <2>6. CASE EmailAnswerLost(c, j)
    BY <2>6, <2>0, GotoType DEF EmailAnswerLost
  <2>7. CASE StepThrows(c, j)
    BY <2>7, <2>0, GotoType DEF StepThrows
  <2>. QED BY <1>6, <2>1, <2>2, <2>3, <2>4, <2>5, <2>6, <2>7
<1>7. ASSUME NEW c \in Cycles, NEW j \in Jobs, Done(c, j) \/ RecordFailure(c, j)
      PROVE  Types'
  <2>1. cycle[c].seen[j] + 1 \in Nat
    BY DEF CycleState
  <2>2. cycle' \in [Cycles -> CycleState]
    BY <1>7, NextJobType DEF Done, RecordFailure
  <2>3. CASE Done(c, j)
    BY <2>1, <2>2, <2>3 DEF Done, JobStatuses
  <2>4. CASE RecordFailure(c, j)
    <3>1. StatusAfter(cycle[c].seen[j] + 1) \in JobStatuses
      BY DEF StatusAfter, JobStatuses
    <3>2. failures[j] + 1 \in Nat
      OBVIOUS
    <3>. QED BY <2>1, <2>2, <2>4, <3>1, <3>2 DEF RecordFailure
  <2>. QED BY <1>7, <2>3, <2>4
<1>8. ASSUME NEW c \in Cycles, Abort(c) PROVE Types'
  BY <1>8, IdleType DEF Abort
<1>9. CASE UNCHANGED queueVars
  BY <1>9 DEF queueVars
<1>. QED
  BY <1>1, <1>2, <1>3, <1>4, <1>5, <1>6, <1>7, <1>8, <1>9 DEF QueueNext, CycleStep

LEMMA BusyStep == Types /\ BusyWithBatch /\ [QueueNext]_queueVars => BusyWithBatch'
<1>. SUFFICES ASSUME Types, BusyWithBatch, [QueueNext]_queueVars PROVE BusyWithBatch'
  OBVIOUS
<1>. USE DEF BusyWithBatch
<1>1. CASE UNCHANGED cycle
  BY <1>1
<1>2. ASSUME NEW c \in Cycles, ReadBatch(c) PROVE BusyWithBatch'
  BY <1>2, ReadBatchShape DEF ReadBatch
<1>3. ASSUME NEW c \in Cycles, NEW j \in Jobs, InLoop(c, j) PROVE BusyWithBatch'
  <2>1. cycle[c].left # {}
    BY <1>3 DEF InLoop, CheckMembership, NotAMember, ReadPreference, DeliverInApp, SendEmail,
                EmailAnswerLost, StepThrows, AtStage, Working
  <2>2. cycle'[c].at # "idle" /\ cycle'[c].left # {}
    BY <1>3, <2>1, InLoopShape
  <2>. QED BY <1>3, <2>2, InLoopShape
<1>4. ASSUME NEW c \in Cycles, NEW j \in Jobs, Done(c, j) \/ RecordFailure(c, j)
      PROVE  BusyWithBatch'
  BY <1>4, NextJobType DEF Done, RecordFailure
<1>5. ASSUME NEW c \in Cycles, Abort(c) PROVE BusyWithBatch'
  BY <1>5 DEF Abort, IdleCycle, Types
<1>6. CASE \/ Enqueue
           \/ \E j \in Jobs, chosen \in SUBSET Channels : SetPreference(j, chosen)
           \/ \E j \in Jobs : EndMembership(j) \/ BackoffElapses(j)
           \/ UNCHANGED queueVars
  BY <1>1, <1>6 DEF Enqueue, SetPreference, EndMembership, BackoffElapses, queueVars
<1>. QED BY <1>2, <1>3, <1>4, <1>5, <1>6 DEF QueueNext, CycleStep, InLoop

(* Every reachable state has the declared types, and a cycle is busy       *)
(* exactly while it has jobs of its batch left (process, its for loop).    *)
THEOREM TypeCorrect == QueueSpec => []QueueTypeOK
<1>1. QueueInit => QueueTypeOK
  BY InitTypes DEF QueueInit, QueueTypeOK, BusyWithBatch, IdleCycle
<1>2. QueueTypeOK /\ [QueueNext]_queueVars => QueueTypeOK'
  BY TypesStep, BusyStep DEF QueueTypeOK
<1>. QED BY <1>1, <1>2, PTL DEF QueueSpec

-----------------------------------------------------------------------------
(* The attempt counts.  A cycle writes the count it read plus one, so what *)
(* must be bounded is what the cycles hold, not only what the rows say.    *)
Budget ==
    /\ \A j \in Jobs :
         /\ jobStatus[j] = "PENDING" => attempts[j] < MaxAttempts
         /\ jobStatus[j] = "FAILED" => attempts[j] = MaxAttempts
         /\ jobStatus[j] = "DELIVERED" => attempts[j] >= 1
    /\ \A c \in Cycles : \A j \in cycle[c].left : cycle[c].seen[j] < MaxAttempts

(* The counts never run ahead of the failures that happened.               *)
Tally ==
    /\ \A j \in Jobs : jobStatus[j] # "DELIVERED" => attempts[j] <= failures[j]
    /\ \A c \in Cycles : \A j \in cycle[c].left : cycle[c].seen[j] <= failures[j]

CountInv == Types /\ Budget /\ Tally

(* Whatever the interleaving of cycles, counts stay within the budget and  *)
(* are backed by real failures (process, its catch block and done).        *)
LEMMA CountInductive == CountInv /\ [QueueNext]_queueVars => CountInv'
<1>. SUFFICES ASSUME CountInv, [QueueNext]_queueVars PROVE (Budget /\ Tally)'
  BY TypesStep DEF CountInv
<1>. USE Assumptions DEF CountInv
<1>1. \A c \in Cycles : /\ cycle[c].left \subseteq Jobs
                        /\ cycle[c].seen \in [Jobs -> Nat]
  BY DEF Types, CycleState
<1>2. attempts \in [Jobs -> Nat] /\ failures \in [Jobs -> Nat] /\ jobStatus \in [Jobs -> JobStatuses]
  BY DEF Types
<1>3. CASE UNCHANGED <<jobStatus, attempts, cycle, failures>>
  BY <1>3 DEF Budget, Tally
<1>4. ASSUME NEW c \in Cycles, ReadBatch(c) PROVE (Budget /\ Tally)'
  <2>1. UNCHANGED <<jobStatus, attempts, failures>>
    BY <1>4 DEF ReadBatch, jobVars
  <2>2. \A j \in cycle'[c].left : j \in Jobs /\ cycle'[c].seen[j] = attempts[j] /\ jobStatus[j] = "PENDING"
    BY <1>4, ReadBatchShape
  <2>2a. \A d \in Cycles : d # c => cycle'[d] = cycle[d]
    BY <1>4, ReadBatchShape
  <2>3. Budget'
    <3>1. \A d \in Cycles : \A j \in cycle'[d].left : cycle'[d].seen[j] < MaxAttempts
      BY <2>2, <2>2a DEF Budget
    <3>. QED BY <2>1, <3>1 DEF Budget
  <2>4. Tally'
    <3>1. \A d \in Cycles : \A j \in cycle'[d].left : cycle'[d].seen[j] <= failures[j]
      BY <2>2, <2>2a DEF Tally
    <3>. QED BY <2>1, <3>1 DEF Tally
  <2>. QED BY <2>3, <2>4
<1>5. ASSUME NEW c \in Cycles, NEW j \in Jobs, InLoop(c, j) PROVE (Budget /\ Tally)'
  <2>1. \A d \in Cycles : cycle'[d].left = cycle[d].left /\ cycle'[d].seen = cycle[d].seen
    BY <1>5, InLoopShape
  <2>. QED BY <1>5, <2>1, InLoopShape DEF Budget, Tally
<1>6. ASSUME NEW c \in Cycles, NEW j \in Jobs, Done(c, j) PROVE (Budget /\ Tally)'
  <2>1. \A d \in Cycles : \A k \in cycle'[d].left :
          k \in cycle[d].left /\ cycle'[d].seen = cycle[d].seen
    BY <1>6, NextJobType DEF Done
  <2>2. Budget'
    BY <1>1, <1>2, <1>6, <2>1 DEF Done, Budget
  <2>3. Tally'
    BY <1>1, <1>2, <1>6, <2>1 DEF Done, Tally
  <2>. QED BY <2>2, <2>3
<1>7. ASSUME NEW c \in Cycles, NEW j \in Jobs, RecordFailure(c, j) PROVE (Budget /\ Tally)'
  <2>1. \A d \in Cycles : \A k \in cycle'[d].left :
          k \in cycle[d].left /\ cycle'[d].seen = cycle[d].seen
    BY <1>7, NextJobType DEF RecordFailure
  <2>2. /\ cycle[c].seen[j] \in Nat
        /\ cycle[c].seen[j] < MaxAttempts
        /\ cycle[c].seen[j] <= failures[j]
    BY <1>1, <1>7 DEF RecordFailure, AtStage, Working, Budget, Tally
  <2>3. Budget'
    BY <1>1, <1>2, <1>7, <2>1, <2>2 DEF RecordFailure, StatusAfter, Budget
  <2>4. Tally'
    BY <1>1, <1>2, <1>7, <2>1, <2>2 DEF RecordFailure, Tally
  <2>. QED BY <2>3, <2>4
<1>8. ASSUME NEW c \in Cycles, Abort(c) PROVE (Budget /\ Tally)'
  <2>1. \A d \in Cycles : \A k \in cycle'[d].left :
          k \in cycle[d].left /\ cycle'[d].seen = cycle[d].seen
    BY <1>8 DEF Abort, Types, IdleCycle
  <2>2. UNCHANGED <<jobStatus, attempts, failures>>
    BY <1>8 DEF Abort, jobVars
  <2>. QED BY <2>1, <2>2 DEF Budget, Tally
<1>9. CASE \/ Enqueue
           \/ \E j \in Jobs, chosen \in SUBSET Channels : SetPreference(j, chosen)
           \/ \E j \in Jobs : EndMembership(j) \/ BackoffElapses(j)
           \/ UNCHANGED queueVars
  BY <1>3, <1>9 DEF Enqueue, SetPreference, EndMembership, BackoffElapses, jobVars, queueVars
<1>. QED BY <1>4, <1>5, <1>6, <1>7, <1>8, <1>9 DEF QueueNext, CycleStep, InLoop

LEMMA CountCorrect == QueueSpec => []CountInv
<1>1. QueueInit => CountInv
  BY InitTypes, Assumptions DEF QueueInit, CountInv, Budget, Tally, IdleCycle
<1>. QED BY <1>1, CountInductive, PTL DEF QueueSpec

(* The attempt budget holds with any number of overlapping cycles.         *)
THEOREM RetryBudgetHolds == QueueSpec => []RetryBudget
<1>1. CountInv => RetryBudget
  BY ExistingInJobs DEF CountInv, Budget, RetryBudget
<1>. QED BY <1>1, CountCorrect, PTL

(* No job is given up before MaxAttempts real failures, with any number of *)
(* overlapping cycles.                                                     *)
THEOREM NeverGivenUpEarlyHolds == QueueSpec => []NeverGivenUpEarly
<1>1. CountInv => NeverGivenUpEarly
  <2>. SUFFICES ASSUME CountInv, NEW j \in Existing, jobStatus[j] = "FAILED"
                PROVE  failures[j] >= MaxAttempts
    BY DEF NeverGivenUpEarly
  <2>1. j \in Jobs /\ attempts[j] \in Nat /\ failures[j] \in Nat
    BY ExistingInJobs DEF CountInv, Types
  <2>2. attempts[j] = MaxAttempts /\ attempts[j] <= failures[j]
    BY <2>1 DEF CountInv, Budget, Tally
  <2>. QED BY <2>1, <2>2
<1>. QED BY <1>1, CountCorrect, PTL
-----------------------------------------------------------------------------
(* Delivery.  What DELIVERED promises of a job, and how much of it a cycle *)
(* has secured at each stage of the loop body.                             *)
InAppServed(j) == j \in inbox \/ "IN_APP" \in excused[j]
EmailServed(j) == j \in mailed \/ "EMAIL" \in excused[j]

Secured(c, j) ==
    /\ cycle[c].at = "inApp" => /\ "IN_APP" \in cycle[c].allowed \/ "IN_APP" \in excused[j]
                                /\ "EMAIL" \in cycle[c].allowed \/ "EMAIL" \in excused[j]
    /\ cycle[c].at = "email" => /\ InAppServed(j)
                                /\ "EMAIL" \in cycle[c].allowed \/ "EMAIL" \in excused[j]
    /\ cycle[c].at = "done" => InAppServed(j) /\ EmailServed(j)

DeliveryInv ==
    /\ \A c \in Cycles, j \in Jobs : Working(c, j) => Secured(c, j)
    /\ \A j \in Jobs : jobStatus[j] = "DELIVERED" => InAppServed(j) /\ EmailServed(j)

(* What was delivered or excused stays so.                                 *)
LEMMA ServedGrows ==
  ASSUME Types, [QueueNext]_queueVars, NEW j \in Jobs
  PROVE  /\ inbox \subseteq inbox'
         /\ mailed \subseteq mailed'
         /\ excused[j] \subseteq excused'[j]
<1>1. CASE UNCHANGED <<inbox, mailed, excused>>
  BY <1>1
<1>2. ASSUME NEW c \in Cycles, NEW k \in Jobs, InLoop(c, k)
      PROVE  inbox \subseteq inbox' /\ mailed \subseteq mailed' /\ excused[j] \subseteq excused'[j]
  <2>1. excused \in [Jobs -> SUBSET Channels]
    BY DEF Types
  <2>. QED
    BY <1>2, <2>1 DEF InLoop, CheckMembership, NotAMember, ReadPreference, DeliverInApp, SendEmail,
                EmailAnswerLost, StepThrows
<1>3. CASE \E c \in Cycles : ReadBatch(c) \/ Abort(c)
                \/ \E k \in Jobs : Done(c, k) \/ RecordFailure(c, k)
  BY <1>1, <1>3 DEF ReadBatch, Abort, Done, RecordFailure
<1>4. CASE \/ Enqueue
           \/ \E k \in Jobs, chosen \in SUBSET Channels : SetPreference(k, chosen)
           \/ \E k \in Jobs : EndMembership(k) \/ BackoffElapses(k)
           \/ UNCHANGED queueVars
  BY <1>1, <1>4 DEF Enqueue, SetPreference, EndMembership, BackoffElapses, queueVars
<1>. QED BY <1>2, <1>3, <1>4 DEF QueueNext, CycleStep, InLoop

(* A cycle that does not move keeps what it has secured.                   *)
LEMMA SecuredGrows ==
  ASSUME Types, [QueueNext]_queueVars, NEW j \in Jobs, NEW c \in Cycles,
         cycle'[c] = cycle[c], Secured(c, j)
  PROVE  Secured(c, j)'
  BY ServedGrows DEF Secured, InAppServed, EmailServed

LEMMA DeliveryInductive == Types /\ DeliveryInv /\ [QueueNext]_queueVars => DeliveryInv'
<1>. SUFFICES ASSUME Types, DeliveryInv, [QueueNext]_queueVars PROVE DeliveryInv'
  OBVIOUS
<1>1. jobStatus \in [Jobs -> JobStatuses] /\ excused \in [Jobs -> SUBSET Channels]
  BY DEF Types
<1>2. ASSUME NEW j \in Jobs, InAppServed(j) /\ EmailServed(j)
      PROVE  (InAppServed(j) /\ EmailServed(j))'
  BY <1>2, ServedGrows DEF InAppServed, EmailServed
<1>3. ASSUME NEW c \in Cycles, NEW k \in Jobs, NEW j \in Jobs, InLoop(c, k), Working(c, j)'
      PROVE  Secured(c, j)'
  <2>1. j = k /\ Working(c, k)
    <3>1. cycle'[c].left = cycle[c].left
      BY <1>3, InLoopShape
    <3>2. Working(c, k)
      BY <1>3 DEF InLoop, CheckMembership, NotAMember, ReadPreference, DeliverInApp, SendEmail,
                  EmailAnswerLost, StepThrows, AtStage
    <3>. QED BY <1>3, <3>1, <3>2, Assumptions DEF Working, Jobs
  <2>2. {"preference", "email", "done", "catch"} \subseteq Stages
    BY DEF Stages
  <2>3. CASE CheckMembership(c, k) \/ StepThrows(c, k) \/ EmailAnswerLost(c, k)
    <3>1. cycle'[c].at \in {"preference", "catch"}
      BY <2>2, <2>3, GotoType DEF CheckMembership, StepThrows, EmailAnswerLost
    <3>. QED BY <3>1 DEF Secured
  <2>4. CASE NotAMember(c, k)
    <3>1. cycle'[c].at = "done" /\ excused'[k] = Channels
      BY <1>1, <2>2, <2>4, GotoType DEF NotAMember
    <3>. QED BY <2>1, <3>1 DEF Secured, InAppServed, EmailServed, Channels
  <2>5. CASE ReadPreference(c, k)
    <3>1. cycle'[c].at = "inApp" /\ cycle'[c].allowed = enabled[k]
      BY <2>5, ReadPreferenceShape
    <3>2. excused'[k] = excused[k] \cup (Channels \ enabled[k])
      BY <1>1, <2>5 DEF ReadPreference
    <3>. QED BY <2>1, <3>1, <3>2 DEF Secured, Channels
  <2>6. CASE DeliverInApp(c, k)
    <3>1. /\ cycle'[c].at = "email"
          /\ cycle'[c].allowed = cycle[c].allowed
          /\ UNCHANGED excused
          /\ "IN_APP" \in cycle[c].allowed => k \in inbox'
      BY <2>2, <2>6, GotoType DEF DeliverInApp
    <3>2. Secured(c, k) /\ cycle[c].at = "inApp"
      BY <2>1, <2>6 DEF DeliveryInv, DeliverInApp, AtStage
    <3>. QED BY <2>1, <3>1, <3>2 DEF Secured, InAppServed
  <2>7. CASE SendEmail(c, k)
    <3>1. /\ cycle'[c].at = "done"
          /\ UNCHANGED <<inbox, excused>>
          /\ "EMAIL" \in cycle[c].allowed => k \in mailed'
      BY <2>2, <2>7, GotoType DEF SendEmail
    <3>2. Secured(c, k) /\ cycle[c].at = "email"
      BY <2>1, <2>7 DEF DeliveryInv, SendEmail, AtStage
    <3>. QED BY <2>1, <3>1, <3>2 DEF Secured, InAppServed, EmailServed
  <2>. QED BY <1>3, <2>3, <2>4, <2>5, <2>6, <2>7 DEF InLoop
<1>4. ASSUME NEW c \in Cycles, NEW k \in Jobs, InLoop(c, k) PROVE DeliveryInv'
  <2>1. ASSUME NEW d \in Cycles, NEW j \in Jobs, Working(d, j)' PROVE Secured(d, j)'
    <3>1. CASE d = c
      BY <1>3, <1>4, <2>1, <3>1
    <3>2. CASE d # c
      BY <1>4, <2>1, <3>2, InLoopShape, SecuredGrows DEF DeliveryInv, Working
    <3>. QED BY <3>1, <3>2
  <2>2. UNCHANGED jobStatus
    BY <1>4, InLoopShape
  <2>. QED BY <1>2, <2>1, <2>2 DEF DeliveryInv
<1>5. ASSUME NEW c \in Cycles, ReadBatch(c) \/ Abort(c) PROVE DeliveryInv'
  <2>1. /\ \A d \in Cycles : d # c => cycle'[d] = cycle[d]
        /\ cycle'[c].at \in {"idle", "membership"}
        /\ UNCHANGED jobStatus
    BY <1>5, ReadBatchShape DEF Abort, ReadBatch, IdleCycle, Types, jobVars
  <2>2. ASSUME NEW d \in Cycles, NEW j \in Jobs, Working(d, j)' PROVE Secured(d, j)'
    BY <2>1, <2>2, SecuredGrows DEF DeliveryInv, Working, Secured
  <2>. QED BY <1>2, <2>1, <2>2 DEF DeliveryInv
<1>6. ASSUME NEW c \in Cycles, NEW k \in Jobs, Done(c, k) \/ RecordFailure(c, k)
      PROVE  DeliveryInv'
  <2>1. /\ \A d \in Cycles : d # c => cycle'[d] = cycle[d]
        /\ cycle'[c].at \in {"idle", "membership"}
    BY <1>6, NextJobType, NextJobStage DEF Done, RecordFailure
  <2>2. ASSUME NEW d \in Cycles, NEW j \in Jobs, Working(d, j)' PROVE Secured(d, j)'
    BY <2>1, <2>2, SecuredGrows DEF DeliveryInv, Working, Secured
  <2>3. ASSUME NEW j \in Jobs, jobStatus'[j] = "DELIVERED"
        PROVE  InAppServed(j) /\ EmailServed(j)
    <3>1. CASE jobStatus[j] = "DELIVERED"
      BY <3>1 DEF DeliveryInv
    <3>2. CASE jobStatus[j] # "DELIVERED"
      <4>1. j = k /\ Done(c, k)
        BY <1>1, <1>6, <2>3, <3>2 DEF Done, RecordFailure, StatusAfter
      <4>. QED BY <4>1 DEF Done, AtStage, DeliveryInv, Secured
    <3>. QED BY <3>1, <3>2
  <2>. QED BY <1>2, <2>2, <2>3 DEF DeliveryInv
<1>7. CASE \/ Enqueue
           \/ \E j \in Jobs, chosen \in SUBSET Channels : SetPreference(j, chosen)
           \/ \E j \in Jobs : EndMembership(j) \/ BackoffElapses(j)
           \/ UNCHANGED queueVars
  <2>1. UNCHANGED <<jobStatus, cycle>>
    BY <1>7 DEF Enqueue, SetPreference, EndMembership, BackoffElapses, queueVars, jobVars
  <2>2. ASSUME NEW d \in Cycles, NEW j \in Jobs, Working(d, j)' PROVE Secured(d, j)'
    BY <2>1, <2>2, SecuredGrows DEF DeliveryInv, Working
  <2>. QED BY <1>2, <2>1, <2>2 DEF DeliveryInv
<1>. QED BY <1>4, <1>5, <1>6, <1>7 DEF QueueNext, CycleStep, InLoop

LEMMA DeliveryAlways == QueueSpec => [](Types /\ DeliveryInv)
<1>1. QueueInit => DeliveryInv
  BY DEF QueueInit, DeliveryInv, Working, IdleCycle
<1>2. QueueTypeOK => Types
  BY DEF QueueTypeOK
<1>. QED BY <1>1, <1>2, DeliveryInductive, TypeCorrect, PTL DEF QueueSpec

(* A job marked DELIVERED was delivered on every channel its recipient had *)
(* not turned off, whatever failed, crashed or overlapped on the way.      *)
THEOREM DeliveredIsTrueHolds == QueueSpec => []DeliveredIsTrue
<1>1. Types /\ DeliveryInv => DeliveredIsTrue
  BY ExistingInJobs DEF DeliveryInv, DeliveredIsTrue, InAppServed, EmailServed
<1>. QED BY <1>1, DeliveryAlways, PTL
-----------------------------------------------------------------------------
(* Recipients who left.  They are still outsiders when the cycle reaches   *)
(* their job, because nothing gives a membership back.                     *)
LeaverInv ==
    /\ \A c \in Cycles : \A j \in cycle[c].outsiders : j \notin member
    /\ NothingAfterLeaving

LEMMA LeaverInductive == Types /\ LeaverInv /\ [QueueNext]_queueVars => LeaverInv'
<1>. SUFFICES ASSUME Types, LeaverInv, [QueueNext]_queueVars PROVE LeaverInv'
  OBVIOUS
<1>. USE DEF LeaverInv, NothingAfterLeaving
<1>1. ASSUME NEW c \in Cycles, NEW k \in Jobs, InLoop(c, k) PROVE LeaverInv'
  <2>1. /\ \A d \in Cycles : d # c => cycle'[d] = cycle[d]
        /\ cycle'[c].outsiders = cycle[c].outsiders
        /\ cycle'[c].left = cycle[c].left
        /\ UNCHANGED member
    BY <1>1, InLoopShape
  <2>2. ASSUME NEW j \in Jobs, Working(c, j)', j \in cycle'[c].outsiders
        PROVE  cycle'[c].at \notin {"preference", "inApp", "email"}
    <3>1. Working(c, j) /\ Working(c, k)
      BY <1>1, <2>1, <2>2 DEF Working, InLoop, CheckMembership, NotAMember, ReadPreference,
                              DeliverInApp, SendEmail, EmailAnswerLost, StepThrows, AtStage
    <3>2. j = k
      BY <3>1, Assumptions DEF Working, Jobs
    <3>3. /\ j \in cycle[c].outsiders
          /\ cycle[c].at \notin {"preference", "inApp", "email"}
          /\ j \notin member
      BY <2>1, <2>2, <3>1
    <3>4. NotAMember(c, j) \/ StepThrows(c, j)
      BY <1>1, <3>2, <3>3 DEF InLoop, CheckMembership, ReadPreference, DeliverInApp, SendEmail,
                              EmailAnswerLost, AtStage
    <3>5. cycle'[c].at \in {"done", "catch"}
      BY <3>4, GotoType DEF NotAMember, StepThrows, Stages
    <3>. QED BY <3>5
  <2>3. NothingAfterLeaving'
    BY <2>1, <2>2 DEF Working
  <2>. QED BY <2>1, <2>3
<1>2. ASSUME NEW c \in Cycles, ReadBatch(c) PROVE LeaverInv'
  BY <1>2, ReadBatchShape DEF ReadBatch, Working, recipientVars
<1>3. ASSUME NEW c \in Cycles, Abort(c) PROVE LeaverInv'
  BY <1>3 DEF Abort, IdleCycle, Types, Working, recipientVars
<1>4. ASSUME NEW c \in Cycles, NEW k \in Jobs, Done(c, k) \/ RecordFailure(c, k)
      PROVE  LeaverInv'
  <2>1. /\ \A d \in Cycles : d # c => cycle'[d] = cycle[d]
        /\ cycle'[c].at \in {"idle", "membership"}
        /\ cycle'[c].outsiders \subseteq cycle[c].outsiders
        /\ UNCHANGED member
    BY <1>4, NextJobType, NextJobStage DEF Done, RecordFailure, recipientVars
  <2>. QED BY <2>1 DEF Working
<1>5. CASE \/ Enqueue
           \/ \E j \in Jobs, chosen \in SUBSET Channels : SetPreference(j, chosen)
           \/ \E j \in Jobs : EndMembership(j) \/ BackoffElapses(j)
           \/ UNCHANGED queueVars
  <2>1. UNCHANGED cycle /\ member' \subseteq member
    BY <1>5 DEF Enqueue, SetPreference, EndMembership, BackoffElapses, queueVars, recipientVars
  <2>. QED BY <2>1 DEF Working
<1>. QED BY <1>1, <1>2, <1>3, <1>4, <1>5 DEF QueueNext, CycleStep, InLoop

(* A recipient who had left before a cycle read its batch gets nothing     *)
(* from that cycle (process, its membership check).                        *)
THEOREM NothingAfterLeavingHolds == QueueSpec => []NothingAfterLeaving
<1>1. QueueInit => LeaverInv
  BY DEF QueueInit, LeaverInv, NothingAfterLeaving, IdleCycle
<1>2. LeaverInv => NothingAfterLeaving
  BY DEF LeaverInv
<1>3. QueueTypeOK => Types
  BY DEF QueueTypeOK
<1>. QED BY <1>1, <1>2, <1>3, LeaverInductive, TypeCorrect, PTL DEF QueueSpec
-----------------------------------------------------------------------------
(* One cycle at a time.  Then what a cycle read of a job is what the row   *)
(* still says, so each of its writes is the next attempt of an open job.   *)
OneCycle == \A c, d \in Cycles : c = d

Current ==
    \A c \in Cycles : \A j \in cycle[c].left :
        j \in Existing /\ jobStatus[j] = "PENDING" /\ cycle[c].seen[j] = attempts[j]

LEMMA CurrentInductive == OneCycle /\ Types /\ Current /\ [QueueNext]_queueVars => Current'
<1>. SUFFICES ASSUME OneCycle, Types, Current, [QueueNext]_queueVars PROVE Current'
  OBVIOUS
<1>. USE Assumptions DEF Existing, Jobs
<1>1. created \in Nat /\ attempts \in [Jobs -> Nat] /\ jobStatus \in [Jobs -> JobStatuses]
      /\ \A c \in Cycles : cycle[c].left \subseteq Jobs
  BY DEF Types, CycleState
<1>2. CASE UNCHANGED <<jobStatus, attempts, cycle>> /\ created <= created' /\ created' \in Nat
  BY <1>1, <1>2 DEF Current
<1>3. ASSUME NEW c \in Cycles, ReadBatch(c) PROVE Current'
  <2>1. \A j \in Batch : j \in Existing /\ j \in Jobs /\ jobStatus[j] = "PENDING"
    BY <1>3, ReadBatchShape DEF Batch, Eligible
  <2>2. \A d \in Cycles : d = c
    BY DEF OneCycle
  <2>3. UNCHANGED <<created, jobStatus, attempts>>
    BY <1>3 DEF ReadBatch, jobVars
  <2>4. cycle'[c].left = Batch /\ \A j \in Batch : cycle'[c].seen[j] = attempts[j]
    BY <1>3, <2>1, ReadBatchShape
  <2>. QED BY <2>1, <2>2, <2>3, <2>4 DEF Current
<1>4. ASSUME NEW c \in Cycles, NEW j \in Jobs, InLoop(c, j) PROVE Current'
  <2>1. \A d \in Cycles : cycle'[d].left = cycle[d].left /\ cycle'[d].seen = cycle[d].seen
    BY <1>4, InLoopShape
  <2>2. UNCHANGED <<created, jobStatus, attempts>>
    BY <1>4, InLoopShape
  <2>. QED BY <2>1, <2>2 DEF Current
<1>5. ASSUME NEW c \in Cycles, NEW j \in Jobs, Done(c, j) \/ RecordFailure(c, j) PROVE Current'
  <2>1. \A d \in Cycles : d = c
    BY DEF OneCycle
  <2>2. \A k \in cycle'[c].left : k \in cycle[c].left /\ k # j /\ cycle'[c].seen = cycle[c].seen
    <3>1. NextJob(c, j)
      BY <1>5 DEF Done, RecordFailure
    <3>2. cycle'[c].left = cycle[c].left \ {j}
      BY <3>1 DEF NextJob, Types, CycleState, IdleCycle
    <3>. QED BY <3>1, <3>2, NextJobType
  <2>3. \A k \in Jobs : k # j => jobStatus'[k] = jobStatus[k] /\ attempts'[k] = attempts[k]
    BY <1>1, <1>5 DEF Done, RecordFailure
  <2>4. UNCHANGED created
    BY <1>5 DEF Done, RecordFailure
  <2>. QED BY <1>1, <2>1, <2>2, <2>3, <2>4 DEF Current
<1>6. ASSUME NEW c \in Cycles, Abort(c) PROVE Current'
  <2>1. cycle'[c].left = {}
    BY <1>6 DEF Abort, Types, IdleCycle
  <2>2. \A d \in Cycles : d = c
    BY DEF OneCycle
  <2>. QED BY <2>1, <2>2 DEF Current
<1>7. CASE \/ Enqueue
           \/ \E j \in Jobs, chosen \in SUBSET Channels : SetPreference(j, chosen)
           \/ \E j \in Jobs : EndMembership(j) \/ BackoffElapses(j)
           \/ UNCHANGED queueVars
  BY <1>1, <1>2, <1>7 DEF Enqueue, SetPreference, EndMembership, BackoffElapses, jobVars, queueVars
<1>. QED BY <1>3, <1>4, <1>5, <1>6, <1>7 DEF QueueNext, CycleStep, InLoop

(* What the promises call the outcome of each job.                         *)
LEMMA OutcomeOf == Became("PENDING") = "open" /\ Became("DELIVERED") = "delivered" /\ Became("FAILED") = "abandoned"
  BY DEF Became

(* The outcomes follow a change of one row.                                *)
LEMMA OutcomeChanges ==
  ASSUME Types, NEW j \in Jobs, NEW s \in JobStatuses, jobStatus' = [jobStatus EXCEPT ![j] = s]
  PROVE  Outcome' = [Outcome EXCEPT ![j] = Became(s)]
<1>1. \A k \in Jobs : jobStatus'[k] = IF k = j THEN s ELSE jobStatus[k]
  BY DEF Types
<1>2. Outcome' = [k \in Jobs |-> Became(jobStatus'[k])]
  BY DEF Outcome
<1>3. \A k \in Jobs : Became(jobStatus'[k]) = IF k = j THEN Became(s) ELSE Became(jobStatus[k])
  BY <1>1
<1>4. Outcome' = [k \in Jobs |-> IF k = j THEN Became(s) ELSE Became(jobStatus[k])]
  BY <1>2, <1>3, Zenon
<1>5. Outcome = [k \in Jobs |-> Became(jobStatus[k])]
  BY DEF Outcome
<1>. QED BY <1>4, <1>5

LEMMA PromiseStarts == QueueInit => Promise!Init
<1>. SUFFICES ASSUME QueueInit PROVE Promise!Init
  OBVIOUS
<1>1. Existing = {}
  BY DEF QueueInit, Existing
<1>2. \A j \in Jobs : jobStatus[j] = "PENDING"
  BY DEF QueueInit
<1>3. Outcome = [j \in Jobs |-> "open"]
  BY <1>2, OutcomeOf DEF Outcome
<1>. QED BY <1>1, <1>3 DEF QueueInit, Promise!Init, Outcome

(* Every step of the queue is a step of the promise, or none.              *)
LEMMA PromiseSteps ==
  OneCycle /\ CountInv /\ Current /\ [QueueNext]_queueVars => [Promise!Next]_(Promise!promiseVars)
<1>. SUFFICES ASSUME OneCycle, CountInv, Current, [QueueNext]_queueVars
              PROVE  [Promise!Next]_(Promise!promiseVars)
  OBVIOUS
<1>1. Types /\ created \in 0..MaxJobs /\ attempts \in [Jobs -> Nat] /\ jobStatus \in [Jobs -> JobStatuses]
      /\ inbox \subseteq Jobs /\ mailed \subseteq Jobs
  BY DEF CountInv, Types
<1>2. ASSUME UNCHANGED <<created, jobStatus, attempts, inbox, mailed>>
      PROVE  UNCHANGED Promise!promiseVars
  BY <1>2 DEF Promise!promiseVars, Existing, Outcome
<1>3. ASSUME NEW c \in Cycles, NEW j \in Jobs, Working(c, j)
      PROVE  /\ j \in Existing /\ jobStatus[j] = "PENDING" /\ Outcome[j] = "open" /\ Promise!Open(j)
             /\ cycle[c].seen[j] = attempts[j] /\ attempts[j] \in Nat /\ attempts[j] < MaxAttempts
  <2>1. j \in Existing /\ jobStatus[j] = "PENDING" /\ cycle[c].seen[j] = attempts[j]
    BY <1>3 DEF Current, Working
  <2>2. Outcome[j] = "open"
    BY <1>1, <2>1, OutcomeOf DEF Outcome
  <2>3. Promise!Open(j)
    BY <2>1, <2>2 DEF Promise!Open, Outcome
  <2>4. attempts[j] \in Nat /\ attempts[j] < MaxAttempts
    BY <1>1, <2>1 DEF CountInv, Budget
  <2>. QED BY <2>1, <2>2, <2>3, <2>4
<1>4. CASE Enqueue
  <2>1. created + 1 \in Jobs \ Existing /\ Existing' = Existing \cup {created + 1}
    BY <1>1, <1>4, Assumptions DEF Enqueue, Existing, Jobs
  <2>2. UNCHANGED <<jobStatus, attempts, inbox, mailed>>
    BY <1>4 DEF Enqueue
  <2>3. Outcome' = Outcome
    BY <2>2 DEF Outcome
  <2>4. Promise!Ask(created + 1)
    BY <2>1, <2>2, <2>3 DEF Promise!Ask, Outcome
  <2>. QED BY <2>1, <2>4 DEF Promise!Next
<1>5. ASSUME NEW c \in Cycles, NEW j \in Jobs, DeliverInApp(c, j)
      PROVE  [Promise!Next]_(Promise!promiseVars)
  <2>1. Promise!Open(j)
    BY <1>3, <1>5 DEF DeliverInApp, AtStage
  <2>2. UNCHANGED <<created, jobStatus, attempts, mailed>> /\ inbox' \in {inbox, inbox \cup {j}}
    BY <1>5 DEF DeliverInApp, jobVars
  <2>3. CASE inbox' = inbox
    BY <1>2, <2>2, <2>3
  <2>4. CASE inbox' = inbox \cup {j}
    <3>1. Existing' = Existing /\ Outcome' = Outcome
      BY <2>2 DEF Existing, Outcome
    <3>2. Promise!Show(j)
      BY <2>1, <2>2, <2>4, <3>1 DEF Promise!Show, Outcome
    <3>. QED BY <3>2 DEF Promise!Next
  <2>. QED BY <2>2, <2>3, <2>4
<1>6. ASSUME NEW c \in Cycles, NEW j \in Jobs, SendEmail(c, j) \/ EmailAnswerLost(c, j)
      PROVE  [Promise!Next]_(Promise!promiseVars)
  <2>1. Promise!Open(j)
    BY <1>3, <1>6 DEF SendEmail, EmailAnswerLost, AtStage
  <2>2. UNCHANGED <<created, jobStatus, attempts, inbox>> /\ mailed' \in {mailed, mailed \cup {j}}
    BY <1>6 DEF SendEmail, EmailAnswerLost, jobVars
  <2>3. CASE mailed' = mailed
    BY <1>2, <2>2, <2>3
  <2>4. CASE mailed' = mailed \cup {j}
    <3>1. Existing' = Existing /\ Outcome' = Outcome
      BY <2>2 DEF Existing, Outcome
    <3>2. Promise!Send(j)
      BY <2>1, <2>2, <2>4, <3>1 DEF Promise!Send, Outcome
    <3>. QED BY <3>2 DEF Promise!Next
  <2>. QED BY <2>2, <2>3, <2>4
<1>7. ASSUME NEW c \in Cycles, NEW j \in Jobs, Done(c, j)
      PROVE  [Promise!Next]_(Promise!promiseVars)
  <2>1. /\ Promise!Open(j) /\ cycle[c].seen[j] = attempts[j]
    BY <1>3, <1>7 DEF Done, AtStage
  <2>2. /\ UNCHANGED <<created, inbox, mailed>> /\ attempts' = [attempts EXCEPT ![j] = attempts[j] + 1]
        /\ jobStatus' = [jobStatus EXCEPT ![j] = "DELIVERED"]
    BY <1>7, <2>1 DEF Done
  <2>3. Existing' = Existing /\ Outcome' = [Outcome EXCEPT ![j] = "delivered"]
    BY <1>1, <2>2, OutcomeChanges, OutcomeOf DEF Existing, JobStatuses
  <2>4. Promise!EndAttempt(j)
    BY <2>1, <2>2, <2>3 DEF Promise!EndAttempt, Outcome
  <2>. QED BY <2>4 DEF Promise!Next
<1>8. ASSUME NEW c \in Cycles, NEW j \in Jobs, RecordFailure(c, j)
      PROVE  [Promise!Next]_(Promise!promiseVars)
  <2>1. /\ Promise!Open(j) /\ cycle[c].seen[j] = attempts[j] /\ attempts[j] \in Nat
        /\ attempts[j] < MaxAttempts /\ jobStatus[j] = "PENDING"
    BY <1>3, <1>8 DEF RecordFailure, AtStage
  <2>2. PICK n \in Nat : n = attempts[j] + 1 /\ n <= MaxAttempts
    BY <2>1, Assumptions
  <2>3. /\ UNCHANGED <<created, inbox, mailed>> /\ attempts' = [attempts EXCEPT ![j] = attempts[j] + 1]
        /\ jobStatus' = [jobStatus EXCEPT ![j] = StatusAfter(n)] /\ attempts'[j] = n
    BY <1>1, <1>8, <2>1, <2>2 DEF RecordFailure
  <2>4. Existing' = Existing
    BY <2>3 DEF Existing
  <2>5. CASE n < MaxAttempts
    <3>1. jobStatus' = jobStatus
      <4>1. StatusAfter(n) = "PENDING"
        BY <2>5, Assumptions DEF StatusAfter
      <4>2. jobStatus' = [jobStatus EXCEPT ![j] = "PENDING"]
        BY <2>3, <4>1
      <4>. QED BY <1>1, <2>1, <4>2
    <3>2. Outcome' = Outcome
      BY <3>1 DEF Outcome
    <3>3. Promise!EndAttempt(j)
      BY <2>1, <2>3, <2>4, <2>5, <3>2 DEF Promise!EndAttempt, Outcome
    <3>. QED BY <3>3 DEF Promise!Next
  <2>6. CASE n = MaxAttempts
    <3>1. jobStatus' = [jobStatus EXCEPT ![j] = "FAILED"]
      BY <2>3, <2>6, Assumptions DEF StatusAfter
    <3>2. Outcome' = [Outcome EXCEPT ![j] = "abandoned"]
      BY <1>1, <3>1, OutcomeChanges, OutcomeOf DEF JobStatuses
    <3>3. Promise!EndAttempt(j)
      BY <2>1, <2>3, <2>4, <2>6, <3>2 DEF Promise!EndAttempt, Outcome
    <3>. QED BY <3>3 DEF Promise!Next
  <2>. QED BY <2>2, <2>5, <2>6, Assumptions
<1>9. CASE \/ \E j \in Jobs, chosen \in SUBSET Channels : SetPreference(j, chosen)
           \/ \E j \in Jobs : EndMembership(j) \/ BackoffElapses(j)
           \/ \E c \in Cycles : ReadBatch(c) \/ Abort(c)
           \/ \E c \in Cycles, j \in Jobs : CheckMembership(c, j) \/ NotAMember(c, j)
                                            \/ ReadPreference(c, j) \/ StepThrows(c, j)
           \/ UNCHANGED queueVars
  <2>1. UNCHANGED <<created, jobStatus, attempts, inbox, mailed>>
    BY <1>9 DEF SetPreference, EndMembership, BackoffElapses, ReadBatch, Abort, CheckMembership,
                NotAMember, ReadPreference, StepThrows, queueVars, jobVars
  <2>. QED BY <1>2, <2>1
<1>. QED BY <1>4, <1>5, <1>6, <1>7, <1>8, <1>9 DEF QueueNext, CycleStep

(* With one delivery cycle the queue keeps what it promises for each job,  *)
(* whatever fails: every attempt is counted, there are at most             *)
(* MaxAttempts, nothing is shown or sent for a settled job, and what is    *)
(* settled stays so (process, done, the catch block).                      *)
THEOREM PromiseKeptHolds == ASSUME OneCycle PROVE QueueSpec => PromiseKept
<1>1. QueueInit => Current
  BY DEF QueueInit, Current, IdleCycle
<1>2. CountInv /\ Current /\ [QueueNext]_queueVars => Current'
  BY OneCycle, CurrentInductive DEF CountInv
<1>3. QueueInit => Promise!Init
  BY PromiseStarts
<1>4. CountInv /\ Current /\ [QueueNext]_queueVars => [Promise!Next]_(Promise!promiseVars)
  BY OneCycle, PromiseSteps
<1>. QED BY <1>1, <1>2, <1>3, <1>4, CountCorrect, PTL DEF QueueSpec, PromiseKept, Promise!Spec

-----------------------------------------------------------------------------
(* Any number of cycles.  What each holds, and how its steps change that.  *)
Held == [c \in Cycles |-> cycle[c].left]

LEMMA HeldChanges ==
  ASSUME Types, NEW c \in Cycles, \A d \in Cycles : d # c => cycle'[d] = cycle[d]
  PROVE  Held' = [Held EXCEPT ![c] = cycle'[c].left]
<1>1. Held' = [d \in Cycles |-> cycle'[d].left]
  BY DEF Held
<1>2. \A d \in Cycles : cycle'[d].left = IF d = c THEN cycle'[c].left ELSE cycle[d].left
  OBVIOUS
<1>. QED BY <1>1, <1>2 DEF Held

LEMMA HeldLoses ==
  ASSUME Types, NEW c \in Cycles, NEW j \in Jobs, NextJob(c, j)
  PROVE  Held' = [Held EXCEPT ![c] = @ \ {j}]
<1>1. cycle'[c].left = cycle[c].left \ {j}
  BY DEF NextJob, Types, CycleState, IdleCycle
<1>2. Held' = [Held EXCEPT ![c] = cycle[c].left \ {j}]
  BY <1>1, HeldChanges, NextJobType
<1>. QED BY <1>2 DEF Held

LEMMA HeldSame ==
  ASSUME Types, NEW c \in Cycles, NEW j \in Jobs, InLoop(c, j)
  PROVE  Held' = Held
<1>1. \A d \in Cycles : cycle'[d].left = cycle[d].left
  BY InLoopShape
<1>. QED BY <1>1 DEF Held

(* What a cycle takes existed and was open when it was taken; what a cycle *)
(* works on it holds.                                                      *)
LEMMA AttemptSteps ==
  CountInv /\ DeliveryInv /\ BusyWithBatch /\ [QueueNext]_queueVars
    => [Attempts!Next]_(Attempts!attemptVars)
<1>. SUFFICES ASSUME CountInv, DeliveryInv, BusyWithBatch, [QueueNext]_queueVars
              PROVE  [Attempts!Next]_(Attempts!attemptVars)
  OBVIOUS
<1>. DEFINE Goal == [Attempts!Next]_(Attempts!attemptVars)
<1>1. /\ Types /\ created \in 0..MaxJobs
      /\ attempts \in [Jobs -> Nat] /\ failures \in [Jobs -> Nat]
      /\ jobStatus \in [Jobs -> JobStatuses] /\ excused \in [Jobs -> SUBSET Channels]
      /\ \A c \in Cycles : cycle[c].left \subseteq Jobs
  BY DEF CountInv, Types, CycleState
<1>2. UNCHANGED jobStatus => Outcome' = Outcome
  BY DEF Outcome
<1>3. UNCHANGED created => Existing' = Existing
  BY DEF Existing
<1>4. ASSUME NEW c \in Cycles, NEW j \in Jobs, Working(c, j) PROVE j \in Held[c]
  BY <1>4 DEF Working, Held
<1>5. ASSUME UNCHANGED <<created, jobStatus, attempts, failures, inbox, mailed, excused>>, Held' = Held
      PROVE  Goal
  BY <1>2, <1>3, <1>5 DEF Attempts!attemptVars, Held
<1>6. CASE Enqueue
  <2>1. created + 1 \in Jobs \ Existing /\ Existing' = Existing \cup {created + 1}
    <3>1. created \in Nat /\ created < MaxJobs /\ created' = created + 1
      BY <1>1, <1>6, Assumptions DEF Enqueue
    <3>. QED BY <3>1, Assumptions DEF Existing, Jobs
  <2>2. UNCHANGED <<jobStatus, attempts, failures, inbox, mailed, excused>> /\ Held' = Held
    BY <1>6 DEF Enqueue, Held
  <2>3. Attempts!Ask(created + 1)
    BY <1>2, <2>1, <2>2 DEF Attempts!Ask, Held
  <2>. QED BY <2>1, <2>3 DEF Attempts!Next
<1>7. ASSUME NEW c \in Cycles, ReadBatch(c) PROVE Goal
  <2>1. Batch \subseteq Jobs /\ \A j \in Batch : j \in Existing /\ jobStatus[j] = "PENDING"
    BY <1>7, <1>1, ReadBatchShape DEF Batch, Eligible
  <2>2. \A j \in Batch : j \in Existing /\ Outcome[j] = "open"
    BY <2>1, OutcomeOf DEF Outcome
  <2>3. Held[c] = {}
    BY <1>7 DEF ReadBatch, Held, BusyWithBatch
  <2>4. Held' = [Held EXCEPT ![c] = Batch]
    BY <1>1, <1>7, HeldChanges, ReadBatchShape
  <2>5. UNCHANGED <<created, jobStatus, attempts, failures, inbox, mailed, excused>>
    BY <1>7 DEF ReadBatch, jobVars
  <2>6. PICK some \in SUBSET Jobs : some = Batch
    BY <2>1
  <2>7. Attempts!Take(c, some)
    BY <1>2, <1>3, <2>2, <2>3, <2>4, <2>5, <2>6 DEF Attempts!Take, Held
  <2>. QED BY <2>7 DEF Attempts!Next
<1>8. ASSUME NEW c \in Cycles, NEW j \in Jobs, InLoop(c, j) PROVE Goal
  <2>1. /\ Held' = Held /\ Working(c, j) /\ j \in Held[c]
        /\ UNCHANGED <<created, jobStatus, failures>>
    BY <1>1, <1>4, <1>8, HeldSame, InLoopShape
       DEF InLoop, CheckMembership, NotAMember, ReadPreference, DeliverInApp, SendEmail,
           EmailAnswerLost, StepThrows, AtStage
  <2>2. UNCHANGED attempts
    BY <1>1, <1>8, InLoopShape
  <2>3. CASE NotAMember(c, j) \/ ReadPreference(c, j)
    <3>1. PICK channels \in SUBSET Channels :
            excused' = [excused EXCEPT ![j] = excused[j] \cup channels]
      BY <1>1, <2>3 DEF NotAMember, ReadPreference
    <3>2. UNCHANGED <<inbox, mailed>>
      BY <2>3 DEF NotAMember, ReadPreference
    <3>3. Attempts!Waive(c, j, channels)
      BY <1>2, <1>3, <2>1, <2>2, <3>1, <3>2 DEF Attempts!Waive, Held
    <3>. QED BY <3>3 DEF Attempts!Next, Channels
  <2>4. CASE DeliverInApp(c, j)
    <3>1. UNCHANGED <<mailed, excused>> /\ inbox' \in {inbox, inbox \cup {j}}
      BY <2>4 DEF DeliverInApp
    <3>2. CASE inbox' = inbox \cup {j}
      <4>1. Attempts!Show(c, j)
        BY <1>2, <1>3, <2>1, <2>2, <3>1, <3>2 DEF Attempts!Show, Held
      <4>. QED BY <4>1 DEF Attempts!Next
    <3>. QED BY <1>5, <2>1, <2>2, <3>1, <3>2
  <2>5. CASE SendEmail(c, j) \/ EmailAnswerLost(c, j)
    <3>1. UNCHANGED <<inbox, excused>> /\ mailed' \in {mailed, mailed \cup {j}}
      BY <2>5 DEF SendEmail, EmailAnswerLost
    <3>2. CASE mailed' = mailed \cup {j}
      <4>1. Attempts!Send(c, j)
        BY <1>2, <1>3, <2>1, <2>2, <3>1, <3>2 DEF Attempts!Send, Held
      <4>. QED BY <4>1 DEF Attempts!Next
    <3>. QED BY <1>5, <2>1, <2>2, <3>1, <3>2
  <2>6. CASE CheckMembership(c, j) \/ StepThrows(c, j)
    BY <1>5, <2>1, <2>2, <2>6 DEF CheckMembership, StepThrows
  <2>. QED BY <1>8, <2>3, <2>4, <2>5, <2>6 DEF InLoop
<1>9. ASSUME NEW c \in Cycles, NEW j \in Jobs, Done(c, j) PROVE Goal
  <2>1. PICK n \in Nat : n = cycle[c].seen[j] + 1
    BY <1>1 DEF CountInv, Types, CycleState
  <2>2. /\ n \in 1..MaxAttempts /\ n <= failures[j] + 1
        /\ j \in Held[c] /\ InAppServed(j) /\ EmailServed(j)
    <3>1. cycle[c].seen[j] \in Nat /\ cycle[c].seen[j] < MaxAttempts /\ cycle[c].seen[j] <= failures[j]
      BY <1>9 DEF Done, AtStage, Working, CountInv, Types, CycleState, Budget, Tally
    <3>2. InAppServed(j) /\ EmailServed(j) /\ j \in Held[c]
      BY <1>4, <1>9 DEF Done, AtStage, DeliveryInv, Secured
    <3>. QED BY <1>1, <2>1, <3>1, <3>2, Assumptions
  <2>3. /\ Held' = [Held EXCEPT ![c] = @ \ {j}]
        /\ attempts' = [attempts EXCEPT ![j] = n]
        /\ jobStatus' = [jobStatus EXCEPT ![j] = "DELIVERED"]
        /\ UNCHANGED <<created, inbox, mailed, failures, excused>>
    BY <1>1, <1>9, <2>1, HeldLoses DEF Done
  <2>4. Outcome' = [Outcome EXCEPT ![j] = "delivered"]
    BY <1>1, <2>3, OutcomeChanges, OutcomeOf DEF JobStatuses
  <2>5. Attempts!End(c, j, n, "delivered")
    BY <1>3, <2>2, <2>3, <2>4 DEF Attempts!End, Held
  <2>6. Attempts!Deliver(c, j, n)
    BY <2>2, <2>3, <2>5 DEF Attempts!Deliver, InAppServed, EmailServed
  <2>. QED BY <2>2, <2>6 DEF Attempts!Next
<1>10. ASSUME NEW c \in Cycles, NEW j \in Jobs, RecordFailure(c, j) PROVE Goal
  <2>1. PICK n \in Nat : n = cycle[c].seen[j] + 1
    BY <1>1 DEF CountInv, Types, CycleState
  <2>2. n \in 1..MaxAttempts /\ n <= failures[j] + 1 /\ j \in Held[c]
    <3>1. cycle[c].seen[j] \in Nat /\ cycle[c].seen[j] < MaxAttempts /\ cycle[c].seen[j] <= failures[j]
      BY <1>10 DEF RecordFailure, AtStage, Working, CountInv, Types, CycleState, Budget, Tally
    <3>2. j \in Held[c]
      BY <1>4, <1>10 DEF RecordFailure, AtStage
    <3>. QED BY <1>1, <2>1, <3>1, <3>2, Assumptions
  <2>3. /\ Held' = [Held EXCEPT ![c] = @ \ {j}]
        /\ attempts' = [attempts EXCEPT ![j] = n]
        /\ jobStatus' = [jobStatus EXCEPT ![j] = StatusAfter(n)]
        /\ failures' = [failures EXCEPT ![j] = @ + 1]
        /\ UNCHANGED <<created, inbox, mailed, excused>>
    BY <1>1, <1>10, <2>1, HeldLoses DEF RecordFailure
  <2>4. /\ StatusAfter(n) \in JobStatuses
        /\ Became(StatusAfter(n)) = IF n = MaxAttempts THEN "abandoned" ELSE "open"
    BY <2>2, Assumptions, OutcomeOf DEF StatusAfter, JobStatuses
  <2>5. Outcome' = [Outcome EXCEPT ![j] = IF n = MaxAttempts THEN "abandoned" ELSE "open"]
    BY <1>1, <2>3, <2>4, OutcomeChanges
  <2>6. Attempts!End(c, j, n, IF n = MaxAttempts THEN "abandoned" ELSE "open")
    BY <1>3, <2>2, <2>3, <2>5 DEF Attempts!End, Held
  <2>7. Attempts!Fail(c, j, n)
    BY <2>2, <2>3, <2>6 DEF Attempts!Fail
  <2>. QED BY <2>2, <2>7 DEF Attempts!Next
<1>11. ASSUME NEW c \in Cycles, Abort(c) PROVE Goal
  <2>1. Held' = [Held EXCEPT ![c] = {}]
    BY <1>1, <1>11, HeldChanges DEF Abort, IdleCycle, Types
  <2>2. UNCHANGED <<created, jobStatus, attempts, failures, inbox, mailed, excused>>
    BY <1>11 DEF Abort, jobVars
  <2>3. Attempts!Drop(c)
    BY <1>2, <1>3, <2>1, <2>2 DEF Attempts!Drop, Held
  <2>. QED BY <2>3 DEF Attempts!Next
<1>12. CASE \/ \E j \in Jobs, chosen \in SUBSET Channels : SetPreference(j, chosen)
            \/ \E j \in Jobs : EndMembership(j) \/ BackoffElapses(j)
            \/ UNCHANGED queueVars
  <2>1. UNCHANGED <<created, jobStatus, attempts, failures, inbox, mailed, excused, cycle>>
    BY <1>12 DEF SetPreference, EndMembership, BackoffElapses, queueVars, jobVars
  <2>2. Held' = Held
    BY <2>1 DEF Held
  <2>. QED BY <1>5, <2>1, <2>2
<1>. QED
  BY <1>6, <1>7, <1>8, <1>9, <1>10, <1>11, <1>12 DEF QueueNext, CycleStep, InLoop

LEMMA AttemptsStart == QueueInit => Attempts!Init
<1>. SUFFICES ASSUME QueueInit PROVE Attempts!Init
  OBVIOUS
<1>1. Existing = {}
  BY DEF QueueInit, Existing
<1>2. \A j \in Jobs : jobStatus[j] = "PENDING"
  BY DEF QueueInit
<1>3. Outcome = [j \in Jobs |-> "open"]
  BY <1>2, OutcomeOf DEF Outcome
<1>. QED BY <1>1, <1>3 DEF QueueInit, Attempts!Init, IdleCycle

(* Whatever overlaps, fails, crashes or changes, with any number of        *)
(* cycles: an attempt begins only while its job is open, nothing is shown  *)
(* or sent outside one, a job is delivered with every channel served or    *)
(* waived and given up for MaxAttempts failures that happened (process).   *)
THEOREM AttemptsKeptHolds == QueueSpec => AttemptsKept
<1>1. QueueInit => Attempts!Init
  BY AttemptsStart
<1>2. CountInv /\ DeliveryInv /\ BusyWithBatch /\ [QueueNext]_queueVars
        => [Attempts!Next]_(Attempts!attemptVars)
  BY AttemptSteps
<1>3. QueueTypeOK => BusyWithBatch
  BY DEF QueueTypeOK
<1>. QED
  BY <1>1, <1>2, <1>3, CountCorrect, DeliveryAlways, TypeCorrect, PTL
     DEF QueueSpec, AttemptsKept, Attempts!Spec
=============================================================================
