----------------------------- MODULE Coursework -----------------------------
(***************************************************************************)
(* One assignment of one class (assignments.service.ts): its state, its    *)
(* due date and its submissions, who is told of them, and the reminders of *)
(* the notification worker.                                                *)
(*                                                                         *)
(* A change is one row written, its audit record, and its announcement, in *)
(* that order; who may hear of it is decided when it is announced.         *)
(***************************************************************************)
EXTENDS Integers

CONSTANTS
    Pupils, Guardians,
    Tasks,        \* requests that may be in progress together
    MaxTasks,     \* bound: requests begun
    MaxSlips,     \* bound: failed statements and process deaths
    MaxMoves      \* bound: changes of the class, of enrolments and links, and nights

ASSUME CourseworkBounds ==
    MaxTasks \in Nat /\ MaxSlips \in Nat /\ MaxMoves \in Nat

NoOne == "no one"
Users == Pupils \cup Guardians
Changes == ({"created", "published", "archived", "updated"} \X {NoOne})
               \cup ({"submitted", "feedback"} \X Pupils)
Announced_SubmissionsForgotten == {"created", "published", "feedback"}
Announced == {"created", "published", "submitted", "feedback"}

VARIABLES
    work,        \* state of the assignment, NONE before it exists
    soon,        \* it is due within the 24 hours of a reminder
    audience,    \* the pupils enrolled in its class, and their approved parents
    handed,      \* each pupil's submission: none, open or reviewed
    filed,       \* changes with an audit record
    news,        \* notices of changes: <<change, user>>
    reminders,   \* due_soon notices: <<user, day>>
    today,
    task,        \* the requests
    scan,        \* the worker's reminder scan
    tasks, slips, moves,
    made,        \* history: changes made so far
    present,     \* history: everybody who has been in the audience
    offered,     \* history: the audience it has had while published
    owedNews,    \* history: news promised while the assignment stays published
    soonDays     \* history: days on which it was published and due soon

taskLimits == <<tasks, slips>>
school == <<audience, moves>>
clock == <<soon, today>>
past == <<made, present, offered, owedNews, soonDays>>
courseworkVars == <<work, clock, school, handed, filed, news, reminders, task, scan, taskLimits,
                    past>>

NoTask == [at |-> "idle", change |-> <<"archived", NoOne>>]
NoScan == [at |-> "idle", day |-> 0]

OnTask(r) == task[r].at # "idle"
EndsTask(r) == task' = [task EXCEPT ![r] = NoTask]
Takes(r, where) == task' = [task EXCEPT ![r].at = where]

CourseworkInit ==
    /\ work = "NONE" /\ soon = FALSE /\ audience = Users
    /\ handed = [s \in Pupils |-> "none"]
    /\ filed = {} /\ news = {} /\ reminders = {} /\ today = 0
    /\ task = [r \in Tasks |-> NoTask] /\ scan = NoScan
    /\ tasks = 0 /\ slips = 0 /\ moves = 0
    /\ made = {} /\ present = Users /\ offered = {} /\ owedNews = {} /\ soonDays = {}

BeginTask(r, change, where) ==
    /\ ~OnTask(r)
    /\ tasks < MaxTasks
    /\ tasks' = tasks + 1
    /\ task' = [task EXCEPT ![r] = [at |-> where, change |-> change]]
    /\ UNCHANGED <<work, school, clock, handed, filed, news, reminders, scan, slips>>

-----------------------------------------------------------------------------
(* Reads and checks.  The API neither ends a teacher's assignment nor      *)
(* changes who created an assignment, so canManage stays true for a        *)
(* teacher it let through.                                                 *)

(* create, while no other request can know the assignment. *)
BeginCreate(r) ==
    /\ work = "NONE" /\ \A other \in Tasks : ~OnTask(other)
    /\ BeginTask(r, <<"created", NoOne>>, "write")

(* changeState and update: from any state, and with no look at it later. *)
BeginManage(r, kind) ==
    /\ work # "NONE"
    /\ BeginTask(r, <<kind, NoOne>>, "write")

(* submit looks for the assignment in the state PUBLISHED and in a class   *)
(* of the pupil.                                                           *)
BeginSubmit_AnyState(r, s) ==
    /\ work # "NONE" /\ s \in audience
    /\ BeginTask(r, <<"submitted", s>>, "write")

BeginSubmit(r, s) ==
    /\ work = "PUBLISHED" /\ s \in audience
    /\ BeginTask(r, <<"submitted", s>>, "write")

BeginFeedback_NotFoundIgnored(r, s) ==
    /\ work # "NONE"
    /\ BeginTask(r, <<"feedback", s>>, "write")

BeginFeedback(r, s) ==
    /\ handed[s] # "none"
    /\ BeginTask(r, <<"feedback", s>>, "write")

-----------------------------------------------------------------------------
(* The row written.                                                        *)

States4 == [created |-> "DRAFT", published |-> "PUBLISHED", archived |-> "ARCHIVED"]

WriteState_AnnounceFirst(r) ==
    LET kind == task[r].change[1] IN
    /\ task[r].at = "write" /\ kind \in DOMAIN States4
    /\ work' = States4[kind]
    /\ Takes(r, IF kind = "published" THEN "announce" ELSE "file")
    /\ UNCHANGED <<school, clock, handed, filed, news, reminders, scan, taskLimits>>

WriteState(r) ==
    LET kind == task[r].change[1] IN
    /\ task[r].at = "write" /\ kind \in DOMAIN States4
    /\ work' = States4[kind]
    /\ Takes(r, "file")
    /\ UNCHANGED <<school, clock, handed, filed, news, reminders, scan, taskLimits>>

(* update writes the due date and the class, which may be another one. *)
WriteUpdate(r, users, dueSoon) ==
    /\ task[r].at = "write" /\ task[r].change[1] = "updated"
    /\ soon' = dueSoon
    /\ audience' = users
    /\ moves' = IF users = audience THEN moves ELSE moves + 1
    /\ moves' <= MaxMoves
    /\ Takes(r, "file")
    /\ UNCHANGED <<work, today, handed, filed, news, reminders, scan, taskLimits>>

(* The upsert of a submission leaves the feedback of an earlier one. *)
WriteSubmission(r) ==
    LET s == task[r].change[2] IN
    /\ task[r].at = "write" /\ task[r].change[1] \in {"submitted", "feedback"}
    /\ handed' = [handed EXCEPT ![s] = IF task[r].change[1] = "feedback" THEN "reviewed"
                                       ELSE IF @ = "none" THEN "open" ELSE @]
    /\ Takes(r, "file")
    /\ UNCHANGED <<work, school, clock, filed, news, reminders, scan, taskLimits>>

-----------------------------------------------------------------------------
(* Its audit record and its announcement.                                  *)

File(r) ==
    /\ task[r].at = "file"
    /\ filed' = filed \cup {task[r].change}
    /\ IF task[r].change[1] \in Announced THEN Takes(r, "announce") ELSE EndsTask(r)
    /\ UNCHANGED <<work, school, clock, handed, news, reminders, scan, taskLimits>>

(* Announced to whoever NotificationWorkerService.recipients then finds in *)
(* the audience, in whatever state the assignment is.                      *)
Announce(r) ==
    /\ task[r].at = "announce"
    /\ news' = news \cup ({task[r].change} \X audience)
    /\ EndsTask(r)
    /\ UNCHANGED <<work, school, clock, handed, filed, reminders, scan, taskLimits>>

(* A statement fails or the process dies; an announcement may have reached *)
(* some users.                                                             *)
Slip(r) ==
    /\ OnTask(r)
    /\ slips < MaxSlips
    /\ slips' = slips + 1
    /\ \E some \in SUBSET audience :
          /\ task[r].at # "announce" => some = {}
          /\ news' = news \cup ({task[r].change} \X some)
    /\ EndsTask(r)
    /\ UNCHANGED <<work, school, clock, handed, filed, reminders, scan, tasks>>

-----------------------------------------------------------------------------
(* enqueueAssignmentDueReminders: find the assignment, then resolve its    *)
(* recipients, with one upsert per user, keyed by the day of the scan.     *)

ScanDue_StateForgotten ==
    /\ scan.at = "idle"
    /\ work # "NONE" /\ soon
    /\ scan' = [at |-> "found", day |-> today]
    /\ UNCHANGED <<work, school, clock, handed, filed, news, reminders, task, taskLimits>>

ScanDue ==
    /\ scan.at = "idle"
    /\ work = "PUBLISHED" /\ soon
    /\ scan' = [at |-> "found", day |-> today]
    /\ UNCHANGED <<work, school, clock, handed, filed, news, reminders, task, taskLimits>>

(* The upserts, in which some users may be passed over by a failure. *)
Remind(some) ==
    /\ scan.at = "found"
    /\ some \subseteq audience
    /\ reminders' = reminders \cup (some \X {scan.day})
    /\ scan' = NoScan
    /\ UNCHANGED <<work, school, clock, handed, filed, news, task, taskLimits>>

-----------------------------------------------------------------------------
(* The world: pupils are enrolled and withdrawn, links made and ended, and *)
(* time passes.                                                            *)

Enrolments(u) ==
    /\ moves < MaxMoves
    /\ moves' = moves + 1
    /\ audience' \in {audience \cup {u}, audience \ {u}}
    /\ UNCHANGED <<work, clock, handed, filed, news, reminders, task, scan, taskLimits>>

WindowOpensOrCloses ==
    /\ soon' = ~soon
    /\ UNCHANGED <<work, school, today, handed, filed, news, reminders, task, scan, taskLimits>>

NextDay ==
    /\ moves < MaxMoves
    /\ moves' = moves + 1
    /\ today' = today + 1
    /\ UNCHANGED <<work, audience, soon, handed, filed, news, reminders, task, scan, taskLimits>>

(* What the properties remember of a step.  A publication, submission or   *)
(* feedback is owed to the audience it is written for, and no longer owed  *)
(* to those who leave or once the assignment is not published.             *)
MadeBy(r) == IF task[r].at = "write" /\ task'[r].at \notin {"write", "idle"}
             THEN {task[r].change} ELSE {}

Written == UNION {MadeBy(r) : r \in Tasks}
Promised == {"published", "submitted", "feedback"}

Remember ==
    /\ made' = made \cup Written
    /\ present' = present \cup audience'
    /\ offered' = offered \cup IF work' = "PUBLISHED" THEN audience' ELSE {}
    /\ owedNews' = {n \in owedNews \cup (Written \X audience') :
                      n[1][1] \in Promised /\ n[2] \in audience' /\ work' = "PUBLISHED"}
    /\ soonDays' = soonDays \cup IF work' = "PUBLISHED" /\ soon' THEN {today'} ELSE {}

Requested(r) ==
    \/ BeginCreate(r)
    \/ \E kind \in {"published", "archived", "updated"} : BeginManage(r, kind)
    \/ \E s \in Pupils : BeginSubmit(r, s) \/ BeginFeedback(r, s)
    \/ WriteState(r) \/ WriteSubmission(r) \/ File(r) \/ Announce(r) \/ Slip(r)
    \/ \E users \in SUBSET Users, dueSoon \in BOOLEAN : WriteUpdate(r, users, dueSoon)

Scanned == ScanDue \/ \E some \in SUBSET Users : Remind(some)

CourseworkNext ==
    /\ (\E r \in Tasks : Requested(r)) \/ Scanned \/ (\E u \in Users : Enrolments(u)) \/ WindowOpensOrCloses \/ NextDay
    /\ Remember

CourseworkSpec == CourseworkInit /\ [][CourseworkNext]_courseworkVars

-----------------------------------------------------------------------------
(* Properties.                                                             *)

TasksDone == \A r \in Tasks : ~OnTask(r)

(* Every variable has its type; nothing is submitted, announced or         *)
(* audited of an assignment that does not exist, and only a submission     *)
(* that exists is reviewed.                                                *)
CourseworkTypeOK ==
    /\ work \in {"NONE"} \cup {States4[k] : k \in DOMAIN States4}
    /\ soon \in BOOLEAN /\ audience \subseteq Users
    /\ handed \in [Pupils -> {"none", "open", "reviewed"}]
    /\ filed \subseteq Changes
    /\ news \subseteq Changes \X Users
    /\ reminders \subseteq Users \X (0..today)
    /\ work = "NONE" => filed = {} /\ news = {} /\ reminders = {}
    /\ \A s \in Pupils : handed[s] # "none" => <<"submitted", s>> \in made
    /\ tasks \in 0..MaxTasks /\ slips \in 0..MaxSlips /\ moves \in 0..MaxMoves

(* Only a pupil to whom the assignment has been open, published and in a *)
(* class of theirs at one moment, has a submission or feedback, whatever   *)
(* is archived, moved or withdrawn while they submit (submit, feedback).   *)
SubmittedWhenOffered ==
    \A s \in Pupils : handed[s] # "none" => s \in offered

(* Nobody is told of a change that is not in the audit log, and unless a   *)
(* request fails the log has every change once none is in progress         *)
(* (auditChange before publishAssignmentEvent, in every handler).  A       *)
(* reminder is of a day on which the assignment was published and due      *)
(* within the reminder window, and goes to somebody who has been in the    *)
(* audience (enqueueAssignmentDueReminders).  Unless a request fails, once *)
(* none is in progress everybody who has stayed in the audience of an      *)
(* assignment that has stayed published, ever since it was published,      *)
(* submitted to or reviewed, has a notice of it ("Publication, submission, *)
(* and feedback generate queued notification events"); nothing is asked of *)
(* drafts and archived assignments, which are hidden from the audience.    *)
NoticesOfWork ==
    /\ \A n \in news : n[1] \in filed
    /\ filed \subseteq made
    /\ slips = 0 /\ TasksDone => filed = made /\ owedNews \subseteq news
    /\ \A n \in reminders : n[2] \in soonDays /\ n[1] \in present

=============================================================================
