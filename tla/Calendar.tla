------------------------------ MODULE Calendar ------------------------------
(***************************************************************************)
(* Calendar events and the daily reminders of the notification worker:     *)
(* createCalendarEvent announces an event to its audience; every cycle     *)
(* reminds the audience of the events that start within a day and the      *)
(* assignees of the guidance cases whose follow-up is due.                 *)
(*                                                                         *)
(* A scan works through what it found with awaits in between.  Audiences   *)
(* change meanwhile, cycles overlap, and one that fails or dies leaves the *)
(* rest to the next; the day in the key of a job keeps it from being       *)
(* queued twice.                                                           *)
(***************************************************************************)
EXTENDS Naturals, FiniteSets

CONSTANTS
    Events,      \* calendar events
    FollowUps,   \* guidance cases with a follow-up date
    Members,     \* members of the school
    Workers,     \* cycles that may run together
    MaxDay,      \* bound: days
    MaxScans,    \* bound: scans begun
    MaxMoves     \* bound: people joining and leaving an audience

ASSUME CalendarBounds == MaxDay \in Nat /\ MaxScans \in Nat /\ MaxMoves \in Nat

ASSUME OccasionsApart == Events \cap FollowUps = {}

Occasions == Events \cup FollowUps

VARIABLES
    created,    \* how far createCalendarEvent is with each event
    due,        \* items whose reminder window is open
    passed,     \* events that have started, cases that are closed
    audience,   \* who an item concerns now
    moves,      \* how often someone has joined or left
    today,
    jobs,       \* notification jobs by their keys
    scan,       \* the cycle of each worker
    scans,      \* scans begun
    owed,       \* history: whom a cycle must remind: due and concerned ever since it began
    known,      \* history: whom an item has concerned since a cycle began
    amiss       \* history: reminders missed by a finished cycle or sent to a stranger

Job(i, m, d) == [of |-> i, to |-> m, day |-> d]
NewEvent == 0                    \* stands for the day in the key of a creation notice

NoScan == [at |-> "none", day |-> 0, items |-> {}, queue |-> {}]

calendarVars == <<created, due, passed, audience, moves, today, jobs, scan, scans, owed, known, amiss>>
history == <<owed, known, amiss>>

CalendarInit ==
    /\ created = [e \in Events |-> "none"]
    /\ due = {} /\ passed = {}
    /\ audience \in [Occasions -> SUBSET Members]
    /\ moves = 0
    /\ today = 1
    /\ jobs = {}
    /\ scan = [w \in Workers |-> NoScan] /\ scans = 0
    /\ owed = [w \in Workers |-> {}] /\ known = [w \in Workers |-> {}]
    /\ amiss = {}

-----------------------------------------------------------------------------
(* createCalendarEvent: the event, its audit record, its announcement to   *)
(* those it concerns by then.  One that fails simply never goes on.        *)

StepOfCreation(e, from, to) == created[e] = from /\ created' = [created EXCEPT ![e] = to]

WriteEvent(e) ==
    /\ StepOfCreation(e, "none", "written")
    /\ UNCHANGED <<due, passed, audience, moves, today, jobs, scan, scans, history>>

AuditEvent(e) ==
    /\ StepOfCreation(e, "written", "audited")
    /\ UNCHANGED <<due, passed, audience, moves, today, jobs, scan, scans, history>>

AnnounceEvent(e) ==
    /\ StepOfCreation(e, "audited", "announced")
    /\ jobs' = jobs \cup {Job(e, m, NewEvent) : m \in audience[e]}
    /\ UNCHANGED <<due, passed, audience, moves, today, scan, scans, history>>

-----------------------------------------------------------------------------
(* Time, and what other requests change.                                   *)

Exists(i) == i \in Events => created[i] # "none"

(* An event comes within 24 hours, a case's follow-up date passes. *)
FallDue(i) ==
    /\ Exists(i) /\ i \notin due \cup passed
    /\ due' = due \cup {i}
    /\ UNCHANGED <<created, passed, audience, moves, today, jobs, scan, scans, history>>

(* An event starts, a case is closed: nobody is owed a reminder of it.     *)
Pass(i) ==
    /\ i \in due
    /\ due' = due \ {i} /\ passed' = passed \cup {i}
    /\ owed' = [w \in Workers |-> {x \in owed[w] : x[1] # i}]
    /\ UNCHANGED <<created, audience, moves, today, jobs, scan, scans, known, amiss>>

NextDay ==
    /\ today < MaxDay
    /\ today' = today + 1
    /\ UNCHANGED <<created, due, passed, audience, moves, jobs, scan, scans, history>>

Join(i, m) ==
    /\ m \notin audience[i] /\ moves < MaxMoves /\ moves' = moves + 1
    /\ audience' = [audience EXCEPT ![i] = @ \cup {m}]
    /\ known' = [w \in Workers |-> IF scan[w].at = "none" THEN known[w]
                                   ELSE known[w] \cup {<<i, m>>}]
    /\ UNCHANGED <<created, due, passed, today, jobs, scan, scans, owed, amiss>>

Part(i, m) ==
    /\ m \in audience[i] /\ moves < MaxMoves /\ moves' = moves + 1
    /\ audience' = [audience EXCEPT ![i] = @ \ {m}]
    /\ owed' = [w \in Workers |-> owed[w] \ {<<i, m>>}]
    /\ UNCHANGED <<created, due, passed, today, jobs, scan, scans, known, amiss>>

-----------------------------------------------------------------------------
(* One cycle: the due follow-ups first, then the calendar reminders.       *)

Stop(w) == scan' = [scan EXCEPT ![w] = NoScan]
Concerned == UNION {{i} \X audience[i] : i \in Occasions}

(* enqueueDueGuidanceFollowUps reads the cases with their assignees; the   *)
(* upserts are issued together.                                            *)
FindFollowUps(w) ==
    /\ scan[w].at = "none" /\ scans < MaxScans
    /\ scans' = scans + 1
    /\ scan' = [scan EXCEPT ![w] = [at |-> "followUps", day |-> today, items |-> {},
                   queue |-> {x \in Concerned : x[1] \in due \cap FollowUps}]]
    /\ owed' = [owed EXCEPT ![w] = {x \in Concerned : x[1] \in due}]
    /\ known' = [known EXCEPT ![w] = Concerned]
    /\ UNCHANGED <<created, due, passed, audience, moves, today, jobs, amiss>>

(* enqueueCalendarReminders lists the events that start within 24 hours.   *)
FindEvents(w) ==
    /\ scan[w].at = "followUps" /\ scan[w].queue = {}
    /\ scan' = [scan EXCEPT ![w].at = "events", ![w].items = due \cap Events]
    /\ UNCHANGED <<created, due, passed, audience, moves, today, jobs, scans, history>>

(* calendarRecipients, for one event after the other. *)
ResolveAudience(w, e) ==
    /\ scan[w].at = "events" /\ scan[w].queue = {} /\ e \in scan[w].items
    /\ scan' = [scan EXCEPT ![w].items = @ \ {e}, ![w].queue = {e} \X audience[e]]
    /\ UNCHANGED <<created, due, passed, audience, moves, today, jobs, scans, history>>

Remind_OneKeyPerItem(w, x) ==
    /\ x \in scan[w].queue
    /\ scan' = [scan EXCEPT ![w].queue = @ \ {x}]
    /\ jobs' = IF \E j \in jobs : j.of = x[1] /\ j.day = scan[w].day THEN jobs
               ELSE jobs \cup {Job(x[1], x[2], scan[w].day)}
    /\ amiss' = amiss \cup ({x} \ known[w])
    /\ UNCHANGED <<created, due, passed, audience, moves, today, scans, owed, known>>

(* One upsert: the key holds the item, the person and the day. *)
Remind(w, x) ==
    /\ x \in scan[w].queue
    /\ scan' = [scan EXCEPT ![w].queue = @ \ {x}]
    /\ jobs' = jobs \cup {Job(x[1], x[2], scan[w].day)}
    /\ amiss' = amiss \cup ({x} \ known[w])
    /\ UNCHANGED <<created, due, passed, audience, moves, today, scans, owed, known>>

EndScan(w) ==
    /\ scan[w].at = "events" /\ scan[w].queue = {} /\ scan[w].items = {}
    /\ amiss' = amiss \cup {x \in owed[w] : Job(x[1], x[2], scan[w].day) \notin jobs}
    /\ owed' = [owed EXCEPT ![w] = {}] /\ known' = [known EXCEPT ![w] = {}]
    /\ Stop(w)
    /\ UNCHANGED <<created, due, passed, audience, moves, today, jobs, scans>>

(* A statement fails or the process dies. *)
AbortScan(w) ==
    /\ scan[w].at # "none"
    /\ owed' = [owed EXCEPT ![w] = {}] /\ known' = [known EXCEPT ![w] = {}]
    /\ Stop(w)
    /\ UNCHANGED <<created, due, passed, audience, moves, today, jobs, scans, amiss>>

CalendarNext ==
    \/ \E e \in Events :
          \/ WriteEvent(e) \/ AuditEvent(e) \/ AnnounceEvent(e)
          \/ \E w \in Workers : ResolveAudience(w, e)
    \/ \E i \in Occasions : FallDue(i) \/ Pass(i) \/ \E m \in Members : Join(i, m) \/ Part(i, m)
    \/ NextDay
    \/ \E w \in Workers :
          \/ FindFollowUps(w) \/ FindEvents(w) \/ EndScan(w) \/ AbortScan(w)
          \/ \E x \in scan[w].queue : Remind(w, x)

(* A cycle that neither fails nor dies leaves a job of its day for every   *)
(* reminder that was due and every person it concerned from its beginning  *)
(* to its end, and none for anyone it did not concern meanwhile, however   *)
(* cycles overlap and audiences change (enqueueDueGuidanceFollowUps,       *)
(* enqueueCalendarReminders).                                              *)
EveryoneReminded == amiss = {}
=============================================================================
