--------------------------- MODULE Announcements ---------------------------
(***************************************************************************)
(* Announcements from draft to notification (communications.service.ts and *)
(* the publication half of notification-worker.service.ts).                *)
(*                                                                         *)
(* An author publishes by hand; a due SCHEDULED announcement is published  *)
(* by the worker.  Both write the state first and resolve and enqueue the  *)
(* recipients afterwards, in separate statements, so publications by hand, *)
(* worker cycles of several API processes, enrolments and process deaths   *)
(* interleave between them.                                                *)
(*                                                                         *)
(* Who is in the audience of an announcement is one set that enrolment     *)
(* and link changes move; the rules that compute it are left out.          *)
(***************************************************************************)
EXTENDS Integers, FiniteSets

CONSTANTS
    Announcements,
    Users,
    Requests,         \* HTTP requests that may be in progress together
    Cycles,           \* worker cycles that may be in progress together
    MaxTime,          \* bound: the clock stops here
    MaxPublications,  \* bound: publications by hand that reach the publisher
    MaxFaults         \* bound: failed statements and process deaths

ASSUME AnnouncementBounds ==
    /\ MaxTime \in Nat /\ MaxPublications \in Nat /\ MaxFaults \in Nat
    /\ Requests \cap Cycles = {}

Times == 0..MaxTime
Never == -1                       \* a null publishAt or expiresAt
Workers == Requests \cup Cycles

(* Event keys: 0 is "scheduled-announcement:<id>", the others are the      *)
(* fresh ids createEvent draws.                                            *)
StableKey == 0
EventKeys == 0..MaxPublications

VARIABLES
    now,
    state,      \* of each announcement; "NONE" before it is created
    publishAt, expiresAt,
    audience,   \* users each announcement is addressed to, now
    jobs,       \* notification jobs: <<event key, announcement, user>>
    marks,      \* reads and acknowledgements: <<kind, announcement, user>>
    task,       \* what each request and each worker cycle is doing
    drawn,      \* fresh event ids drawn so far
    byHand,     \* history: publications by hand of each announcement
    owed,       \* history: users addressed since it was last published
    faults

content == <<state, publishAt, expiresAt>>
history == <<drawn, byHand, owed>>
vars == <<now, state, publishAt, expiresAt, audience, jobs, marks, task,
          drawn, byHand, owed, faults>>

States == {"NONE", "DRAFT", "SCHEDULED", "PUBLISHED"}
Marks == {"read", "acknowledged"}
Task == [at: {"idle", "write", "resolve", "enqueue", "loop", "mark"},
         item: Announcements \cup {Never},
         batch: SUBSET Announcements,          \* rows the cycle has read
         target: States,                       \* state a request decided on
         key: EventKeys,
         todo: SUBSET Users,                   \* recipients still to enqueue
         mark: Marks \X Users \cup {<<>>}]
Idle == [at |-> "idle", item |-> Never, batch |-> {}, target |-> "NONE",
         key |-> StableKey, todo |-> {}, mark |-> <<>>]

(* A task about to enqueue the event with key k on announcement a; a cycle *)
(* goes on with the rest of its batch afterwards.                          *)
Notify(a, k, rest) ==
    [at |-> "resolve", item |-> a, batch |-> rest, target |-> "NONE",
     key |-> k, todo |-> {}, mark |-> <<>>]

TypeOK ==
    /\ now \in Times
    /\ state \in [Announcements -> States]
    /\ publishAt \in [Announcements -> Times \cup {Never}]
    /\ expiresAt \in [Announcements -> Times \cup {Never}]
    /\ audience \in [Announcements -> SUBSET Users]
    /\ jobs \subseteq EventKeys \X Announcements \X Users
    /\ marks \subseteq Marks \X Announcements \X Users
    /\ task \in [Workers -> Task]
    /\ \A w \in Workers : task[w].at = "idle" => task[w] = Idle
    /\ drawn \in 0..MaxPublications
    /\ byHand \in [Announcements -> Nat]
    /\ owed \in [Announcements -> SUBSET Users]
    /\ faults \in 0..MaxFaults

Init ==
    /\ now = 0
    /\ state = [a \in Announcements |-> "NONE"]
    /\ publishAt = [a \in Announcements |-> Never]
    /\ expiresAt = [a \in Announcements |-> Never]
    /\ audience \in [Announcements -> SUBSET Users]
    /\ jobs = {}
    /\ marks = {}
    /\ task = [w \in Workers |-> Idle]
    /\ drawn = 0
    /\ byHand = [a \in Announcements |-> 0]
    /\ owed = [a \in Announcements |-> {}]
    /\ faults = 0

(* publishAt is null or not in the future; a null expiresAt never passes.  *)
Due(a) == publishAt[a] = Never \/ publishAt[a] <= now
Expired(a) == expiresAt[a] # Never /\ expiresAt[a] <= now

(* What visibleWhere lets a user of the audience see.                      *)
Visible(a) == state[a] \in {"PUBLISHED", "SCHEDULED"} /\ Due(a) /\ ~Expired(a)

-----------------------------------------------------------------------------
(* createAnnouncement: SCHEDULED if its publication lies in the future.    *)
CreateAnnouncement(a, p, e) ==
    /\ state[a] = "NONE"
    /\ p # Never /\ e # Never => e > p
    /\ publishAt' = [publishAt EXCEPT ![a] = p]
    /\ expiresAt' = [expiresAt EXCEPT ![a] = e]
    /\ state' = [state EXCEPT ![a] = IF p > now THEN "SCHEDULED" ELSE "DRAFT"]
    /\ UNCHANGED <<now, audience, jobs, marks, task, history, faults>>

BeginPublish_ClockIgnored(r, a) ==
    /\ task[r].at = "idle"
    /\ state[a] # "NONE"
    /\ task' = [task EXCEPT ![r] =
                  [Idle EXCEPT !.at = "write", !.item = a, !.target = "PUBLISHED"]]
    /\ UNCHANGED <<now, content, audience, jobs, marks, history, faults>>

BeginPublish_BackToDraft(r, a) ==
    /\ task[r].at = "idle"
    /\ state[a] # "NONE"
    /\ task' = [task EXCEPT ![r] =
                  [Idle EXCEPT !.at = "write", !.item = a,
                               !.target = IF Due(a) THEN "PUBLISHED" ELSE "DRAFT"]]
    /\ UNCHANGED <<now, content, audience, jobs, marks, history, faults>>

(* publish, up to the decision: any state may be published, again and again*)
BeginPublish(r, a) ==
    /\ task[r].at = "idle"
    /\ state[a] # "NONE"
    /\ task' = [task EXCEPT ![r] =
                  [Idle EXCEPT !.at = "write", !.item = a,
                               !.target = IF Due(a) THEN "PUBLISHED" ELSE "SCHEDULED"]]
    /\ UNCHANGED <<now, content, audience, jobs, marks, history, faults>>

(* The unconditional update by id; a published state is announced with a   *)
(* fresh event id, whatever the state was before.                          *)
WriteState(r) ==
    LET a == task[r].item IN
    /\ task[r].at = "write"
    /\ state' = [state EXCEPT ![a] = task[r].target]
    /\ IF task[r].target = "PUBLISHED"
       THEN /\ drawn < MaxPublications
            /\ drawn' = drawn + 1
            /\ byHand' = [byHand EXCEPT ![a] = @ + 1]
            /\ owed' = [owed EXCEPT ![a] = audience[a]]
            /\ task' = [task EXCEPT ![r] = Notify(a, drawn', {})]
       ELSE /\ task' = [task EXCEPT ![r] = Idle]
            /\ UNCHANGED history
    /\ UNCHANGED <<now, publishAt, expiresAt, audience, jobs, marks, faults>>

-----------------------------------------------------------------------------
(* The worker cycle.  The clock is read with the rows.                     *)

BeginCycle(c) ==
    /\ task[c].at = "idle"
    /\ LET due == {a \in Announcements : state[a] = "SCHEDULED" /\ Due(a)} IN
       /\ due # {}
       /\ task' = [task EXCEPT ![c] = [Idle EXCEPT !.at = "loop", !.batch = due]]
    /\ UNCHANGED <<now, content, audience, jobs, marks, history, faults>>

Claim_Silent(c, a) ==
    /\ task[c].at = "loop" /\ a \in task[c].batch
    /\ state' = [state EXCEPT ![a] = "PUBLISHED"]
    /\ owed' = [owed EXCEPT ![a] = IF state[a] = "SCHEDULED" THEN audience[a] ELSE @]
    /\ task' = [task EXCEPT ![c].batch = @ \ {a}]
    /\ UNCHANGED <<now, publishAt, expiresAt, audience, jobs, marks, drawn, byHand, faults>>

Claim_FreshKey(c, a) ==
    /\ task[c].at = "loop" /\ a \in task[c].batch
    /\ state[a] = "SCHEDULED"
    /\ drawn < MaxPublications
    /\ drawn' = drawn + 1
    /\ state' = [state EXCEPT ![a] = "PUBLISHED"]
    /\ owed' = [owed EXCEPT ![a] = audience[a]]
    /\ task' = [task EXCEPT ![c] = Notify(a, drawn', task[c].batch \ {a})]
    /\ UNCHANGED <<now, publishAt, expiresAt, audience, jobs, marks, byHand, faults>>

(* updateMany where state is still SCHEDULED: one cycle of several wins,   *)
(* the others continue with their next row.                                *)
Claim(c, a) ==
    /\ task[c].at = "loop" /\ a \in task[c].batch
    /\ IF state[a] = "SCHEDULED"
       THEN /\ state' = [state EXCEPT ![a] = "PUBLISHED"]
            /\ owed' = [owed EXCEPT ![a] = audience[a]]
            /\ task' = [task EXCEPT ![c] = Notify(a, StableKey, task[c].batch \ {a})]
       ELSE /\ task' = [task EXCEPT ![c].batch = @ \ {a}]
            /\ UNCHANGED <<state, owed>>
    /\ UNCHANGED <<now, publishAt, expiresAt, audience, jobs, marks, drawn, byHand, faults>>

EndCycle(c) ==
    /\ task[c].at = "loop" /\ task[c].batch = {}
    /\ task' = [task EXCEPT ![c] = Idle]
    /\ UNCHANGED <<now, content, audience, jobs, marks, history, faults>>

-----------------------------------------------------------------------------
(* enqueueEvent, called by both: resolve the recipients, then one upsert   *)
(* per recipient, in no order.                                             *)

Resolve(w) ==
    /\ task[w].at = "resolve"
    /\ task' = [task EXCEPT ![w] = [@ EXCEPT !.at = "enqueue", !.todo = audience[task[w].item]]]
    /\ UNCHANGED <<now, content, audience, jobs, marks, history, faults>>

Upsert(w, u) ==
    /\ task[w].at = "enqueue" /\ u \in task[w].todo
    /\ jobs' = jobs \cup {<<task[w].key, task[w].item, u>>}
    /\ task' = [task EXCEPT ![w].todo = @ \ {u}]
    /\ UNCHANGED <<now, content, audience, marks, history, faults>>

EndEnqueue(w) ==
    /\ task[w].at = "enqueue" /\ task[w].todo = {}
    /\ task' = [task EXCEPT ![w] = IF w \in Cycles
                                   THEN [Idle EXCEPT !.at = "loop", !.batch = task[w].batch]
                                   ELSE Idle]
    /\ UNCHANGED <<now, content, audience, jobs, marks, history, faults>>

(* A statement throws or the process dies: the rest of the request, or of  *)
(* the cycle, never happens.                                               *)
Die(w) ==
    /\ task[w].at # "idle"
    /\ faults < MaxFaults
    /\ faults' = faults + 1
    /\ task' = [task EXCEPT ![w] = Idle]
    /\ UNCHANGED <<now, content, audience, jobs, marks, history>>

-----------------------------------------------------------------------------
(* markRead and acknowledge: check visibility, then upsert.                *)

BeginMark(r, u, a, kind) ==
    /\ task[r].at = "idle"
    /\ u \in audience[a] /\ Visible(a)
    /\ task' = [task EXCEPT ![r] = [Idle EXCEPT !.at = "mark", !.item = a,
                                                !.mark = <<kind, u>>]]
    /\ UNCHANGED <<now, content, audience, jobs, marks, history, faults>>

EndMark(r) ==
    /\ task[r].at = "mark"
    /\ marks' = marks \cup {<<task[r].mark[1], task[r].item, task[r].mark[2]>>}
    /\ task' = [task EXCEPT ![r] = Idle]
    /\ UNCHANGED <<now, content, audience, jobs, history, faults>>

-----------------------------------------------------------------------------
(* Enrolments, links and memberships change under all of it.               *)

JoinAudience(a, u) ==
    /\ u \notin audience[a]
    /\ audience' = [audience EXCEPT ![a] = @ \cup {u}]
    /\ UNCHANGED <<now, content, jobs, marks, task, history, faults>>

LeaveAudience(a, u) ==
    /\ u \in audience[a]
    /\ audience' = [audience EXCEPT ![a] = @ \ {u}]
    /\ owed' = [owed EXCEPT ![a] = @ \ {u}]
    /\ UNCHANGED <<now, content, jobs, marks, task, drawn, byHand, faults>>

Tick ==
    /\ now < MaxTime
    /\ now' = now + 1
    /\ UNCHANGED <<content, audience, jobs, marks, task, history, faults>>

CycleStep(c) ==
    \/ BeginCycle(c) \/ EndCycle(c)
    \/ \E a \in Announcements : Claim(c, a)
    \/ Resolve(c) \/ EndEnqueue(c)
    \/ \E u \in Users : Upsert(c, u)

RequestStep(r) ==
    \/ WriteState(r) \/ Resolve(r) \/ EndEnqueue(r) \/ EndMark(r)
    \/ \E u \in Users : Upsert(r, u)

Next ==
    \/ \E a \in Announcements, p, e \in Times \cup {Never} : CreateAnnouncement(a, p, e)
    \/ \E r \in Requests, a \in Announcements : BeginPublish(r, a)
    \/ \E r \in Requests, a \in Announcements, u \in Users, kind \in Marks :
          BeginMark(r, u, a, kind)
    \/ \E r \in Requests : RequestStep(r)
    \/ \E c \in Cycles : CycleStep(c)
    \/ \E w \in Workers : Die(w)
    \/ \E a \in Announcements, u \in Users : JoinAudience(a, u) \/ LeaveAudience(a, u)
    \/ Tick

Spec == Init /\ [][Next]_vars

(* The timer keeps starting cycles and a cycle or request that has begun   *)
(* goes on; nothing is assumed of users, of the clock or of enrolments.    *)
FairSpec ==
    /\ Spec
    /\ \A c \in Cycles : WF_vars(CycleStep(c))
    /\ \A r \in Requests : WF_vars(RequestStep(r))

-----------------------------------------------------------------------------
(* Properties.                                                             *)

(* Nobody is notified of, reads or acknowledges an announcement that is    *)
(* still a draft or whose publication time has not come, whichever of the  *)
(* author and the worker publishes it (publish, publishScheduled-          *)
(* Announcements, visibleWhere).                                           *)
NothingEarly ==
    /\ \A j \in jobs : Due(j[2]) /\ state[j[2]] \in {"SCHEDULED", "PUBLISHED"}
    /\ \A x \in marks : Due(x[2]) /\ state[x[2]] \in {"SCHEDULED", "PUBLISHED"}

Notices(a, u) == Cardinality({k \in EventKeys : <<k, a, u>> \in jobs})

WorkedOn(a) == \E w \in Workers : task[w].item = a \/ a \in task[w].batch

(* Once nobody works on a published announcement, everyone addressed since *)
(* its publication has a job: state and notification stay together         *)
(* (docs/announcements-calendar.md: "atomically").                         *)
PublishedAtomically ==
    \A a \in Announcements : ~WorkedOn(a) =>
        \A u \in owed[a] : Notices(a, u) > 0

(* A user gets at most one notice per publication by hand and one from the *)
(* worker, even when a slow publication by hand sets a published announce- *)
(* ment back to SCHEDULED and the worker publishes it again; and unless a  *)
(* worker died, overlapping cycles, publications by hand and moving        *)
(* audiences never leave anyone out.                                       *)
NoticeBudget ==
    /\ \A a \in Announcements, u \in Users : Notices(a, u) <= byHand[a] + 1
    /\ faults = 0 => PublishedAtomically

(* A scheduled announcement whose time has come is published in the end,   *)
(* whatever cycles die on the way (publishScheduledAnnouncements).         *)
DueIsPublished ==
    \A a \in Announcements :
        (state[a] = "SCHEDULED" /\ Due(a)) ~> (state[a] = "PUBLISHED")
=============================================================================
