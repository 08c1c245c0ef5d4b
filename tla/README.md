# Verification of Pinkora EduKonekta

TLA+ models of the EduKonekta API (`src/apps/api/src`, written `api/` below) and its web client
(`src/apps/web`, written `web/`), the TLC runs that check them, and TLAPS proofs of the properties that
matter most. The code is the reference: where a document disagrees with it, the model follows the code and a
run shows the disagreement.

1. [The system](#1-the-system)
2. [Modules](#2-modules-and-the-code-they-model)
3. [Runs, bounds and findings](#3-runs-bounds-and-findings)
4. [Fairness](#4-fairness)
5. [Proofs](#5-proofs)
6. [What is assumed, and what is left out](#6-what-is-assumed-and-what-is-left-out)
7. [Plan](#7-plan)

## 1. The system

A NestJS application over PostgreSQL (through Prisma) serves a Next.js web client. Every HTTP
handler is an `async` function: it reads, checks, writes, writes an audit record and publishes a
domain event, each in a statement of its own. There is no outbox, and hardly any handler uses
`$transaction`. So handlers interleave at every `await`, with each other and with the notification
worker, whose timer runs in every API process; and a process that dies leaves whatever was written
so far. Rows are read early and used late. This is where nearly all of the hazards come from.

| Component (code) | State | Operations | Interacts with | What is hard | What makes it correct |
|---|---|---|---|---|---|
| Notification queue (`api/notifications`) | `NotificationJob`, `Notification`, preferences | enqueue, delivery cycle, preferences | event publisher; memberships; e-mail provider | overlapping cycles write counts read earlier; lost answers | every job settles within its attempts; DELIVERED is true; nothing to people who left |
| Announcements (`api/communications`, worker) | state, publication and expiry time, reads, acknowledgements | create, publish, scheduled publication, mark read, acknowledge | queue; enrolments | publication by hand against the worker; crash between state and notices | nothing early; nobody missed; due means published |
| Calendar and reminders (`api/communications`, worker) | `CalendarEvent`, day-keyed jobs | create event, three reminder scans | queue; audiences | windows across days; audiences that move | one reminder per user, item and day |
| Attachments (`api/assignments`) | key, name, type, size in the row; file on disk | upload, replace, delete, download | private file store | no shared transaction; the old key is read early | a row never dangles; a download is whole |
| Assignments and submissions (`api/assignments`) | state, due date, class; submission, feedback | create, update, publish, archive, submit, feedback | queue; enrolments; reminder scan | state checked long before the write; audience resolved last | submitted only when offered; news and reminders are true and reach |
| Attendance (`api/attendance`) | one record per student and day; correction rows | daily sheet, correct | queue (absences); parent links | two sheets at once; corrections from stale reads; loop of notices | a sheet is whole; states explained; absences told |
| Evaluations (`api/evaluations`) | note, history rows, acknowledgements | create, update, acknowledge | queue; parent links | history taken from a stale read; visibility changes under a reader | internal stays internal; edits leave history |
| Guidance cases (`api/guidance`) | status, closing date, assignments, notes | create, view, update, note, assign, export | safety reports; safeguarding access | permission, status and write are separate statements | elevated work by the elevated; closed stays closed; audited |
| Messaging (`api/messaging`) | conversation state, messages, files | create, detail, send, archive, escalate, report, read | queue; file store; parent links | state overwritten blindly; file before row | files accounted for; an administrator only after escalation, audited |
| Safety reports (`api/safety`) | report, status updates, evidence (encrypted) | submit, intake, update, evidence | queue; safeguarding access | duplicate count before create; overlapping status updates | status agrees with its newest update; every disclosure audited |
| Accounts and sessions (`api/auth`, `api/schools`) | user status, invitations, tokens, sessions, memberships | invite, redeem, sign in and out, recover, reset, (de)activate, verify e-mail | every guard | claim races; sign-in across a reset; a reset in three statements | codes work once; resets and deactivations close old sessions |
| School structure (`api/structure`) | years, classes, subjects, profiles, enrolments, teachings, parent links | create and link | read by every audience rule | checks before creates; audit after; five hand-written audience rules | no row joins two schools or years; who is told may look |
| Dashboards, reports, settings (`api/dashboard`) | flags, school name, subscription | aggregates; three updates | all tables | little | |
| Rate limits (`api/auth`, `api/safety`) | counters per process | check, clear | sign-in, safety reports | where windows meet | a bound on attempts in every span |
| Roles (controllers, `api/auth/auth.guards.ts`) and navigation (`web/app/components`, `web/app/workspace`) | roles in the tab's storage, menu and page | open, follow, sign in and out | every route; `/auth/me` | three copies of the roles; a change of user | what is offered is allowed |
| Web client pages (`web/app`) | list, form, error, message | load, select, submit | API | several handlers in progress; answers out of order | "saved" is true; the list is what is stored; a sheet is of the class and day shown |
| Service worker (`web/public/sw.js`) | caches by version | install, activate, fetch | browser, network | failed installs, versions that meet, the browser closing | the start page is kept |

`PROJECT.json` lists every component with its status and the hazards with their lines.

## 2. Modules and the code they model

One definition models one statement of a handler (or one handler where nothing can come between its
statements that a property could see). Definitions keep the names of the source where they can. A
definition whose name ends in `_Something` and stands directly before the definition it resembles is a
plausible bug: put in its place, it makes the property it is listed with in `PROJECT.json` fail.

**`NotificationQueue`**: `process` of `notification-worker.service.ts`. `cycle[c]` is what a
delivery cycle holds in local variables: the batch, the attempt counts it read (`seen`), the allowed
channels and the stage it is at. Several cycles run at once because the timer waits for nobody and
every process has one. Every call may throw (`StepThrows`), an e-mail may be accepted and its answer lost
(`EmailAnswerLost`), a cycle may vanish (`Abort`). Two abstract specifications say what the queue
promises: `NotificationPromise` (ask, show, send, end of an attempt, final outcome), which one cycle at a time
implements, and the weaker `NotificationAttempts`, which any number of cycles do: what becomes of a job is
what the attempt that ended last made of it, but each attempt began while the job was open, nothing is shown
or sent outside one, and no ending is invented.

**`AttachmentStore`**: `replaceFile`, upload, delete and download of `assignments.service.ts` with
`assignment-file-store.ts`: save the file, point the row, remove the file read at the start. It
implements `AttachmentPromise`, which has neither keys nor rows: an item shows a file, an upload or a removal
changes it in one step or not at all, and a download gets the file shown when it began, or nothing of it
if that has been replaced and destroyed (`Visible` and `Tasks` say what of rows, files and requests these are).

**`Announcements`**: `publish`, `markRead`, `acknowledge` of `communications.service.ts` and
`publishScheduledAnnouncements` and `enqueueEvent` of the worker. Event keys are modelled (a fresh id
by hand, a stable one for the worker), since they decide which jobs coincide. The rules that compute an
audience are one set that moves.

**`SafeguardingAccess`** is the access a person has to safeguarding work, which the operator ends;
**`SafetyReports`** (`safety.service.ts`: submit, list, intake, update, evidence, with the transaction of
an update and the audit of each disclosure) and `GuidanceCases` read it, and **`Safeguarding`** puts
them side by side. **`CareOffice`** adds the notification queue.

**`GuidanceCases`**: `guidance.service.ts`. `Plan` gives, for each operation, the sequence of
database calls its handler awaits; a request walks through its plan, each check reading what is true
at that moment.

**`ParentLinks`**: the approved links (`linkParent` of `structure.service.ts`), shared by
**`Attendance`** (`recordDaily`, `correct`, absence events) and **`Evaluations`** (`create`, `update`,
`acknowledge`, and the worker's recipients, which read the note and the links again).

**`Messaging`**: one conversation of `messaging.service.ts`. `access` is the first step of every
operation (it marks messages read); what follows decides on the state read there (`saw`).

**`Coursework`**: one assignment of `assignments.service.ts` and the reminder scan of the worker.
Each change goes through write, audit (`File`) and `Announce`. The pupils of the class and their
parents are one set, `audience`, which enrolments, links and a move to another class change.
`Remember` collects, for every step, what the properties look back on.

**`StudentRecords`** puts `Attendance`, `Evaluations`, `Messaging` and `Coursework` side by side. They write
no table in common, so a behaviour follows one desk, and one run checks all of them without multiplying
their states.

**`Accounts`**: one person's account: `redeemInvitation` (one transaction), `login`, `authenticate`
and `logout`, `requestRecovery` and `resetPassword` (claim, password, revocation), `updateStatus`
(status, revocation), and `invite` of `schools.service.ts`. It implements `AccountPromise`, the account its
owner sees: a code is spent in the very step that has its effect, a token that is taken sets a password or is
wasted, a session opens only for a request admitted while the account was active, and a closed one stays closed.
`Fates` maps the codes: a claimed token without effect is "taken" while a request holds it, and "wasted" after.

**`SchoolStructure`**: the create handlers of `structure.service.ts`, each a check, a create and an
audit record, over rows named by clients of two schools; and the queries by which attendance,
assignments, announcements, the calendar and the worker find who belongs to a class (`Attends`,
`Teaches`, `ParentsOf`, `ClassIdsFor`, `Recipients`, `CalendarRecipients`), side by side.
**`Calendar`**: `createCalendarEvent` and the two reminder scans, item by item, over audiences that move
and days that pass. **`RateLimits`**: both limiters of one process, for one key; an attempt is its time
with a number, so that a window is a set of attempts and its length a cardinality. **`SchoolOffice`** puts
these and `AttachmentStore` side by side.

**`AttendancePage`**: `web/app/attendance/page.tsx`. A handler is an `async` function that keeps the
class and the date of the render it was called in (the record in `calls`), while other handlers run
and every answer writes the page. **`WebForms`**: the other pages that list rows and change them. What
a handler clears, sends, says, loads and catches is a record; the tables (`StructureHandlers` and so on)
have one for each handler of each page, and `LoadRefused` and `LoadLost` what the pages do about a
list that does not come. `event.currentTarget.reset()` after an `await` throws, since React has set
`currentTarget` to null by then; handlers that do it end with an error (`throws`).
**`WorkEditors`**: the texts written on the assignments page, whose editor serves every assignment.
**`ApiRoles`**: the roles of every route, as a set of pairs; **`Navigation`**: the roles that the menu, the
tasks and the buttons are shown for, with the three places in which a tab keeps roles and the ways the
session changes under it. **`ServiceWorker`**: versions of `sw.js` installed and activated over each other.
A cache is known by its name, with its entries and the caches opened before it (`after`), since an
unnamed match looks in the order of opening.
**`WebClient`** puts these five side by side, and **`Noticeboard`** the announcements and the web client.

`MC<Module>` adds symmetry sets and values of constants for TLC and nothing else; a counterexample that
needs neither runs the module itself. The theorems are in eight
modules: `NotificationQueueProofs`, `AttachmentStoreProofs`, `AnnouncementsProofs`, `AccountsProofs`,
`StudentRecordsProofs`, `SafeguardingProofs`, `SchoolOfficeProofs` and `WebClientProofs`; those named after
a composition hold the proofs of its parts, and then that of the whole.

## 3. Runs, bounds and findings

All runs use deadlock checking off: requests, faults and changes are bounded, so a run may stop when
they are spent, and in the program an idle server waits for a request.

| Run | Question | Bounds | Checked |
|---|---|---|---|
| `queue_overlap` | Can overlapping cycles over- or under-deliver? | one job, two cycles, MAX_ATTEMPTS 3, one crash, one change of the recipient | `NeverGivenUpEarly DeliveredIsTrue NothingAfterLeaving`, `EventuallySettled`, `AttemptsKept` (refinement of `NotificationAttempts`) |
| `announce_overlap` | Two worker cycles, a publication by hand, readers, a moving audience, one fault; or a browser | one announcement and user, two instants, two publications by hand; three handlers of a page (its first load is one), two classes and days; three saves, two texts, two assignments; two sessions of seven kinds of user; three versions, three installs, one shutdown | `NothingEarly NoticeBudget`, `DueIsPublished`; `SheetIsOfChoice SaysWhatIsSaved TextStaysWithItsRow OfferedIsAllowed ShellKept` |
| `guidance_overlap` | Two requests on one case while assignments and access change; or requests on safety reports. Or: without overlap, is the queue what it promises? | two members of staff, four requests in all, one note, one fault; two reports of one person; two jobs in one batch, one cycle, 2 attempts | `ElevatedWork CaseIsAudited ClosedIsKept`, `ClosedCasesRest` (of steps); `StatusExplained DisclosureAudited`; `PromiseKept` (refinement of `NotificationPromise`) |
| `records_overlap` | Attendance, evaluations, messaging and coursework, each with overlapping requests | two requests at a time; three sheets or corrections, two edits, three messaging or three coursework requests; one fault each; one change of the class or one night | `TypeOK`, `StatesExplained AbsenceIsNotified`, `EditsHaveHistory InternalStaysInternal`, `FilesOfMessages ConversationAudited`, `SubmittedWhenOffered NoticesOfWork` |
| `accounts_overlap` | Redemptions, resets, sign-ins and status changes of one account | three requests at a time, five in all, two invitations, two tokens, one failure | `CodesWorkOnce InvitationIsWhole ResetCloses DeactivationCloses` |
| `school_overlap` | Do uploads, deletions, downloads and failures keep row and file together? Or: can two administrators break a school? Who is told, and reminded? How many attempts pass? | three requests, two contents, two keys, one fault; two schools, two people with two memberships, four tasks; one event, one follow-up, two scans at a time, two days; limit 2, span 3, seven instants | `NoDangling DownloadIsWhole FilesAccountedFor`; `StructureSound NotifiedMaySee`; `EveryoneReminded`; `AttemptsBounded` |

Why these bounds are enough to be interesting. A stale read needs two actors: one between its read and
its write, one that writes meanwhile; a third lets a reader watch them, which `school_overlap` and
`accounts_overlap` have. Two cycles and three attempts are the least with which counts can be lost and
restored to PENDING. One fault suffices for a partial failure, since properties conditional on "no
failure" are checked in the same run in the behaviours that have none. A case is created, changed, closed
and reopened by four requests. Three messaging requests allow create, escalate and an administrator's look,
or two sends around an archive; three coursework requests create, publish and submit, or archive while a
submission is under way. What is owed to an audience ends when the assignment is archived: `NoticesOfWork` asks
for no notice of work that is hidden from it. One announcement, note or conversation at a time is
no loss: no handler reads another row of the same kind. Two schools and a person with a membership in
each are what a row needs to join what it must not; four tasks create a class, its pupil, a teaching and
a link at once. Two days hold both reminder windows and a move of the audience between them. Three
seconds of window in seven allow two windows that meet and one after them. A page with three handlers
has one in progress at the opening, one overlapping it, and one begun after both. Three versions of
the service worker are needed for one to be installed while the next is activated.

Six runs are counterexamples: they check one sentence of the documentation and TLC shows how the code
departs from it.

| Run | Property | What happens |
|---|---|---|
| `attach_orphan` | `PriorRemoved` (`docs/assignments-submissions.md:15`) | two uploads read the same prior key; the file of the first is never removed, with no fault at all |
| `announce_crash` | `PublishedAtomically` (`docs/announcements-calendar.md:9`) | the worker sets PUBLISHED and dies before enqueuing; no later cycle looks at a published row, so nobody is told |
| `guidance_reopen` | `ReopenedByElevated` (`docs/guidance-case-management.md:3`) | an update that read an open case overwrites the CLOSED another wrote meanwhile: reopened with no elevated assignment; what the code does keep is `ClosedCasesRest` |
| `records_history` | `PreviousIsKept` (`docs/evaluations.md:21`) | two edits both put the note they read into the history; the version between them is in no row |
| `message_notice` | `MessageIsNotified` (`docs/messaging.md:7`) | `send` publishes the message's id as aggregate, the worker looks for a conversation with that id: nobody is ever notified |
| `signin_burst` | `SignInsLimited` (`docs/security.md:11`) | attempts at the end of one fixed window and at the beginning of the next: with the limit of five, nine in a span of fifteen minutes; what the code does keep is `AttemptsBounded` |

### Other defects met while modelling

Except for the first, we found no document that contradicts these, and no run shows them. They are part of the models
unless said otherwise, and where a property has to excuse one, its history variable is named.

* `assignments.service.ts:121`: creating a draft publishes `assignment.created`, which the worker sends to every pupil
  and parent of the class ("A new assignment is available"), while `docs/assignments-submissions.md:3` says "Draft and
  archived assignments are hidden from students and parents". One request does it alone, so there is nothing
  to explore; `Coursework` has the step (`Announced`), and `NoticesOfWork` does not ask for that notice.
* `structure-manager.tsx:95` and the create handlers of `communications/page.tsx` call
  `event.currentTarget.reset()` after an `await`. It throws: an error is shown for what was saved, the list
  is not loaded, and the code of an invitation, shown nowhere else, is never shown.
* `assignments/page.tsx:148` shows the recorded response but submits what was typed on this page; pressing
  the button without typing replaces the response by nothing (the history variable `blind`).
* `assignments/page.tsx:186`: when an assignment is saved and its file is not, the page keeps the draft as a
  new one, and saving again makes a second assignment (not modelled).
* A list that is refused is shown as an empty list on the progress, safety and communications pages
  (`LoadRefused`); the messages page never takes an error away.
* The menu's roles come back into the tab's storage when the answer of `/auth/me` arrives during sign-out
  (`workspace-nav.tsx:82`); the next user's menu starts from them.
* `sw.js:22`: a version that activates deletes the cache of a newer version being installed.
* The workspace page offers attendance to school administrators, and the attendance page and `GET
  /structure/classes` have nothing for them.
* `structure.service.ts:234` lists pupils with ended enrolments, `recordDaily` accepts active ones: once a
  pupil has left, the page can save no sheet of the class (not modelled).
* `teacherClasses` offers the subjects of other teachers, and the messages page the teachers of every child
  of a parent; the services refuse them (not modelled).
* `messaging.service.ts:118` reads the first hundred messages; later ones are never shown (not modelled).
* `assignments/page.tsx:175,501`: a due date that is edited moves by the offset from UTC (not modelled).
* When the answer to a committed update of an attachment's row is lost, the file the row names is removed
  (`assignments.service.ts:379`; not modelled).
* A reset makes a deactivated account active again (`auth.service.ts:272`).
* `guidance.service.ts:108`: the last elevated assignee can be demoted; nobody can assign, export or reopen
  the case then.

## 4. Fairness

Safety needs none. `NotificationQueue` assumes weak fairness of each cycle's steps and of the passing
of a back-off: the timer starts a cycle every minute for as long as a process lives, an awaited call
returns or throws, and clocks run. Nothing is assumed of producers, recipients or the provider, and
aborts are bounded, which is the assumption that processes do not crash for ever. `Announcements`
assumes weak fairness of cycle steps, for the same reason, and of requests in progress. `BoardSpec` takes
over exactly that for the part of its behaviours that are the server's; nothing is assumed of browsers, users
or networks, which may stop at any point. No liveness is
claimed where the code has no retry: audits and announcements after a failed statement are never
caught up, so those properties are conditional on no failure. `EveryoneReminded` is a safety property for
the same reason: it says what a scan that came to its end has left behind.

## 5. Proofs

TLAPS proves the following for every value of the constants (the bounds included, which only need to
be naturals, as the named `ASSUME`s of each module say; TLC evaluates those in every run).

Every invariant, property of steps and refinement that a passing run checks is stated by a theorem; theorems about compositions
(`NoticeboardHolds`, `CasesHold`, `RecordsKeepTheirPromises`, `OfficeFilesHold` and those stated of `OfficeSpec`,
`SafeguardingSpec` or `WebSpec`) are about those the runs use or put side by side. The argument is always the
same: the property is not inductive, since a request acts on what it read long ago; an invariant says what each
stage of a request has already secured, or still owes, and every action is shown to keep it.

* **`NotificationQueueProofs`**: `TypeCorrect`, `RetryBudgetHolds`, `NeverGivenUpEarlyHolds`,
  `DeliveredIsTrueHolds`, `NothingAfterLeavingHolds`, for any number of jobs and overlapping cycles.
  `RetryBudget` is not inductive: a cycle may write a count it read long ago. `CountInv` adds `Budget` (what
  a cycle has seen of a job is below the limit) and `Tally` (a count, in a row or in a cycle's hands, is at
  most the failures that really happened). `DeliveryInv` says what each stage of a cycle has already
  secured, `LeaverInv` which stages an outsider's job can be at. `PromiseKeptHolds` is the refinement of
  `NotificationPromise`: under `OneCycle`, which says that there is one delivery cycle, what the cycle has read
  of a job is what the row still says (`Current`), so each of its writes is the next attempt of an open job
  and every other step a stutter. With two cycles it is false, which is why the theorem has the hypothesis and
  the run `guidance_overlap` one cycle. `AttemptsKeptHolds` is what overlap leaves of it, with no hypothesis: the queue
  implements `NotificationAttempts`. `CountInv` bounds the number an attempt may claim by the failures there
  have been, and `DeliveryInv` (`DeliveryAlways`) shows that an attempt that ends as delivered has served or
  waived both channels; the jobs a cycle holds are in both specifications the same.
* **`AttachmentStoreProofs`**: `NoDanglingHolds`, `DownloadIsWholeHolds`, `FilesAccountedForHolds`,
  `TypeCorrect`. The invariant `IInv` needs `Private` (a key a request has drawn and not published is named by
  no row and held by no other), `Priors` (a key a request may still remove is in no row but the one it was read
  from, and in none once the request has overwritten that row), `DrawnOnly`, `Described` and `Distinct`;
  `Tended` says of every file that a row names it, a request will remove it, or it is counted as leaked.
  `SlotsAreWholeHolds` is the refinement of `AttachmentPromise`. By `IInv` a row's file is on the disk with the
  content the row describes, so what an item shows is a function of its row alone (`VisibleIs`). The update of
  the row is then the step in which an upload or a removal takes effect (`UploadsFile`, `RemovesFile`), the
  removal of a file the one that spoils the downloads which wait for it (`DestroysFile`), and every other step
  begins a task, gives one up or is a stutter (`BeginsTask`, `QuietStep`).
* **`AnnouncementsProofs`**: `TypeCorrect`, `NothingEarlyHolds`, with `Founded`: a request or cycle that
  is about to notify or mark stands on an announcement that is published, or scheduled and due; and
  `NoticeBudgetHolds`, where `Assigns` gives every fresh event key to one announcement, so that the keys of an
  announcement are as many as its publications by hand, and `Addressed` and `Reaching` say that whoever is
  owed a notice has one or is ahead of a task that will give it.
* **`AccountsProofs`**: `TypeCorrect`; `CodesWorkOnceHolds`, by `ClaimsAreExclusive` (a claimed token
  without effect is in the hands of exactly one request); `InvitationIsWholeHolds`, which is inductive by
  itself because redemption is one transaction; `ResetClosesHolds` and `DeactivationClosesHolds`, by
  `RevocationComes`: without failures, either every open session is younger than the last reset and
  deactivation, or the request that will revoke them all is on its way. `CodesAreOneShotHolds` is the
  refinement of `AccountPromise`: `ClaimsAreExclusive` makes the effect of a claimed token the step that spends it,
  and the death of its only holder the step that wastes it; `StatusKnown` says that a change of status on its
  way is of an account that exists. The refinement needs no absence of failures.
* **`StudentRecordsProofs`**, one invariant for each desk.
  Attendance (`StatesExplainedHolds`, `AbsenceIsNotifiedHolds`): `Traced` (the state of a record is the one its
  newest sheet or correction gave), `Carried` (what a request holds), `Logged` and `Told` (who has been told of an
  absence, or will be by the loop still running).
  Evaluations (`InternalStaysInternalHolds`, `EditsHaveHistoryHolds`): `EvFound` says what each request has
  found of the note's past, `EvRows` that a history row is a value the note had, and `EvCounted` balances
  versions against audit records, those missing being in the hands of a request.
  Messaging (`FilesOfMessagesHolds`, `ConversationAuditedHolds`): `Opened` (the conversation begins with one request
  of the parent's), `MsgTalks` (where a request can be and what it holds there), `Filed` (a file belongs to one
  message or to one request), `Admitted` (an administrator is shown the conversation after an escalation and an
  audit record) and `Logging` (the record of each change is written or in a request's hands).
  Coursework (`SubmittedWhenOfferedHolds`, `NoticesOfWorkHolds`): `Attended` ties the histories to the present,
  `CwTasks` says what a request may rely on, `HandedIn` that who handed in was offered the work, `Filings` and
  `Owing` that audit records and news not written yet (those owed to an audience of published work) are in the hands of a request, `Reminding` what the scan
  has found.
  `DesksInv` joins the four: `TypeOKHolds` and `RecordsKeepTheirPromises` are about the whole of `StudentRecords`.
* **`SafeguardingProofs`**. Guidance (`ElevatedWorkHolds`, `CaseIsAuditedHolds`, `ClosedIsKeptHolds`): what is left
  of a plan is one of its suffixes (`Suffixes`), `Call` names the call at each length, and `EachWalks` shows that
  a plan is walked through in that order; from there on only the number of calls left matters. `Elevation`
  says that a request past its elevated check, and whoever is elevated, has been; `Closing` that a case
  closed when a request in `shut` began is closed still, so that no check lets an update or note of that
  request pass. `ClosedCasesRestHolds` is about steps: a case leaves CLOSED only by a reopening of somebody who has
  been elevated, or by an update begun before it was closed (which the run `guidance_reopen` shows to happen), and
  notes are late in the same way only. Safety reports (`StatusExplainedHolds`, `DisclosureAuditedHolds`): `Knowing` and `Apart` say what
  requests know at each call and that no two of them commit the same update, `Trailed` that a report's status is that
  of its newest update, and `Room`, `Seen`, `Changed` and `Told` balance rows, disclosures, updates and notices
  against audits and what is under way. `Existing` says that a case exists once somebody
  has been elevated on it. `SafeguardingTypesHold` and `CasesHold` are about both together, and lemmas say that
  each sees of the other only faults and withdrawn access.
* **`SchoolOfficeProofs`**: `StructureSoundHolds` and `NotifiedMaySeeHolds` by `StrInv` (a task past its check has
  rows of one school in its hands; rows do not change, so what was checked stays true);
  `EveryoneRemindedHolds` by `CalInv`, where `Cycles` says whom a scan has still to remind; `AttemptsBoundedHolds`
  by `LimInv`: `Fixed` says that the window counts every attempt since its first, and that what a span may share with
  the window before leaves out the first attempt of that one, hence `2 * Limit - 1`, which is more than the document's limit (`signin_burst`); `Sliding` that no
  submission that still counts is forgotten. `OfficeFilesHold` restates the theorems
  about attachments for the composition. `OfficeInv` joins them.
* **`WebClientProofs`**, one invariant for each part.
  Attendance page (`SheetIsOfChoiceHolds`): `Loads` (a load holds nothing but what is of the class and day it asked
  for), `Whole` (the page's rows and entries are of one class and day), `NoneChosen` (a handler that asks for no class
  can only fail) and `Alone` (without overlap the one handler in progress, or the page, follows what is chosen).
  Forms (`SaysWhatIsSavedHolds`): `FormTable` goes through every handler of every page; `Said` ties the
  message to a submission whose requests were all accepted, and `LastOne` ties the list and the error to the last one.
  Navigation (`OfferedIsAllowedHolds`): `NavKnown` says what each place that remembers roles may remember of
  a session, `NavPlace` by which links a page is reached, `NavGone` that a menu does not outlive a sign-out; lemmas
  compare the tables of routes and of pages role by role.
  Editors (`TextStaysWithItsRowHolds`): `Paired` says that the editor and every save on its way hold a text begun
  from the row they name; `InOrder` that without overlap one submission is on its way and, unless one
  was blind, none is older than what is recorded.
  Service worker (`ShellKeptHolds`): `Aged` (of two caches one is older), `Installs` and `Activates` (what a version
  has put into its cache, which only the activation of another deletes).
  `ClientInv` joins the five, and `NoticeboardHolds` adds the announcements: the server and the client
  share no state.

Type correctness is proved, and checked again only by `records_overlap`, where a request refused too late would
break it. `RetryBudgetHolds` is proved too, and follows from what `queue_overlap` checks as `AttemptsKept`. The
refinements `SlotsAreWhole` and `CodesAreOneShot` are proved and in no run: TLC finds them true on the instances of
`school_overlap` and `accounts_overlap`, at a cost in time that the proofs make unnecessary.

Assumptions: the named `ASSUME`s of the modules (bounds are naturals, limits positive, values that mark "none"
are no members of the sets they join) and `OneCycle` in the one theorem that names it. Histories and bounds of the
model appear in the statements only where the runs have them too.

Only model-checked: the liveness properties `EventuallySettled` and `DueIsPublished`, since neither weak
fairness (through ENABLED) nor leads-to arguments are within the prover's reach; and the six counterexamples.

## 6. What is assumed, and what is left out

* A Prisma call is one atomic statement that throws without effect or takes effect; a `$transaction`
  is atomic. A lost answer to a committed statement is modelled only for e-mail; for the attachment
  row it is listed above.
* One school: every statement carries the `schoolId` of the session, so schools share no rows. The
  exception is `SchoolStructure`, where nothing but the checks keeps a row inside a school; it has two.
* Guards (`AuthGuard`, `RolesGuard`, `TenantGuard`) are preconditions: an action is taken by an actor
  the guard lets through. The tables of `ApiRoles` say whom `RolesGuard` lets through.
* A recipient or audience rule is a set where it is one query whose inputs others may change, and is
  modelled by its queries where it makes several (`Evaluations`) or where several rules must agree
  (`SchoolStructure`).
* In the web client, React sets state at once and a handler keeps the values of its render; a request may be
  answered, refused or lost, in any order.
* Wording, sanitising, encryption, hashing, signing, cookies, session expiry, pagination and read-only
  views are left out.
* Operator actions (ending a membership, a link or an enrolment, deactivating safeguarding access) have no
  endpoint in the API; they are included as external steps because every recheck in the code is there
  for them.
* LATE and EXCUSED attendance behave as PRESENT in the code and are one value.

Not modelled:

* The aggregates of `api/dashboard` are read-only, and its three updates are single statements followed by
  an audit, which `SchoolStructure` already has in the same form.
* HTTP headers and the exception filter have no state. Repositories pass a `schoolId` through and are part
  of each statement that uses them.
* Health, logging, configuration, schema, seed, scripts and deployment have no behaviour of their own; the
  unique keys of the schema are in the modules whose tables carry them.
* In the web client: the forms for redeeming invitations and recovering passwords (one request, no list),
  file downloads, local filters, and the pages no route renders (`LegacyAdminDashboardPage`,
  `LegacyStructureAdminPage`).

## 7. Plan

Done: every part of the API that changes state except settings; the web client's pages, navigation and
service worker; a theorem for every safety property of the passing runs; four abstract specifications (two of the
queue, one of the attachment store, one of the account) and the proofs that the models of the code implement them.

What could follow, in this order:

1. Abstract specifications of the remaining components, as `AttachmentPromise` is for files: a register of
   attendance in which a sheet, a correction and the notices they owe are one step each, and a notice board on
   which an announcement and the jobs it owes appear together (which holds only while no cycle dies).
2. More properties of steps, as `ClosedCasesRest` is for cases, in place of invariants over histories: an edit
   of an acknowledged note, a submission after the due date.

Settings could join `SchoolOffice` as one more desk if its updates ever grow beyond one statement.
