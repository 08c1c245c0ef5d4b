--------------------------- MODULE GuidanceCases ---------------------------
(***************************************************************************)
(* Guidance cases (guidance.service.ts): who may see, change, note, assign *)
(* and export a case, and how it is closed and reopened.                   *)
(*                                                                         *)
(* A request is the sequence of the database calls its handler awaits.     *)
(* Every check is such a call, so what it saw may be past when the write   *)
(* comes: other requests run in between, access is withdrawn, and the      *)
(* process may die before the audit record that follows a change.          *)
(***************************************************************************)
EXTENDS SafeguardingAccess, Integers, Sequences, FiniteSets

CONSTANTS
    Cases,      \* safety reports a case may be made of, one case each
    MaxNotes,   \* bound: notes on a case
    MaxBegun    \* bound: requests begun

ASSUME GuidanceBounds == MaxNotes \in Nat /\ MaxBegun \in Nat

VARIABLES
    status,     \* of each case; "NONE" before it is created
    closedAt,   \* whether closedAt is set
    role,       \* assignment of each member of staff to each case
    notes,      \* number of notes on each case
    request,
    begun,      \* requests begun so far
    everElevated, \* history: who has been elevated on which case
    shut,       \* history: requests whose case was closed when they began
                \* and has not been reopened since
    silent      \* history: what has happened without its audit record

case == <<status, closedAt, role, notes, everElevated, shut>>
caseVars == <<case, request, begun, silent>>
vars == <<caseVars, accessVars>>

Statuses == {"OPEN", "IN_PROGRESS", "CLOSED"}
Unchanged == "unchanged"          \* an update without a status
Operations == {"create", "view", "update", "note", "assign", "export"}

(* An input: the status of an update, or the assignee and the level given. *)
Inputs(op) ==
    CASE op = "update" -> Statuses \cup {Unchanged}
      [] op = "assign" -> [to : Staff, level : {"plain", "elevated"}]
      [] OTHER -> {Unchanged}

(* The calls each handler awaits, in order; export begins with detail.     *)
Plan_ReturnFirst(op, input) ==
    CASE op = "create" -> <<"auth", "write", "audit">>
      [] op = "view"   -> <<"auth", "case", "return", "audit">>
      [] op = "update" -> <<"auth", IF input = "OPEN" THEN "elevated" ELSE "case",
                            "write", "audit">>
      [] op = "note"   -> <<"auth", "case", "write", "audit">>
      [] op = "assign" -> <<"auth", "elevated", "auth", "member", "write", "audit">>
      [] op = "export" -> <<"auth", "case", "viewed", "auth", "elevated", "return", "audit">>

Plan_AuditForgotten(op, input) ==
    CASE op = "create" -> <<"auth", "write", "audit">>
      [] op = "view"   -> <<"auth", "case", "audit", "return">>
      [] op = "update" -> <<"auth", IF input = "OPEN" THEN "elevated" ELSE "case",
                            "write", "audit">>
      [] op = "note"   -> <<"auth", "case", "write">>
      [] op = "assign" -> <<"auth", "elevated", "auth", "member", "write", "audit">>
      [] op = "export" -> <<"auth", "case", "viewed", "auth", "elevated", "audit", "return">>

Plan(op, input) ==
    CASE op = "create" -> <<"auth", "write", "audit">>
      [] op = "view"   -> <<"auth", "case", "audit", "return">>
      [] op = "update" -> <<"auth", IF input = "OPEN" THEN "elevated" ELSE "case",
                            "write", "audit">>
      [] op = "note"   -> <<"auth", "case", "write", "audit">>
      [] op = "assign" -> <<"auth", "elevated", "auth", "member", "write", "audit">>
      [] op = "export" -> <<"auth", "case", "viewed", "auth", "elevated", "audit", "return">>

Idle == [op |-> "none", case |-> "none", staff |-> "none", input |-> Unchanged,
         todo |-> <<>>, done |-> {}]

Busy(r) == request[r].todo # <<>>
At(r, call) == Busy(r) /\ Head(request[r].todo) = call

(* The request is over having done these things: was it silent about one?  *)
Unrecorded(done) ==
    IF "audited" \in done THEN {} ELSE done \cap {"written", "returned"}

End(r, done) ==
    /\ request' = [request EXCEPT ![r] = Idle]
    /\ silent' = silent \cup Unrecorded(done)
    /\ UNCHANGED begun

Refuse(r) == End(r, request[r].done)

(* The next call of the plan, after a call that did deed. *)
Continue(r, deed) ==
    LET done == request[r].done \cup deed IN
    IF Len(request[r].todo) = 1 THEN End(r, done)
    ELSE /\ request' = [request EXCEPT ![r].todo = Tail(@), ![r].done = done]
         /\ silent' = IF deed = {"returned"} THEN silent \cup Unrecorded(done) ELSE silent
         /\ UNCHANGED begun

Init ==
    /\ status = [c \in Cases |-> "NONE"]
    /\ closedAt = [c \in Cases |-> FALSE]
    /\ role = [c \in Cases |-> [s \in Staff |-> "none"]]
    /\ AccessInit
    /\ notes = [c \in Cases |-> 0]
    /\ request = [r \in Requests |-> Idle] /\ begun = 0
    /\ everElevated = {} /\ shut = {} /\ silent = {}

Begin(r, s, c, op, input) ==
    /\ ~Busy(r)
    /\ begun < MaxBegun /\ begun' = begun + 1
    /\ request' = [request EXCEPT ![r] =
          [op |-> op, case |-> c, staff |-> s, input |-> input, todo |-> Plan(op, input),
           done |-> {}]]
    /\ shut' = IF status[c] = "CLOSED" THEN shut \cup {r} ELSE shut \ {r}
    /\ UNCHANGED <<status, closedAt, role, notes, everElevated, access, silent, faults>>

-----------------------------------------------------------------------------
(* The checks.  Each ends the request when it fails.                       *)

Check(r, passes) ==
    /\ IF passes THEN Continue(r, {}) ELSE Refuse(r)
    /\ UNCHANGED <<case, access, faults>>

(* auth: an active safeguarding access. *)
Auth(r) == At(r, "auth") /\ Check(r, request[r].staff \in access)

StatusAllows_NotesOnly(q) ==
    q.op = "note" => status[q.case] # "CLOSED"

(* An update may only reopen a closed case and a note needs one not closed.*)
StatusAllows(q) ==
    q.op \in {"update", "note"} /\ status[q.case] = "CLOSED" => q.input = "OPEN"

(* access: the caller is assigned to the case, elevated where asked for,   *)
(* and the status that was read with it allows the operation.              *)
Assigned(r) ==
    LET q == request[r] IN
    At(r, "case") /\ Check(r, role[q.case][q.staff] # "none" /\ StatusAllows(q))

Elevated_AnyAssignee(r) ==
    LET q == request[r] IN
    At(r, "elevated") /\ Check(r, role[q.case][q.staff] # "none" /\ StatusAllows(q))

Elevated(r) ==
    LET q == request[r] IN
    At(r, "elevated") /\ Check(r, role[q.case][q.staff] = "elevated" /\ StatusAllows(q))

(* assign: the assignee has active safeguarding access. *)
Member(r) == At(r, "member") /\ Check(r, request[r].input.to \in access)

-----------------------------------------------------------------------------
(* The writes.                                                             *)

Wrote(r) == Continue(r, {"written"}) /\ UNCHANGED <<access, faults>>

(* The case and its creator's elevated assignment in one transaction; the  *)
(* unique report makes a second creation fail.                             *)
Create(r) ==
    LET q == request[r] IN
    /\ At(r, "write") /\ q.op = "create"
    /\ IF status[q.case] = "NONE"
       THEN /\ status' = [status EXCEPT ![q.case] = "OPEN"]
            /\ role' = [role EXCEPT ![q.case][q.staff] = "elevated"]
            /\ everElevated' = everElevated \cup {<<q.case, q.staff>>}
            /\ Wrote(r)
       ELSE /\ Refuse(r)
            /\ UNCHANGED <<status, role, everElevated, access, faults>>
    /\ UNCHANGED <<closedAt, notes, shut>>

Update_DateKept(r) ==
    LET q == request[r] IN
    /\ At(r, "write") /\ q.op = "update"
    /\ status' = IF q.input = Unchanged THEN status
                 ELSE [status EXCEPT ![q.case] = q.input]
    /\ closedAt' = [closedAt EXCEPT ![q.case] = IF q.input = "CLOSED" THEN TRUE ELSE @]
    /\ shut' = IF q.input \in {"OPEN", "IN_PROGRESS"}
               THEN {x \in shut : request[x].case # q.case} ELSE shut
    /\ Wrote(r)
    /\ UNCHANGED <<role, notes, everElevated>>

(* The update by id: it writes whatever the status has become.             *)
Update(r) ==
    LET q == request[r] IN
    /\ At(r, "write") /\ q.op = "update"
    /\ status' = IF q.input = Unchanged THEN status
                 ELSE [status EXCEPT ![q.case] = q.input]
    /\ closedAt' = [closedAt EXCEPT ![q.case] =
                      CASE q.input = "CLOSED" -> TRUE
                        [] q.input = "OPEN" -> FALSE
                        [] OTHER -> @]
    /\ shut' = IF q.input \in {"OPEN", "IN_PROGRESS"}
               THEN {x \in shut : request[x].case # q.case} ELSE shut
    /\ Wrote(r)
    /\ UNCHANGED <<role, notes, everElevated>>

Note(r) ==
    LET q == request[r] IN
    /\ At(r, "write") /\ q.op = "note"
    /\ notes[q.case] < MaxNotes
    /\ notes' = [notes EXCEPT ![q.case] = @ + 1]
    /\ Wrote(r)
    /\ UNCHANGED <<status, closedAt, role, everElevated, shut>>

Assign(r) ==
    LET q == request[r] IN
    /\ At(r, "write") /\ q.op = "assign"
    /\ role' = [role EXCEPT ![q.case][q.input.to] = q.input.level]
    /\ everElevated' = IF q.input.level = "elevated"
                       THEN everElevated \cup {<<q.case, q.input.to>>} ELSE everElevated
    /\ Wrote(r)
    /\ UNCHANGED <<status, closedAt, notes, shut>>

(* detail records the view before it answers, export the export as well.   *)
Audit(r) ==
    /\ \/ At(r, "audit") /\ Continue(r, {"audited"})
       \/ At(r, "viewed") /\ Continue(r, {})
    /\ UNCHANGED <<case, access, faults>>

(* detail and export answer with the decrypted case. *)
Return(r) == At(r, "return") /\ Continue(r, {"returned"}) /\ UNCHANGED <<case, access, faults>>

(* A call throws or the process dies. *)
Die(r) ==
    /\ Busy(r)
    /\ Fault
    /\ End(r, request[r].done)
    /\ UNCHANGED <<case, access>>

EndAccess(s) == Withdraw(s) /\ UNCHANGED <<caseVars, faults>>

Step(r) ==
    \/ Auth(r) \/ Assigned(r) \/ Elevated(r) \/ Member(r)
    \/ Create(r) \/ Update(r) \/ Note(r) \/ Assign(r) \/ Audit(r) \/ Return(r)

Next ==
    \/ \E r \in Requests, s \in Staff, c \in Cases, op \in Operations :
          \E input \in Inputs(op) : Begin(r, s, c, op, input)
    \/ \E r \in Requests : Step(r) \/ Die(r)
    \/ \E s \in Staff : EndAccess(s)

Spec == Init /\ [][Next]_vars

-----------------------------------------------------------------------------
(* Properties.                                                             *)

TypeOK ==
    /\ status \in [Cases -> Statuses \cup {"NONE"}]
    /\ closedAt \in [Cases -> BOOLEAN]
    /\ role \in [Cases -> [Staff -> {"none", "plain", "elevated"}]]
    /\ access \subseteq Staff
    /\ notes \in [Cases -> 0..MaxNotes] /\ begun \in 0..MaxBegun
    /\ everElevated \subseteq Cases \X Staff
    /\ faults \in 0..MaxFaults
    /\ \A r \in Requests : Busy(r) =>
          LET q == request[r] IN
          \E k \in 0..6 : q.todo = SubSeq(Plan(q.op, q.input), k + 1, Len(Plan(q.op, q.input)))
    /\ shut \subseteq Requests /\ silent \subseteq {"written", "returned"}
    /\ \A c \in Cases : status[c] # "NONE" <=> \E s \in Staff : <<c, s>> \in everElevated

(* Whoever is about to assign, reopen or export has been elevated on that  *)
(* very case, however elevations, demotions and requests overlap           *)
(* (access).                                                               *)
ElevatedWork ==
    \A r \in Requests : LET q == request[r] IN
        (\/ At(r, "write") /\ q.op = "assign"
         \/ At(r, "write") /\ q.op = "update" /\ q.input = "OPEN"
         \/ At(r, "return") /\ q.op = "export") => <<q.case, q.staff>> \in everElevated

(* Nothing confidential leaves the service before the record that it was   *)
(* seen or exported, even if the process dies right after (detail, export);*)
(* unless a call fails, no request ends having changed a case without its  *)
(* audit record (create, update, note, assign).                            *)
CaseIsAudited == "returned" \notin silent /\ (faults = 0 => "written" \notin silent)

(* A closed case has its closing date and an open one has none, whatever   *)
(* updates overlap; and a case closed before a request began and not       *)
(* reopened since gets no note and no update other than its reopening      *)
(* (update, note).                                                         *)
ClosedIsKept ==
    /\ \A c \in Cases : /\ status[c] = "CLOSED" => closedAt[c]
                        /\ status[c] = "OPEN" => ~closedAt[c]
    /\ \A r \in shut : At(r, "write") /\ request[r].op \in {"update", "note"}
          => request[r].input = "OPEN"

(* A request writes to the case: it is the one that moves in this step.    *)
Writing(r, c, op) ==
    At(r, "write") /\ request[r].case = c /\ request[r].op = op /\ request'[r] # request[r]

(* What is kept of that: a step that takes a case out of CLOSED is an      *)
(* update whose request began before the case was closed, or a reopening   *)
(* by somebody who has been elevated on it; and a note reaches a closed    *)
(* case only from a request that began before (update, note, access).      *)
ClosedRests ==
    \A c \in Cases : status[c] = "CLOSED" =>
        /\ status'[c] # "CLOSED" =>
              \E r \in Requests :
                  /\ Writing(r, c, "update")
                  /\ r \in shut => request[r].input = "OPEN"
                                    /\ <<c, request[r].staff>> \in everElevated
        /\ notes'[c] # notes[c] => \E r \in Requests \ shut : Writing(r, c, "note")

ClosedCasesRest == [][ClosedRests]_vars

(* "Closed cases ... can be reopened only by an elevated assignee": a step *)
(* that takes a case out of CLOSED is a reopening, which asked for the     *)
(* elevated assignment (docs/guidance-case-management.md).                 *)
ReopenedByElevated ==
    [][\A c \in Cases : status[c] = "CLOSED" /\ status'[c] # "CLOSED" =>
          \E r \in Requests : /\ At(r, "write") /\ request[r].case = c
                              /\ request[r].op = "update" /\ request[r].input = "OPEN"
                              /\ <<c, request[r].staff>> \in everElevated]_vars
=============================================================================
