--------------------------- MODULE SafetyReports ---------------------------
(***************************************************************************)
(* Confidential safety reports (safety.service.ts): submission with its    *)
(* count of earlier copies, intake, status updates and evidence.           *)
(*                                                                         *)
(* A request is a stage between two awaited calls.  An update is one       *)
(* transaction of two statements: its row takes its place in the trail at  *)
(* the first, everyone sees it at the commit.                              *)
(***************************************************************************)
EXTENDS SafeguardingAccess, Integers, Sequences, FiniteSets

CONSTANTS
    Texts,        \* fingerprints of school, date and description
    ReportStatuses,
    MaxReports,   \* bound: reports submitted
    MaxCalls      \* bound: requests begun

ASSUME SafetyBounds == MaxReports \in Nat /\ MaxCalls \in Nat

ASSUME StatusOfANewReport == "SUBMITTED" \in ReportStatuses

VARIABLES
    reports,   \* SafetyReport rows in the order of their creation
    trail,     \* SafetyReportUpdate rows of the staff in the order of their insertion
    firstRow,  \* reports that have their SUBMITTED row
    links,     \* reports with a signed evidence link that has not expired
    call,      \* the request in progress
    calls,     \* requests begun so far
    recorded,  \* audit records of each report: submission and updates, and views
    notified,  \* status notices queued for the reporter of each report
    shown      \* history: answers that held confidential content of each report

rows == <<reports, trail, firstRow>>
records == <<recorded, notified, shown>>
safetyVars == <<rows, links, call, calls, records>>

Ids == 1..MaxReports
NoCall == [at |-> "none", op |-> "none", id |-> 0, by |-> "none", text |-> "none",
           number |-> 0, earlier |-> 0, left |-> {}]

Calling(r) == call[r].at # "none"
Hang(r) == call' = [call EXCEPT ![r] = NoCall]
Move(r, where) == call' = [call EXCEPT ![r].at = where]
Copies(text) == Cardinality({i \in DOMAIN reports : reports[i].text = text})

SafetyInit ==
    /\ AccessInit
    /\ reports = <<>> /\ trail = <<>> /\ firstRow = {} /\ links = {}
    /\ call = [r \in Requests |-> NoCall] /\ calls = 0
    /\ recorded = [i \in Ids |-> [changes |-> 0, views |-> 0]]
    /\ notified = [i \in Ids |-> 0]
    /\ shown = [i \in Ids |-> 0]

BeginCall(r, q) ==
    /\ ~Calling(r)
    /\ calls < MaxCalls
    /\ call' = [call EXCEPT ![r] = q]
    /\ calls' = calls + 1
    /\ UNCHANGED <<rows, links, records, accessVars>>

-----------------------------------------------------------------------------
(* submit, within the rate limit (RateLimits).                             *)

Submitting == {r \in Requests : call[r].op = "submit" /\ call[r].id = 0}

BeginSubmit(r, text) ==
    /\ Len(reports) + Cardinality(Submitting) < MaxReports
    /\ BeginCall(r, [NoCall EXCEPT !.at = "reporter", !.op = "submit", !.text = text,
                                   !.earlier = Copies(text)])

(* The reporter's account is looked up; an inactive or unverified one is   *)
(* refused.                                                                *)
FindReporter(r) ==
    /\ call[r].at = "reporter"
    /\ Move(r, "count") \/ Hang(r)
    /\ UNCHANGED <<calls, rows, links, records, accessVars>>

CountCopies(r) ==
    /\ call[r].at = "count"
    /\ call' = [call EXCEPT ![r].at = "create", ![r].number = Copies(call[r].text)]
    /\ UNCHANGED <<calls, rows, links, records, accessVars>>

CreateReport_CountsItself(r, evidence) ==
    LET q == call[r] IN
    /\ q.at = "create"
    /\ reports' = Append(reports, [text |-> q.text, evidence |-> evidence, status |-> "SUBMITTED",
                                   copies |-> Copies(q.text) + 1, earlier |-> q.earlier])
    /\ call' = [call EXCEPT ![r] = [NoCall EXCEPT !.at = "first", !.op = "submit",
                                                   !.id = Len(reports) + 1]]
    /\ UNCHANGED <<calls, trail, firstRow, links, records, accessVars>>

(* The row keeps the count taken before; three copies or more set its      *)
(* abuse indicator.                                                        *)
CreateReport(r, evidence) ==
    LET q == call[r] IN
    /\ q.at = "create"
    /\ reports' = Append(reports, [text |-> q.text, evidence |-> evidence, status |-> "SUBMITTED",
                                   copies |-> q.number, earlier |-> q.earlier])
    /\ call' = [call EXCEPT ![r] = [NoCall EXCEPT !.at = "first", !.op = "submit",
                                                   !.id = Len(reports) + 1]]
    /\ UNCHANGED <<calls, trail, firstRow, links, records, accessVars>>

InsertFirstRow(r) ==
    /\ call[r].at = "first"
    /\ firstRow' = firstRow \cup {call[r].id}
    /\ Move(r, "audit")
    /\ UNCHANGED <<calls, reports, trail, links, records, accessVars>>

-----------------------------------------------------------------------------
(* The requests of the guidance staff, who must have active access.        *)

SafeguardingCheck(r) ==
    LET q == call[r] IN
    /\ q.at = "access"
    /\ IF q.by \in access
       THEN call' = [call EXCEPT ![r].at = IF q.op = "update" THEN "insert" ELSE "read",
                                 ![r].by = "none"]
       ELSE Hang(r)
    /\ UNCHANGED <<calls, rows, links, records, accessVars>>

(* intake of one report or of all of them, and both evidence requests:     *)
(* what was read is what will be shown, once each report has its record.   *)
BeginView(r, s, op, i) ==
    /\ op = "intake" \/ i \in DOMAIN reports
    /\ op = "evidence" => i \in links
    /\ BeginCall(r, [NoCall EXCEPT !.at = "access", !.op = op, !.by = s, !.id = i])

Read_AuditsFirst(r) ==
    LET q == call[r]
        found == IF q.id = 0 THEN DOMAIN reports ELSE {q.id} IN
    /\ q.at = "read"
    /\ IF q.op = "intake" \/ reports[q.id].evidence
       THEN call' = [call EXCEPT ![r].at = "records", ![r].number = Len(reports),
                                 ![r].left = {i \in found : \A j \in found : i <= j}]
       ELSE Hang(r)
    /\ UNCHANGED <<calls, rows, links, records, accessVars>>

Read(r) ==
    LET q == call[r]
        found == IF q.id = 0 THEN DOMAIN reports ELSE {q.id} IN
    /\ q.at = "read"
    /\ IF q.op = "intake" \/ reports[q.id].evidence
       THEN call' = [call EXCEPT ![r].at = "records", ![r].number = Len(reports), ![r].left = found]
       ELSE Hang(r)
    /\ UNCHANGED <<calls, rows, links, records, accessVars>>

(* One record per report, one after the other, then the answer: the        *)
(* content, or for sign a link to it.                                      *)
RecordView(r) ==
    LET q == call[r] IN
    /\ q.at = "records" /\ q.left # {}
    /\ LET i == CHOOSE i \in q.left : \A j \in q.left : i >= j IN
       /\ recorded' = [recorded EXCEPT ![i].views = @ + 1]
       /\ call' = [call EXCEPT ![r].left = @ \ {i}]
    /\ UNCHANGED <<calls, rows, links, notified, shown, accessVars>>

Answer(r) ==
    LET q == call[r] IN
    /\ q.at = "records" /\ q.left = {}
    /\ IF q.op = "sign"
       THEN links' = links \cup {q.id} /\ UNCHANGED shown
       ELSE /\ shown' = [i \in Ids |-> shown[i] +
                  IF i = q.id \/ (q.id = 0 /\ i <= q.number) THEN 1 ELSE 0]
            /\ UNCHANGED links
    /\ Hang(r)
    /\ UNCHANGED <<calls, rows, recorded, notified, accessVars>>

(* A link is good for sixty seconds. *)
LinkExpires(i) ==
    /\ i \in links
    /\ links' = links \ {i}
    /\ UNCHANGED <<rows, call, calls, records, accessVars>>

-----------------------------------------------------------------------------
(* update.                                                                 *)

BeginUpdate(r, s, i, new) ==
    BeginCall(r, [NoCall EXCEPT !.at = "access", !.op = "update", !.by = s, !.id = i, !.text = new])

Committed(i) == {k \in DOMAIN trail : trail[k].id = i /\ trail[k].in = "committed"}

InsertRow_NoTransaction(r) ==
    LET q == call[r] IN
    /\ q.at = "insert"
    /\ trail' = Append(trail, [id |-> q.id, status |-> q.text, in |-> "committed",
                               after |-> Committed(q.id)])
    /\ call' = [call EXCEPT ![r].at = "commit", ![r].number = Len(trail) + 1]
    /\ UNCHANGED <<calls, reports, firstRow, links, records, accessVars>>

InsertRow(r) ==
    LET q == call[r] IN
    /\ q.at = "insert"
    /\ trail' = Append(trail, [id |-> q.id, status |-> q.text, in |-> "transaction",
                               after |-> Committed(q.id)])
    /\ call' = [call EXCEPT ![r].at = "commit", ![r].number = Len(trail) + 1]
    /\ UNCHANGED <<calls, reports, firstRow, links, records, accessVars>>

(* The status is written under the row's lock, so writing and committing   *)
(* are one step.                                                           *)
CommitUpdate(r) ==
    LET q == call[r] IN
    /\ q.at = "commit"
    /\ trail' = [trail EXCEPT ![q.number].in = "committed"]
    /\ reports' = [reports EXCEPT ![q.id].status = q.text]
    /\ Move(r, "audit")
    /\ UNCHANGED <<calls, firstRow, links, records, accessVars>>

RecordChange(r) ==
    /\ call[r].at = "audit"
    /\ recorded' = [recorded EXCEPT ![call[r].id].changes = @ + 1]
    /\ Move(r, "publish")
    /\ UNCHANGED <<calls, rows, links, notified, shown, accessVars>>

PublishStatus_ToNobody(r) ==
    /\ call[r].at = "publish"
    /\ Hang(r)
    /\ UNCHANGED <<calls, rows, links, records, accessVars>>

(* Only a status update has a recipient: the reporter. *)
PublishStatus(r) ==
    LET q == call[r] IN
    /\ q.at = "publish"
    /\ notified' = [notified EXCEPT ![q.id] = @ + IF q.op = "update" THEN 1 ELSE 0]
    /\ Hang(r)
    /\ UNCHANGED <<calls, rows, links, recorded, shown, accessVars>>

-----------------------------------------------------------------------------
(* A call throws or the process dies: a transaction is rolled back. *)
Break(r) ==
    /\ Calling(r) /\ Fault
    /\ trail' = IF call[r].at = "commit" /\ trail[call[r].number].in = "transaction"
                THEN [trail EXCEPT ![call[r].number].in = "undone"] ELSE trail
    /\ Hang(r)
    /\ UNCHANGED <<calls, reports, firstRow, links, records, access>>

LoseAccess(s) == Withdraw(s) /\ UNCHANGED <<safetyVars, faults>>

SafetyNext ==
    \/ \E r \in Requests :
          \/ \E text \in Texts : BeginSubmit(r, text)
          \/ \E s \in Staff, i \in DOMAIN reports \cup {0} : BeginView(r, s, "intake", i)
          \/ \E s \in Staff, i \in DOMAIN reports, op \in {"sign", "evidence"} :
                BeginView(r, s, op, i)
          \/ \E s \in Staff, i \in DOMAIN reports, new \in ReportStatuses :
                BeginUpdate(r, s, i, new)
          \/ \E evidence \in BOOLEAN : CreateReport(r, evidence)
          \/ FindReporter(r) \/ CountCopies(r) \/ InsertFirstRow(r)
          \/ SafeguardingCheck(r) \/ Read(r) \/ RecordView(r) \/ Answer(r)
          \/ InsertRow(r) \/ CommitUpdate(r) \/ RecordChange(r) \/ PublishStatus(r)
          \/ Break(r)
    \/ \E i \in links : LinkExpires(i)
    \/ \E s \in Staff : LoseAccess(s)

-----------------------------------------------------------------------------
(* Properties.                                                             *)

ReportRow == [text : Texts, evidence : BOOLEAN, status : ReportStatuses, copies : 0..MaxReports,
              earlier : 0..MaxReports]

SafetyTypeOK ==
    /\ reports \in Seq(ReportRow) /\ Len(reports) <= MaxReports
    /\ \A k \in DOMAIN trail : /\ trail[k].id \in DOMAIN reports
                               /\ trail[k].status \in ReportStatuses
                               /\ trail[k].in \in {"transaction", "committed", "undone"}
    /\ firstRow \subseteq DOMAIN reports /\ links \subseteq DOMAIN reports
    /\ \A r \in Requests : call[r].at \in {"first", "commit", "audit", "publish"}
                              => call[r].id \in DOMAIN reports

AtRest == faults = 0 /\ \A r \in Requests : ~Calling(r)

(* A report's status is that of a committed update of its trail which no   *)
(* later update follows, "later" meaning that it was inserted when the     *)
(* other had been committed; without an update it is SUBMITTED, and then   *)
(* the trail has its first row unless a call failed (submit, update).  The *)
(* copies it counts, which decide its abuse indicator, are reports created *)
(* before it with the same text, and miss none that existed when its       *)
(* submission began.                                                       *)
StatusExplained ==
    \A i \in DOMAIN reports :
        /\ IF Committed(i) = {} THEN reports[i].status = "SUBMITTED"
           ELSE \E k \in Committed(i) :
                   /\ reports[i].status = trail[k].status
                   /\ \A l \in Committed(i) : k \notin trail[l].after
        /\ AtRest => i \in firstRow
        /\ reports[i].earlier <= reports[i].copies
        /\ reports[i].copies <= Cardinality({j \in 1..(i - 1) : reports[j].text = reports[i].text})

(* Confidential content leaves the service at most as often as the record  *)
(* that it was seen has been written, whoever dies in between, and no      *)
(* change is recorded or announced that was not committed; unless a call   *)
(* fails every change is recorded and the reporter hears of every update   *)
(* once the requests have ended (intake, evidence, submit, update; "each   *)
(* confidential view, status update ... creates an audit record").         *)
DisclosureAudited ==
    \A i \in DOMAIN reports :
        LET changes == Cardinality(Committed(i)) IN
        /\ shown[i] <= recorded[i].views
        /\ recorded[i].changes <= changes + 1 /\ notified[i] <= changes
        /\ AtRest => recorded[i].changes = changes + 1 /\ notified[i] = changes
=============================================================================
