----------------------------- MODULE Attendance -----------------------------
(***************************************************************************)
(* One class on one day (attendance.service.ts): attendance sheets,        *)
(* corrections, and the absence notices both send to linked parents.       *)
(*                                                                         *)
(* A request checks, writes in a transaction and then audits and notifies  *)
(* record by record, each in a statement of its own; other requests and    *)
(* changes of parent links come in between.                                *)
(***************************************************************************)
EXTENDS ParentLinks, Integers

CONSTANTS
    Requests,        \* HTTP requests that may be in progress together
    MaxRequests,     \* bound: requests begun
    MaxFaults        \* bound: failed statements and process deaths

ASSUME AttendanceBounds == MaxRequests \in Nat /\ MaxFaults \in Nat

States == {"PRESENT", "ABSENT"}   \* LATE and EXCUSED behave like PRESENT
None == "NONE"

VARIABLES
    record,       \* state of each student's record, None without one
    corrections,  \* AttendanceCorrection rows: <<student, previous, new>>
    trail,        \* audit log: <<student, previous or None, new>>
    absences,     \* absence notices: <<student, parent>>
    request,
    begun,        \* requests begun so far
    failed,       \* statements failed so far
    sheetOf,      \* history: the sheet each student was recorded from
    seen,         \* history: states each record has been in
    owed          \* history: parents linked ever since it first was ABSENT

history == <<sheetOf, seen, owed>>
rows == <<record, corrections, history>>
attendanceVars == <<rows, trail, absences, request, begun, failed>>

Idle == [at |-> "idle", sheet |-> <<>>, from |-> None, todo |-> {}, of |-> None,
         recipients |-> {}]

Busy(r) == request[r].at # "idle"
OnSheet(r) == DOMAIN request[r].sheet
Finish(r) == request' = [request EXCEPT ![r] = Idle]
Go(r, where) == request' = [request EXCEPT ![r].at = where]

AttendanceInit ==
    /\ record = [s \in Students |-> None]
    /\ corrections = {} /\ trail = {} /\ absences = {}
    /\ request = [r \in Requests |-> Idle]
    /\ begun = 0 /\ failed = 0
    /\ sheetOf = [s \in Students |-> <<>>]
    /\ seen = [s \in Students |-> {}]
    /\ owed = [s \in Students |-> {}]

BeginRequest(r, q) ==
    /\ ~Busy(r)
    /\ begun < MaxRequests
    /\ begun' = begun + 1
    /\ request' = [request EXCEPT ![r] = q]
    /\ UNCHANGED <<linkVars, rows, trail, absences, failed>>

(* The records of the students in DOMAIN new become new. *)
Write(new) ==
    LET to == DOMAIN new IN
    /\ record' = [s \in Students |-> IF s \in to THEN new[s] ELSE record[s]]
    /\ seen' = [s \in Students |-> IF s \in to THEN seen[s] \cup {new[s]} ELSE seen[s]]
    /\ owed' = [s \in Students |->
                  IF s \in to /\ new[s] = "ABSENT" /\ "ABSENT" \notin seen[s]
                  THEN links[s] ELSE owed[s]]

-----------------------------------------------------------------------------
(* recordDaily.  A sheet names each student once; class access and the     *)
(* students' enrolment, neither of which the service changes, are checked  *)
(* first and may send the request away.                                    *)

BeginSheet(r, sheet) == BeginRequest(r, [Idle EXCEPT !.at = "existing", !.sheet = sheet])

Existing(r) ==
    /\ request[r].at = "existing"
    /\ IF \A s \in OnSheet(r) : record[s] = None THEN Go(r, "insert") ELSE Finish(r)
    /\ UNCHANGED <<linkVars, rows, trail, absences, begun, failed>>

InsertSheet_RecordByRecord(r) ==
    LET q == request[r]
        new == {s \in OnSheet(r) : record[s] = None} IN
    /\ q.at = "insert"
    /\ Write([s \in new |-> q.sheet[s]])
    /\ sheetOf' = [s \in Students |-> IF s \in new THEN q.sheet ELSE sheetOf[s]]
    /\ IF new = OnSheet(r)
       THEN request' = [request EXCEPT ![r].at = "each", ![r].todo = new]
       ELSE Finish(r)
    /\ UNCHANGED <<linkVars, corrections, trail, absences, begun, failed>>

(* One transaction inserts the whole sheet; the unique key of school,      *)
(* class, student and date makes it fail as a whole when another sheet has *)
(* recorded one of the students meanwhile.                                 *)
InsertSheet(r) ==
    LET q == request[r] IN
    /\ q.at = "insert"
    /\ IF \A s \in OnSheet(r) : record[s] = None
       THEN /\ Write(q.sheet)
            /\ sheetOf' = [s \in Students |-> IF s \in OnSheet(r) THEN q.sheet ELSE sheetOf[s]]
            /\ request' = [request EXCEPT ![r].at = "each", ![r].todo = OnSheet(r)]
       ELSE Finish(r) /\ UNCHANGED <<record, history>>
    /\ UNCHANGED <<linkVars, corrections, trail, absences, begun, failed>>

(* The audit record of the next student of the sheet. *)
AuditEach(r, s) ==
    LET q == request[r] IN
    /\ q.at = "each" /\ s \in q.todo
    /\ trail' = trail \cup {<<s, None, q.sheet[s]>>}
    /\ request' = [request EXCEPT ![r].todo = @ \ {s}, ![r].of = s,
                     ![r].at = IF q.sheet[s] = "ABSENT" THEN "links" ELSE "each"]
    /\ UNCHANGED <<linkVars, rows, absences, begun, failed>>

EndSheet(r) ==
    /\ request[r].at = "each" /\ request[r].todo = {}
    /\ Finish(r)
    /\ UNCHANGED <<linkVars, rows, trail, absences, begun, failed>>

-----------------------------------------------------------------------------
(* Both then read the approved links and call publishAbsenceEvent, which   *)
(* queues one notice per recipient.                                        *)

ReadLinks_WholeSheet(r) ==
    /\ request[r].at = "links"
    /\ request' = [request EXCEPT ![r].at = "publish",
                     ![r].recipients = UNION {links[s] : s \in OnSheet(r)}]
    /\ UNCHANGED <<linkVars, rows, trail, absences, begun, failed>>

ReadLinks(r) ==
    /\ request[r].at = "links"
    /\ request' = [request EXCEPT ![r].at = "publish",
                     ![r].recipients = links[request[r].of]]
    /\ UNCHANGED <<linkVars, rows, trail, absences, begun, failed>>

Publish(r) ==
    LET q == request[r] IN
    /\ q.at = "publish"
    /\ absences' = absences \cup {<<q.of, p>> : p \in q.recipients}
    /\ Go(r, "each")
    /\ UNCHANGED <<linkVars, rows, trail, begun, failed>>

-----------------------------------------------------------------------------
(* correct.  Reads the record, checks access to its class and then writes; *)
(* its sheet is the one student's new state.                               *)

BeginCorrection_NotFoundIgnored(r, s, new) ==
    /\ BeginRequest(r, [Idle EXCEPT !.at = "correct", !.of = s, !.from = record[s],
                                    !.sheet = [x \in {s} |-> new]])

BeginCorrection(r, s, new) ==
    /\ record[s] # None
    /\ BeginRequest(r, [Idle EXCEPT !.at = "correct", !.of = s, !.from = record[s],
                                    !.sheet = [x \in {s} |-> new]])

(* The correction row, from the state read at the start, and the new state *)
(* in one transaction.                                                     *)
Correct_Swapped(r) ==
    LET q == request[r] IN
    /\ q.at = "correct"
    /\ Write(q.sheet)
    /\ corrections' = corrections \cup {<<q.of, q.sheet[q.of], q.from>>}
    /\ Go(r, "audit")
    /\ UNCHANGED <<linkVars, sheetOf, trail, absences, begun, failed>>

Correct(r) ==
    LET q == request[r] IN
    /\ q.at = "correct"
    /\ Write(q.sheet)
    /\ corrections' = corrections \cup {<<q.of, q.from, q.sheet[q.of]>>}
    /\ Go(r, "audit")
    /\ UNCHANGED <<linkVars, sheetOf, trail, absences, begun, failed>>

AuditCorrection_OtherWay(r) ==
    LET q == request[r] IN
    /\ q.at = "audit"
    /\ trail' = trail \cup {<<q.of, q.from, q.sheet[q.of]>>}
    /\ IF q.from = "ABSENT" /\ q.sheet[q.of] # "ABSENT" THEN Go(r, "links") ELSE Finish(r)
    /\ UNCHANGED <<linkVars, rows, absences, begun, failed>>

AuditCorrection_NotAudited(r) ==
    LET q == request[r] IN
    /\ q.at = "audit"
    /\ IF q.sheet[q.of] = "ABSENT" /\ q.from # "ABSENT" THEN Go(r, "links") ELSE Finish(r)
    /\ UNCHANGED <<linkVars, rows, trail, absences, begun, failed>>

(* A notice follows if, by the state read at the start, the student has    *)
(* become absent.                                                          *)
AuditCorrection(r) ==
    LET q == request[r] IN
    /\ q.at = "audit"
    /\ trail' = trail \cup {<<q.of, q.from, q.sheet[q.of]>>}
    /\ IF q.sheet[q.of] = "ABSENT" /\ q.from # "ABSENT" THEN Go(r, "links") ELSE Finish(r)
    /\ UNCHANGED <<linkVars, rows, absences, begun, failed>>

-----------------------------------------------------------------------------
(* A statement fails or the process dies: what was written stays, and a    *)
(* publication may have reached some recipients.                           *)
Die(r) ==
    /\ Busy(r)
    /\ failed < MaxFaults
    /\ failed' = failed + 1
    /\ Finish(r)
    /\ \E some \in SUBSET (IF request[r].at = "publish" THEN request[r].recipients ELSE {}) :
          absences' = absences \cup {<<request[r].of, p>> : p \in some}
    /\ UNCHANGED <<linkVars, rows, trail, begun>>

ChangeLinks ==
    /\ LinksChange
    /\ owed' = [s \in Students |-> owed[s] \cap links'[s]]
    /\ UNCHANGED <<record, corrections, sheetOf, seen, trail, absences, request, begun, failed>>

Sheets == UNION {[S -> States] : S \in (SUBSET Students) \ {{}}}

AttendanceNext ==
    \/ \E r \in Requests :
          \/ \E sheet \in Sheets : BeginSheet(r, sheet)
          \/ Existing(r) \/ InsertSheet(r)
          \/ \E s \in Students : AuditEach(r, s)
          \/ EndSheet(r) \/ ReadLinks(r) \/ Publish(r)
          \/ \E s \in Students, new \in States : BeginCorrection(r, s, new)
          \/ Correct(r) \/ AuditCorrection(r) \/ Die(r)
    \/ ChangeLinks

AttendanceSpec == LinksInit /\ AttendanceInit /\ [][AttendanceNext]_<<linkVars, attendanceVars>>

-----------------------------------------------------------------------------
(* Properties.                                                             *)

Rows == Students \X (States \cup {None}) \X States

(* Every variable has its type, and a record exists exactly when a sheet   *)
(* has recorded it (AttendanceRecord).                                     *)
AttendanceTypeOK ==
    /\ LinksOK
    /\ record \in [Students -> States \cup {None}]
    /\ corrections \subseteq Rows /\ trail \subseteq Rows
    /\ absences \subseteq Students \X Parents
    /\ \A r \in Requests : Busy(r) => request[r].sheet \in Sheets
    /\ begun \in 0..MaxRequests /\ failed \in 0..MaxFaults
    /\ \A s \in Students : record[s] # None <=> s \in DOMAIN sheetOf[s]
    /\ owed \in [Students -> SUBSET Parents]

Quiet == \A r \in Requests : ~Busy(r)

(* A sheet is recorded whole, however sheets overlap: whoever else is on   *)
(* the sheet a student was recorded from was recorded from it too.  Every  *)
(* state a record has been in is the one on its sheet or that of a         *)
(* correction row, and what a row calls the previous state is a state the  *)
(* record has really been in, though not always the one it replaced.       *)
(* Unless a statement fails, once no request is in progress the audit log  *)
(* tells every sheet entry and every correction row (recordDaily, correct).*)
StatesExplained ==
    /\ \A s \in Students : \A t \in DOMAIN sheetOf[s] : sheetOf[t] = sheetOf[s]
    /\ \A s \in Students :
          LET mine == {c \in corrections : c[1] = s} IN
          /\ \A c \in mine : c[2] \in seen[s]
          /\ record[s] # None => seen[s] = {sheetOf[s][s]} \cup {c[3] : c \in mine}
    /\ Quiet /\ failed = 0 =>
          trail = corrections \cup
                  {<<s, None, sheetOf[s][s]>> : s \in {x \in Students : record[x] # None}}

(* A notice tells of a student who has been absent, and only someone who   *)
(* has been that student's approved parent.  Unless a statement fails,     *)
(* once no request is in progress every parent linked ever since a student *)
(* was first absent has one, although corrections decide on a state others *)
(* may have replaced (publishAbsenceEvent, recordDaily, correct).          *)
AbsenceIsNotified ==
    /\ \A n \in absences : "ABSENT" \in seen[n[1]] /\ n[2] \in everLinked[n[1]]
    /\ Quiet /\ failed = 0 => \A s \in Students : {s} \X owed[s] \subseteq absences
=============================================================================
