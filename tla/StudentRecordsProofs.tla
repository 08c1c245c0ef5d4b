----------------------- MODULE StudentRecordsProofs -----------------------
(***************************************************************************)
(* Sheets, evaluation notes, conversations and coursework keep what they   *)
(* promise, for any school and any number of overlapping requests.  Each   *)
(* desk has an inductive invariant of its own; at the end they are put     *)
(* side by side.                                                           *)
(***************************************************************************)
EXTENDS StudentRecords, FiniteSetTheorems, SequenceTheorems, TLAPS

-----------------------------------------------------------------------------
(* The links a school begins with are links.                               *)
LEMMA LinksStart == LinksInit => LinksOK
  BY DEF LinksInit, LinksOK

-----------------------------------------------------------------------------
(* Attendance.                                                             *)
AttStages == {"idle", "existing", "insert", "each", "links", "publish", "correct", "audit"}
AttRequest == [at : AttStages, sheet : Sheets \cup {<<>>}, from : States \cup {None},
               todo : SUBSET Students, of : Students \cup {None}, recipients : SUBSET Parents]

AttTypes ==
    /\ LinksOK
    /\ record \in [Students -> States \cup {None}]
    /\ corrections \subseteq Rows /\ trail \subseteq Rows
    /\ absences \subseteq Students \X Parents
    /\ request \in [Requests -> AttRequest]
    /\ begun \in 0..MaxRequests /\ failed \in 0..MaxFaults
    /\ sheetOf \in [Students -> Sheets \cup {<<>>}]
    /\ seen \in [Students -> SUBSET States]
    /\ owed \in [Students -> SUBSET Parents]

(* What the rows say of the past: a record exists since its sheet, has     *)
(* been in the states of its sheet and its corrections and in no others.   *)
Traced ==
    /\ \A s \in Students :
          /\ record[s] # None <=> s \in DOMAIN sheetOf[s]
          /\ record[s] = None => seen[s] = {}
          /\ record[s] # None => record[s] \in seen[s]
          /\ record[s] # None => seen[s] = {sheetOf[s][s]} \cup {c[3] : c \in {x \in corrections : x[1] = s}}
          /\ \A t \in DOMAIN sheetOf[s] : t \in Students /\ sheetOf[t] = sheetOf[s]
    /\ \A c \in corrections : record[c[1]] # None /\ c[2] \in seen[c[1]]

(* What a request q has found or done.                                     *)
Carries(q) ==
    /\ q.at \in {"existing", "insert", "each", "links", "publish", "correct", "audit"} => q.sheet \in Sheets
    /\ q.at \in {"correct", "audit"} =>
          /\ q.of \in Students /\ DOMAIN q.sheet = {q.of} /\ q.todo = {}
          /\ record[q.of] # None /\ q.from \in seen[q.of]
    /\ q.at = "audit" => q.sheet[q.of] \in seen[q.of] /\ <<q.of, q.from, q.sheet[q.of]>> \in corrections
    /\ q.at \in {"each", "links", "publish"} =>
          \A s \in q.todo : s \in DOMAIN q.sheet /\ record[s] # None /\ sheetOf[s] = q.sheet
    /\ q.at \in {"links", "publish"} => q.of \in Students /\ "ABSENT" \in seen[q.of]
    /\ q.at = "publish" => q.recipients \subseteq everLinked[q.of]

Carried == \A r \in Requests : Carries(request[r])

(* What a request q will still write to the audit log ...                  *)
Logs(q, x) ==
    \/ q.at \in {"each", "links", "publish"} /\ \E s \in q.todo : x = <<s, None, q.sheet[s]>>
    \/ q.at = "audit" /\ x = <<q.of, q.from, q.sheet[q.of]>>

Entry(s) == <<s, None, sheetOf[s][s]>>
Entries == corrections \cup {Entry(s) : s \in {x \in Students : record[x] # None}}

Logged ==
    /\ trail \subseteq Entries
    /\ failed = 0 => \A x \in Entries : x \in trail \/ \E r \in Requests : Logs(request[r], x)

(* ... and whom it will tell.                                              *)
Tells(q, s, p) ==
    \/ q.at \in {"each", "links", "publish"} /\ s \in q.todo /\ q.sheet[s] = "ABSENT"
    \/ q.at = "audit" /\ q.of = s /\ q.sheet[s] = "ABSENT" /\ q.from # "ABSENT"
    \/ q.at = "links" /\ q.of = s
    \/ q.at = "publish" /\ q.of = s /\ p \in q.recipients

Told ==
    /\ \A n \in absences : "ABSENT" \in seen[n[1]] /\ n[2] \in everLinked[n[1]]
    /\ \A s \in Students : owed[s] \subseteq links[s]
    /\ failed = 0 => \A s \in Students : \A p \in owed[s] :
          <<s, p>> \in absences \/ \E r \in Requests : Tells(request[r], s, p)

AttInv == AttTypes /\ Traced /\ Carried /\ Logged /\ Told

LEMMA AttStarts == LinksOK /\ AttendanceInit => AttInv
<1> SUFFICES ASSUME LinksOK, AttendanceInit PROVE AttInv
  OBVIOUS
<1> USE DEF AttendanceInit
<1>1. AttTypes
  BY AttendanceBounds DEF AttTypes, LinksOK, Idle, AttRequest, AttStages, None
<1>2. Traced /\ Carried
  BY DEF Traced, Carried, Carries, Idle
<1>3. Logged /\ Told
  BY DEF Logged, Entries, Entry, Told
<1> QED  BY <1>1, <1>2, <1>3 DEF AttInv

(* A request goes on without writing to the register.                      *)
LEMMA AttMove ==
  ASSUME AttInv, NEW r \in Requests, NEW q \in AttRequest, request' = [request EXCEPT ![r] = q],
         UNCHANGED <<linkVars, rows>>, Carries(q),
         begun' \in 0..MaxRequests, failed' \in 0..MaxFaults,
         trail \subseteq trail', trail' \subseteq Entries \cap Rows,
         absences \subseteq absences', absences' \subseteq Students \X Parents,
         \A n \in absences' : "ABSENT" \in seen[n[1]] /\ n[2] \in everLinked[n[1]],
         failed' = 0 => failed = 0,
         failed' = 0 => \A x : Logs(request[r], x) => x \in trail' \/ Logs(q, x),
         failed' = 0 => \A s \in Students : \A p \in owed[s] :
                           Tells(request[r], s, p) => <<s, p>> \in absences' \/ Tells(q, s, p)
  PROVE  AttInv'
<1>0. UNCHANGED <<links, everLinked, record, corrections, sheetOf, seen, owed>>
  BY DEF linkVars, rows, history
<1>1. AttTypes'
  BY <1>0 DEF AttInv, AttTypes, LinksOK
<1>2. Traced'
  BY <1>0 DEF AttInv, Traced
<1>3. request'[r] = q /\ \A y \in Requests \ {r} : request'[y] = request[y]
  BY DEF AttInv, AttTypes
<1>4. Carried'
  <2>1. Carries(q)'
    BY <1>0 DEF Carries
  <2>2. \A y \in Requests : Carries(request[y])
    BY DEF AttInv, Carried
  <2>3. ASSUME NEW y \in Requests PROVE \A c : c = request'[y] => Carries(c)'
    BY <1>0, <1>3, <2>1, <2>2 DEF Carries
  <2> QED  BY <2>3 DEF Carried, Carries
<1>5. Logged'
  <2>1. Entries' = Entries
    BY <1>0 DEF Entries, Entry
  <2>2. ASSUME failed' = 0, NEW x \in Entries
        PROVE  x \in trail' \/ \E y \in Requests : Logs(request'[y], x)
    <3>1. x \in trail \/ \E y \in Requests : Logs(request[y], x)
      BY <2>2 DEF AttInv, Logged
    <3>2. ASSUME NEW y \in Requests, Logs(request[y], x)
          PROVE  x \in trail' \/ \E z \in Requests : Logs(request'[z], x)
      BY <1>3, <2>2, <3>2
    <3> QED  BY <3>1, <3>2
  <2> QED  BY <2>1, <2>2 DEF Logged, Logs
<1>6. Told'
  <2>1. ASSUME failed' = 0, NEW s \in Students, NEW p \in owed[s]
        PROVE  <<s, p>> \in absences' \/ \E y \in Requests : Tells(request'[y], s, p)
    <3>1. <<s, p>> \in absences \/ \E y \in Requests : Tells(request[y], s, p)
      BY <2>1 DEF AttInv, Told
    <3>2. ASSUME NEW y \in Requests, Tells(request[y], s, p)
          PROVE  <<s, p>> \in absences' \/ \E z \in Requests : Tells(request'[z], s, p)
      BY <1>3, <2>1, <3>2
    <3> QED  BY <3>1, <3>2
  <2> QED  BY <1>0, <2>1 DEF AttInv, Told, Tells
<1> QED  BY <1>1, <1>2, <1>4, <1>5, <1>6 DEF AttInv

LEMMA AttKept ==
  ASSUME AttInv
  PROVE  /\ begun \in 0..MaxRequests /\ failed \in 0..MaxFaults /\ trail \subseteq Entries \cap Rows
         /\ absences \subseteq Students \X Parents /\ request \in [Requests -> AttRequest]
         /\ \A n \in absences : "ABSENT" \in seen[n[1]] /\ n[2] \in everLinked[n[1]]
         /\ \A r \in Requests : Carries(request[r])
BY DEF AttInv, AttTypes, Logged, Told, Carried

LEMMA AttIdle == Idle \in AttRequest /\ Idle.at = "idle" /\ Idle.todo = {} /\ Idle.recipients = {}
BY DEF Idle, AttRequest, AttStages, None

(* Nothing is left to do for a request that ends.                          *)
LEMMA AttFinish ==
  ASSUME AttInv, NEW r \in Requests, Finish(r), UNCHANGED <<linkVars, rows, trail, begun>>,
         absences \subseteq absences', absences' \subseteq Students \X Parents,
         \A n \in absences' : "ABSENT" \in seen[n[1]] /\ n[2] \in everLinked[n[1]],
         \/ failed' = failed + 1 /\ failed < MaxFaults
         \/ /\ failed' = failed
            /\ \A x : ~Logs(request[r], x)
            /\ \A s \in Students : \A p \in owed[s] : ~Tells(request[r], s, p)
  PROVE  AttInv'
<1>1. Carries(Idle)
  BY AttIdle DEF Carries
<1>2. request' = [request EXCEPT ![r] = Idle]
  BY DEF Finish
<1>3. failed' \in 0..MaxFaults /\ (failed' = 0 => failed' = failed)
  BY AttKept, AttendanceBounds
<1>4. failed' = 0 => /\ \A x : ~Logs(request[r], x)
                     /\ \A s \in Students : \A p \in owed[s] : ~Tells(request[r], s, p)
  BY AttKept
<1> QED  BY <1>1, <1>2, <1>3, <1>4, AttKept, AttIdle, AttMove

(* A request begins.                                                       *)
LEMMA AttBegin ==
  ASSUME AttInv, NEW r \in Requests, NEW q \in AttRequest, BeginRequest(r, q), Carries(q)
  PROVE  AttInv'
<1>1. /\ UNCHANGED <<linkVars, rows, trail, absences, failed>>
      /\ request' = [request EXCEPT ![r] = q] /\ request[r].at = "idle"
      /\ begun' \in 0..MaxRequests
  BY AttKept, AttendanceBounds DEF BeginRequest, Busy
<1>2. /\ \A x : ~Logs(request[r], x)
      /\ \A s \in Students : \A p \in owed[s] : ~Tells(request[r], s, p)
  BY <1>1 DEF Logs, Tells
<1> QED  BY <1>1, <1>2, AttKept, AttMove

LEMMA AttBegins ==
  ASSUME AttInv, NEW r \in Requests,
         \/ \E sheet \in Sheets : BeginSheet(r, sheet)
         \/ \E s \in Students, new \in States : BeginCorrection(r, s, new)
  PROVE  AttInv'
<1>1. ASSUME NEW sheet \in Sheets, BeginSheet(r, sheet) PROVE AttInv'
  <2> DEFINE q == [Idle EXCEPT !.at = "existing", !.sheet = sheet]
  <2>1. q \in AttRequest /\ q.at = "existing" /\ q.sheet = sheet
    BY DEF Idle, AttRequest, AttStages, None
  <2>2. Carries(q)
    BY <2>1 DEF Carries
  <2>3. BeginRequest(r, q)
    BY <1>1 DEF BeginSheet
  <2> QED  BY <2>1, <2>2, <2>3, AttBegin
<1>2. ASSUME NEW s \in Students, NEW new \in States, BeginCorrection(r, s, new) PROVE AttInv'
  <2> DEFINE sheet == [x \in {s} |-> new]
             q == [Idle EXCEPT !.at = "correct", !.of = s, !.from = record[s], !.sheet = sheet]
  <2>1. sheet \in Sheets /\ DOMAIN sheet = {s}
    <3>1. sheet \in [{s} -> States] /\ {s} \in (SUBSET Students) \ {{}}
      OBVIOUS
    <3> QED  BY <3>1 DEF Sheets
  <2>2. BeginRequest(r, q) /\ record[s] # None
    BY <1>2 DEF BeginCorrection
  <2>3. record[s] \in States /\ record[s] \in seen[s]
    BY <2>2 DEF AttInv, AttTypes, Traced
  <2> HIDE DEF sheet
  <2>4. /\ q \in AttRequest /\ q.at = "correct" /\ q.sheet = sheet /\ q.of = s /\ q.todo = {}
        /\ q.from = record[s]
    BY <2>1, <2>3 DEF Idle, AttRequest, AttStages
  <2> HIDE DEF q
  <2>5. Carries(q)
    BY <2>1, <2>2, <2>3, <2>4 DEF Carries
  <2> QED  BY <2>2, <2>4, <2>5, AttBegin
<1> QED  BY <1>1, <1>2

(* recordDaily, apart from its transaction.                                *)
LEMMA AttGo ==
  ASSUME AttInv, NEW r \in Requests, NEW where \in AttStages, Go(r, where)
  PROVE  \E q \in AttRequest :
            /\ request' = [request EXCEPT ![r] = q] /\ q.at = where
            /\ q.sheet = request[r].sheet /\ q.from = request[r].from /\ q.todo = request[r].todo
            /\ q.of = request[r].of /\ q.recipients = request[r].recipients
<1> DEFINE q == [request[r] EXCEPT !.at = where]
<1>1. request[r] \in AttRequest
  BY AttKept
<1>2. /\ q \in AttRequest /\ q.at = where
      /\ q.sheet = request[r].sheet /\ q.from = request[r].from /\ q.todo = request[r].todo
      /\ q.of = request[r].of /\ q.recipients = request[r].recipients
  BY <1>1 DEF AttRequest
<1>3. request' = [request EXCEPT ![r] = q]
  BY DEF Go
<1> QED  BY <1>2, <1>3

LEMMA AttExisting == ASSUME AttInv, NEW r \in Requests, Existing(r) PROVE AttInv'
<1>1. /\ UNCHANGED <<linkVars, rows, trail, absences, begun, failed>>
      /\ request[r].at = "existing" /\ (Go(r, "insert") \/ Finish(r))
  BY DEF Existing
<1>2. /\ \A x : ~Logs(request[r], x)
      /\ \A s \in Students : \A p \in owed[s] : ~Tells(request[r], s, p)
  BY <1>1 DEF Logs, Tells
<1>3. CASE Finish(r)
  BY <1>1, <1>2, <1>3, AttKept, AttFinish
<1>4. CASE Go(r, "insert")
  <2>1. PICK q \in AttRequest : /\ request' = [request EXCEPT ![r] = q] /\ q.at = "insert"
                                /\ q.sheet = request[r].sheet
    BY <1>4, AttGo DEF AttStages
  <2>2. Carries(q)
    BY <1>1, <2>1, AttKept DEF Carries
  <2> QED  BY <1>1, <1>2, <2>1, <2>2, AttKept, AttMove
<1> QED  BY <1>1, <1>3, <1>4

LEMMA AttEndSheet == ASSUME AttInv, NEW r \in Requests, EndSheet(r) PROVE AttInv'
<1>1. /\ UNCHANGED <<linkVars, rows, trail, absences, begun, failed>>
      /\ request[r].at = "each" /\ request[r].todo = {} /\ Finish(r)
  BY DEF EndSheet
<1>2. /\ \A x : ~Logs(request[r], x)
      /\ \A s \in Students : \A p \in owed[s] : ~Tells(request[r], s, p)
  BY <1>1 DEF Logs, Tells
<1> QED  BY <1>1, <1>2, AttKept, AttFinish

LEMMA AttAuditEach ==
  ASSUME AttInv, NEW r \in Requests, NEW s \in Students, AuditEach(r, s) PROVE AttInv'
<1> DEFINE p == request[r]
           where == IF p.sheet[s] = "ABSENT" THEN "links" ELSE "each"
           q == [p EXCEPT !.todo = @ \ {s}, !.of = s, !.at = where]
<1>1. /\ UNCHANGED <<linkVars, rows, absences, begun, failed>>
      /\ p.at = "each" /\ s \in p.todo
      /\ trail' = trail \cup {<<s, None, p.sheet[s]>>}
  BY DEF AuditEach
<1>2. request' = [request EXCEPT ![r] = q]
  BY DEF AuditEach
<1>3. /\ p \in AttRequest /\ Carries(p) /\ p.sheet \in Sheets
      /\ s \in DOMAIN p.sheet /\ record[s] # None /\ sheetOf[s] = p.sheet
  BY <1>1, AttKept DEF Carries
<1>4. p.sheet[s] \in States /\ p.sheet[s] \in seen[s]
  BY <1>3 DEF Sheets, AttInv, Traced
<1>5. where \in {"links", "each"} /\ (where = "links" <=> p.sheet[s] = "ABSENT")
  OBVIOUS
<1> HIDE DEF where
<1>6. /\ q \in AttRequest /\ q.at = where /\ q.todo = p.todo \ {s} /\ q.of = s
      /\ q.sheet = p.sheet /\ q.from = p.from
  BY <1>3, <1>5 DEF AttRequest, AttStages
<1> HIDE DEF q
<1>7. Carries(q)
  BY <1>1, <1>3, <1>4, <1>5, <1>6 DEF Carries
<1>8. <<s, None, p.sheet[s]>> \in Entries \cap Rows
  BY <1>3, <1>4 DEF Entries, Entry, Rows
<1>9. \A x : Logs(p, x) => x \in trail' \/ Logs(q, x)
  BY <1>1, <1>5, <1>6 DEF Logs
<1>10. \A z \in Students : \A y \in owed[z] : Tells(p, z, y) => Tells(q, z, y)
  BY <1>1, <1>5, <1>6 DEF Tells
<1> HIDE DEF p
<1> QED  BY <1>1, <1>2, <1>6, <1>7, <1>8, <1>9, <1>10, AttKept, AttMove DEF p

LEMMA AttReadLinks == ASSUME AttInv, NEW r \in Requests, ReadLinks(r) PROVE AttInv'
<1> DEFINE p == request[r]
           q == [p EXCEPT !.at = "publish", !.recipients = links[p.of]]
<1>1. /\ UNCHANGED <<linkVars, rows, trail, absences, begun, failed>>
      /\ p.at = "links" /\ request' = [request EXCEPT ![r] = q]
  BY DEF ReadLinks
<1>2. /\ p \in AttRequest /\ Carries(p) /\ p.of \in Students /\ "ABSENT" \in seen[p.of]
  BY <1>1, AttKept DEF Carries
<1>3. /\ links[p.of] \in SUBSET Parents /\ links[p.of] \subseteq everLinked[p.of]
      /\ owed[p.of] \subseteq links[p.of]
  BY <1>2 DEF AttInv, AttTypes, LinksOK, Told
<1>4. /\ q \in AttRequest /\ q.at = "publish" /\ q.todo = p.todo /\ q.of = p.of
      /\ q.sheet = p.sheet /\ q.from = p.from /\ q.recipients = links[p.of]
  BY <1>2, <1>3 DEF AttRequest, AttStages
<1> HIDE DEF q
<1>5. Carries(q)
  BY <1>1, <1>2, <1>3, <1>4 DEF Carries
<1>6. \A x : Logs(p, x) => Logs(q, x)
  BY <1>1, <1>4 DEF Logs
<1>7. \A z \in Students : \A y \in owed[z] : Tells(p, z, y) => Tells(q, z, y)
  BY <1>1, <1>3, <1>4 DEF Tells
<1> HIDE DEF p
<1> QED  BY <1>1, <1>4, <1>5, <1>6, <1>7, AttKept, AttMove DEF p

LEMMA AttPublish == ASSUME AttInv, NEW r \in Requests, Publish(r) PROVE AttInv'
<1> DEFINE p == request[r]
<1>1. /\ UNCHANGED <<linkVars, rows, trail, begun, failed>>
      /\ p.at = "publish" /\ Go(r, "each")
      /\ absences' = absences \cup {<<p.of, x>> : x \in p.recipients}
  BY DEF Publish
<1>2. PICK q \in AttRequest :
            /\ request' = [request EXCEPT ![r] = q] /\ q.at = "each"
            /\ q.sheet = p.sheet /\ q.todo = p.todo
  BY <1>1, AttGo DEF AttStages
<1>3. /\ p \in AttRequest /\ Carries(p) /\ p.of \in Students /\ "ABSENT" \in seen[p.of]
      /\ p.recipients \subseteq everLinked[p.of] /\ p.recipients \subseteq Parents
  BY <1>1, AttKept DEF Carries, AttRequest
<1>4. Carries(q)
  BY <1>1, <1>2, <1>3 DEF Carries
<1>5. \A x : Logs(p, x) => Logs(q, x)
  BY <1>1, <1>2 DEF Logs
<1>6. \A z \in Students : \A y \in owed[z] :
         Tells(p, z, y) => <<z, y>> \in absences' \/ Tells(q, z, y)
  BY <1>1, <1>2 DEF Tells
<1> HIDE DEF p
<1>7. /\ absences' \subseteq Students \X Parents
      /\ \A n \in absences' : "ABSENT" \in seen[n[1]] /\ n[2] \in everLinked[n[1]]
  BY <1>1, <1>3, AttKept
<1> QED  BY <1>1, <1>2, <1>4, <1>5, <1>6, <1>7, AttKept, AttMove DEF p

LEMMA AttDie == ASSUME AttInv, NEW r \in Requests, Die(r) PROVE AttInv'
<1> DEFINE p == request[r]
<1>1. PICK some \in SUBSET (IF p.at = "publish" THEN p.recipients ELSE {}) :
         absences' = absences \cup {<<p.of, x>> : x \in some}
  BY DEF Die
<1>2. p \in AttRequest /\ Carries(p)
  BY AttKept
<1>3. some # {} => /\ some \subseteq Parents /\ p.of \in Students /\ "ABSENT" \in seen[p.of]
                   /\ some \subseteq everLinked[p.of]
  BY <1>2 DEF Carries, AttRequest
<1> HIDE DEF p
<1>4. /\ absences' \subseteq Students \X Parents /\ absences \subseteq absences'
      /\ \A n \in absences' : "ABSENT" \in seen[n[1]] /\ n[2] \in everLinked[n[1]]
  BY <1>1, <1>3, AttKept
<1> QED  BY <1>4, AttFinish DEF Die

LEMMA AttAuditCorrection == ASSUME AttInv, NEW r \in Requests, AuditCorrection(r) PROVE AttInv'
<1> DEFINE p == request[r]
           e == <<p.of, p.from, p.sheet[p.of]>>
           tells == p.sheet[p.of] = "ABSENT" /\ p.from # "ABSENT"
<1>1. /\ UNCHANGED <<linkVars, rows, absences, begun, failed>>
      /\ p.at = "audit" /\ trail' = trail \cup {e}
      /\ (tells /\ Go(r, "links")) \/ (~tells /\ Finish(r))
  BY DEF AuditCorrection
<1>2. /\ p \in AttRequest /\ p.sheet \in Sheets /\ p.of \in Students /\ p.todo = {}
      /\ p.sheet[p.of] \in seen[p.of] /\ e \in corrections
  BY <1>1, AttKept DEF Carries
<1>3. PICK q \in AttRequest :
            /\ request' = [request EXCEPT ![r] = q] /\ Carries(q)
            /\ tells => q.at = "links" /\ q.of = p.of
  <2>1. CASE tells /\ Go(r, "links")
    <3>1. PICK q \in AttRequest :
            /\ request' = [request EXCEPT ![r] = q] /\ q.at = "links"
            /\ q.sheet = p.sheet /\ q.todo = p.todo /\ q.of = p.of
      BY <2>1, AttGo DEF AttStages
    <3>2. Carries(q)
      BY <1>2, <2>1, <3>1 DEF Carries
    <3> QED  BY <3>1, <3>2
  <2>2. CASE ~tells /\ Finish(r)
    BY <2>2, AttIdle DEF Finish, Carries
  <2> QED  BY <1>1, <2>1, <2>2
<1>4. e \in Entries \cap Rows
  BY <1>2 DEF Entries, AttInv, AttTypes
<1>5. \A x : Logs(p, x) => x \in trail'
  BY <1>1 DEF Logs
<1>6. \A z \in Students : \A y \in owed[z] : Tells(p, z, y) => Tells(q, z, y)
  BY <1>1, <1>3 DEF Tells
<1> HIDE DEF p, e, tells
<1> QED  BY <1>1, <1>3, <1>4, <1>5, <1>6, AttKept, AttMove DEF p

-----------------------------------------------------------------------------
(* The register itself is written.                                         *)

(* Whatever was seen stays seen, and no record is lost.                    *)
LEMMA AttWritten ==
  ASSUME AttInv, NEW new, Write(new),
         DOMAIN new \subseteq Students, \A s \in DOMAIN new : new[s] \in States
  PROVE  /\ record' \in [Students -> States \cup {None}]
         /\ seen' \in [Students -> SUBSET States]
         /\ owed' \in [Students -> SUBSET Parents]
         /\ \A s \in DOMAIN new : /\ record'[s] = new[s] /\ record'[s] # None
                                  /\ seen'[s] = seen[s] \cup {new[s]}
         /\ \A s \in Students \ DOMAIN new : record'[s] = record[s] /\ seen'[s] = seen[s]
         /\ \A s \in Students : /\ owed'[s] \subseteq links[s]
                                /\ owed'[s] # owed[s] => /\ s \in DOMAIN new /\ new[s] = "ABSENT"
                                                         /\ "ABSENT" \notin seen[s]
                                /\ seen[s] \subseteq seen'[s] /\ (record[s] # None => record'[s] # None)
<1>1. /\ record \in [Students -> States \cup {None}] /\ seen \in [Students -> SUBSET States]
      /\ owed \in [Students -> SUBSET Parents] /\ links \in [Students -> SUBSET Parents]
      /\ \A s \in Students : owed[s] \subseteq links[s]
  BY DEF AttInv, AttTypes, LinksOK, Told
<1>2. \A s \in DOMAIN new : new[s] # None
  BY DEF States, None
<1> QED  BY <1>1, <1>2 DEF Write

(* A request writes, and holds what the audit log and the parents are due  *)
(* for it; the other requests stay as they are.                            *)
LEMMA AttWriteStep ==
  ASSUME AttInv, NEW r \in Requests, NEW q \in AttRequest, request' = [request EXCEPT ![r] = q],
         NEW new, Write(new), DOMAIN new \subseteq Students, \A s \in DOMAIN new : new[s] \in States,
         UNCHANGED <<linkVars, trail, absences, begun, failed>>,
         sheetOf' \in [Students -> Sheets \cup {<<>>}],
         corrections' \subseteq Rows, corrections \subseteq corrections',
         \A s \in Students : record[s] # None => sheetOf'[s] = sheetOf[s],
         Traced', \A c : c = q => Carries(c)',
         \A x : ~Logs(request[r], x),
         \A s \in Students : \A p \in Parents : ~Tells(request[r], s, p),
         \A x \in Entries' \ Entries : Logs(q, x),
         \A s \in DOMAIN new : new[s] = "ABSENT" /\ "ABSENT" \notin seen[s] => \A p \in Parents : Tells(q, s, p)
  PROVE  AttInv'
<1>0. UNCHANGED <<links, everLinked>>
  BY DEF linkVars
<1>1. /\ \A s \in Students : seen[s] \subseteq seen'[s] /\ (record[s] # None => record'[s] # None)
      /\ owed' \in [Students -> SUBSET Parents]
      /\ \A s \in Students : owed'[s] \subseteq links[s]
  BY AttWritten
<1>2. AttTypes'
  BY <1>0, AttWritten DEF AttInv, AttTypes, LinksOK
<1>3. request'[r] = q /\ \A y \in Requests \ {r} : request'[y] = request[y]
  BY DEF AttInv, AttTypes
<1>4. Carried'
  <2>1. ASSUME NEW y \in Requests \ {r} PROVE \A c : c = request[y] => Carries(c)'
    <3>1. Carries(request[y]) /\ request[y] \in AttRequest
      BY AttKept
    <3>2. \A s \in Students : seen[s] \subseteq seen'[s]
             /\ (record[s] # None => record'[s] # None /\ sheetOf'[s] = sheetOf[s])
      BY <1>1
    <3>3. request[y].todo \subseteq Students
      BY <3>1 DEF AttRequest
    <3> QED  BY <1>0, <3>1, <3>2, <3>3 DEF Carries
  <2>2. ASSUME NEW y \in Requests PROVE \A c : c = request'[y] => Carries(c)'
    BY <1>3, <2>1
  <2> QED  BY <2>2 DEF Carried, Carries
<1>5. Entries \subseteq Entries'
  BY <1>1 DEF Entries, Entry
<1>6. Logged'
  <2>1. ASSUME failed' = 0, NEW x \in Entries'
        PROVE  x \in trail' \/ \E y \in Requests : Logs(request'[y], x)
    <3>1. CASE x \in Entries
      <4>1. x \in trail \/ \E y \in Requests : Logs(request[y], x)
        BY <2>1, <3>1 DEF AttInv, Logged
      <4> QED  BY <1>3, <4>1
    <3>2. CASE x \notin Entries
      BY <1>3, <3>2
    <3> QED  BY <3>1, <3>2
  <2> QED  BY <1>5, <2>1 DEF AttInv, Logged, Logs
<1>7. Told'
  <2>1. ASSUME failed' = 0, NEW s \in Students, NEW p \in owed'[s]
        PROVE  <<s, p>> \in absences' \/ \E y \in Requests : Tells(request'[y], s, p)
    <3>1. p \in Parents
      BY <1>1
    <3>2. CASE owed'[s] = owed[s]
      <4>1. <<s, p>> \in absences \/ \E y \in Requests : Tells(request[y], s, p)
        BY <2>1, <3>2 DEF AttInv, Told
      <4> QED  BY <1>3, <3>1, <4>1
    <3>3. CASE owed'[s] # owed[s]
      <4>1. s \in DOMAIN new /\ new[s] = "ABSENT" /\ "ABSENT" \notin seen[s]
        BY <3>3, AttWritten
      <4> QED  BY <1>3, <3>1, <4>1
    <3> QED  BY <3>2, <3>3
  <2>2. \A n \in absences' : "ABSENT" \in seen'[n[1]] /\ n[2] \in everLinked'[n[1]]
    BY <1>0, <1>1, AttKept
  <2> QED  BY <1>0, <1>1, <2>1, <2>2 DEF Told, Tells
<1> QED  BY <1>2, <1>4, <1>6, <1>7 DEF AttInv

LEMMA AttInsertSheet == ASSUME AttInv, NEW r \in Requests, InsertSheet(r) PROVE AttInv'
<1>0. PICK p \in AttRequest : p = request[r]
  BY AttKept
<1> DEFINE D == DOMAIN p.sheet
           q == [p EXCEPT !.at = "each", !.todo = D]
<1>1. /\ p \in AttRequest /\ p.at = "insert" /\ p.sheet \in Sheets
      /\ UNCHANGED <<linkVars, corrections, trail, absences, begun, failed>>
  BY <1>0, AttKept DEF InsertSheet, Carries
<1>2. /\ \A x : ~Logs(p, x)
      /\ \A s \in Students : \A y \in Parents : ~Tells(p, s, y)
  BY <1>1 DEF Logs, Tells
<1>3. \A s \in Students : owed[s] \subseteq Parents
  BY DEF AttInv, AttTypes
<1>4. CASE Finish(r) /\ UNCHANGED <<record, history>>
  <2>1. \A s \in Students : \A y \in owed[s] : ~Tells(p, s, y)
    BY <1>2, <1>3
  <2> QED  BY <1>0, <1>1, <1>2, <1>4, <2>1, AttKept, AttFinish DEF rows
<1>5. CASE /\ \A s \in D : record[s] = None
           /\ Write(p.sheet)
           /\ sheetOf' = [s \in Students |-> IF s \in D THEN p.sheet ELSE sheetOf[s]]
           /\ request' = [request EXCEPT ![r].at = "each", ![r].todo = D]
  <2>1. /\ D \in SUBSET Students /\ p.sheet \in [D -> States]
    BY <1>1 DEF Sheets
  <2>2. request' = [request EXCEPT ![r] = q]
    BY <1>0, <1>5
  <2>3. /\ q \in AttRequest /\ q.at = "each" /\ q.sheet = p.sheet /\ q.todo = D
    BY <1>1, <2>1 DEF AttRequest, AttStages
  <2> HIDE DEF q
  <2>4. \A s \in D : seen[s] = {} /\ s \notin DOMAIN sheetOf[s]
    BY <1>5, <2>1 DEF AttInv, Traced
  <2>5. sheetOf' \in [Students -> Sheets \cup {<<>>}]
    BY <1>1, <1>5 DEF AttInv, AttTypes
  <2>6. /\ \A s \in D : record'[s] = p.sheet[s] /\ record'[s] # None /\ seen'[s] = {p.sheet[s]}
        /\ \A s \in Students \ D : record'[s] = record[s] /\ seen'[s] = seen[s]
    <3> HIDE DEF D
    <3>1. PICK new : new = p.sheet
      OBVIOUS
    <3>2. Write(new) /\ DOMAIN new = D /\ D \subseteq Students /\ \A s \in D : new[s] \in States
      BY <1>5, <2>1, <3>1 DEF Write
    <3>3. /\ \A s \in DOMAIN new : record'[s] = new[s] /\ record'[s] # None
                                  /\ seen'[s] = seen[s] \cup {new[s]}
          /\ \A s \in Students \ DOMAIN new : record'[s] = record[s] /\ seen'[s] = seen[s]
      BY <3>2, AttWritten
    <3> QED  BY <2>4, <3>1, <3>2, <3>3
  <2>7. /\ \A s \in D : sheetOf'[s] = p.sheet
        /\ \A s \in Students \ D : sheetOf'[s] = sheetOf[s]
    BY <1>5, <2>1
  <2>8. \A c \in corrections : c[1] \in Students \ D
    BY <1>5 DEF AttInv, Traced, AttTypes, Rows
  <2>9. Traced'
    <3>1. ASSUME NEW s \in Students
          PROVE  /\ record'[s] # None <=> s \in DOMAIN sheetOf'[s]
                 /\ record'[s] = None => seen'[s] = {}
                 /\ record'[s] # None => record'[s] \in seen'[s]
                 /\ record'[s] # None =>
                       seen'[s] = {sheetOf'[s][s]} \cup {c[3] : c \in {x \in corrections : x[1] = s}}
                 /\ \A t \in DOMAIN sheetOf'[s] : t \in Students /\ sheetOf'[t] = sheetOf'[s]
      <4>1. CASE s \in D
        <5>1. {c[3] : c \in {x \in corrections : x[1] = s}} = {}
          BY <2>8, <4>1
        <5> QED  BY <2>1, <2>6, <2>7, <4>1, <5>1
      <4>2. CASE s \notin D
        <5>1. /\ record[s] # None <=> s \in DOMAIN sheetOf[s]
              /\ record[s] = None => seen[s] = {}
              /\ record[s] # None => record[s] \in seen[s]
              /\ record[s] # None =>
                    seen[s] = {sheetOf[s][s]} \cup {c[3] : c \in {x \in corrections : x[1] = s}}
              /\ \A t \in DOMAIN sheetOf[s] : t \in Students /\ sheetOf[t] = sheetOf[s]
          BY DEF AttInv, Traced
        <5>2. \A t \in DOMAIN sheetOf[s] : t \notin D
          <6>1. ASSUME NEW t \in DOMAIN sheetOf[s] PROVE t \notin D
            <7>1. t \in Students /\ sheetOf[t] = sheetOf[s]
              BY <5>1, <6>1
            <7> QED  BY <2>4, <6>1, <7>1
          <6> QED  BY <6>1
        <5> QED  BY <2>6, <2>7, <4>2, <5>1, <5>2
      <4> QED  BY <4>1, <4>2
    <3>2. \A c \in corrections : record'[c[1]] # None /\ c[2] \in seen'[c[1]]
      BY <2>6, <2>8 DEF AttInv, Traced
    <3> QED  BY <1>1, <3>1, <3>2 DEF Traced
  <2>10. \A c : c = q => Carries(c)'
    BY <1>1, <2>3, <2>6, <2>7 DEF Carries
  <2>11. \A x \in Entries' \ Entries : Logs(q, x)
    <3>1. ASSUME NEW s \in Students, record'[s] # None PROVE Entry(s)' \in Entries \/ Logs(q, Entry(s)')
      <4>1. CASE s \in D
        BY <2>3, <2>7, <4>1 DEF Entry, Logs
      <4>2. CASE s \notin D
        BY <2>6, <2>7, <3>1, <4>2 DEF Entry, Entries
      <4> QED  BY <4>1, <4>2
    <3> QED  BY <1>1, <3>1 DEF Entries
  <2>12. \A s \in D : p.sheet[s] = "ABSENT" /\ "ABSENT" \notin seen[s] =>
                         \A y \in Parents : Tells(q, s, y)
    BY <2>3 DEF Tells
  <2>13. \A s \in Students : record[s] # None => sheetOf'[s] = sheetOf[s]
    BY <1>5, <2>7
  <2>14. corrections' \subseteq Rows /\ corrections \subseteq corrections'
    BY <1>1 DEF AttInv, AttTypes
  <2> HIDE DEF D
  <2> QED  BY <1>0, <1>1, <1>2, <1>5, <2>1, <2>2, <2>3, <2>5, <2>9, <2>10, <2>11, <2>12, <2>13, <2>14,
              AttWriteStep
<1> QED  BY <1>0, <1>4, <1>5 DEF InsertSheet, OnSheet, Write

LEMMA AttCorrect == ASSUME AttInv, NEW r \in Requests, Correct(r) PROVE AttInv'
<1>0. PICK p \in AttRequest : p = request[r]
  BY AttKept
<1> DEFINE s == p.of
           new == p.sheet
           row == <<s, p.from, new[s]>>
<1>1. /\ p \in AttRequest /\ p.at = "correct" /\ Carries(p)
      /\ UNCHANGED <<linkVars, sheetOf, trail, absences, begun, failed>>
      /\ Write(new) /\ corrections' = corrections \cup {row} /\ Go(r, "audit")
  BY <1>0, AttKept DEF Correct, Write
<1>2. /\ s \in Students /\ DOMAIN new = {s} /\ p.todo = {}
      /\ record[s] # None /\ p.from \in seen[s] /\ p.from \in States
      /\ new[s] \in States /\ row \in Rows /\ new \in Sheets
  <2>1. p.sheet \in Sheets /\ s \in Students /\ DOMAIN new = {s} /\ p.todo = {}
        /\ record[s] # None /\ p.from \in seen[s]
    BY <1>1 DEF Carries
  <2>2. new[s] \in States
    BY <2>1 DEF Sheets
  <2>3. p.from \in States
    BY <2>1 DEF AttInv, AttTypes
  <2> QED  BY <2>1, <2>2, <2>3 DEF Rows
<1>3. PICK q \in AttRequest :
            /\ request' = [request EXCEPT ![r] = q] /\ q.at = "audit"
            /\ q.sheet = new /\ q.todo = {} /\ q.of = s /\ q.from = p.from
  BY <1>0, <1>1, <1>2, AttGo DEF AttStages
<1> HIDE DEF s, new
<1>4. /\ record'[s] = new[s] /\ record'[s] # None /\ seen'[s] = seen[s] \cup {new[s]}
      /\ \A t \in Students \ {s} : record'[t] = record[t] /\ seen'[t] = seen[t]
  BY <1>1, <1>2, AttWritten
<1>5. /\ \A x : ~Logs(p, x)
      /\ \A t \in Students : \A y \in Parents : ~Tells(p, t, y)
  BY <1>1 DEF Logs, Tells
<1>6. Traced'
  <2>1. ASSUME NEW t \in Students
        PROVE  /\ record'[t] # None <=> t \in DOMAIN sheetOf[t]
               /\ record'[t] = None => seen'[t] = {}
               /\ record'[t] # None => record'[t] \in seen'[t]
               /\ record'[t] # None =>
                     seen'[t] = {sheetOf[t][t]} \cup {c[3] : c \in {x \in corrections' : x[1] = t}}
    <3>1. /\ record[t] # None <=> t \in DOMAIN sheetOf[t]
          /\ record[t] = None => seen[t] = {}
          /\ record[t] # None => record[t] \in seen[t]
          /\ record[t] # None =>
                seen[t] = {sheetOf[t][t]} \cup {c[3] : c \in {x \in corrections : x[1] = t}}
      BY DEF AttInv, Traced
    <3>2. CASE t = s
      <4>1. {x \in corrections' : x[1] = t} = {x \in corrections : x[1] = t} \cup {row}
        BY <1>1, <3>2
      <4>2. {c[3] : c \in {x \in corrections' : x[1] = t}}
              = {c[3] : c \in {x \in corrections : x[1] = t}} \cup {new[s]}
        <5>1. row[3] = new[s]
          OBVIOUS
        <5> HIDE DEF row
        <5> QED  BY <4>1, <5>1
      <4> HIDE DEF row
      <4> QED  BY <1>2, <1>4, <3>1, <3>2, <4>2
    <3>3. CASE t # s
      <4>1. {x \in corrections' : x[1] = t} = {x \in corrections : x[1] = t}
        BY <1>1, <3>3
      <4> HIDE DEF row
      <4> QED  BY <1>4, <3>1, <3>3, <4>1
    <3> QED  BY <3>2, <3>3
  <2>2. ASSUME NEW c \in corrections' PROVE record'[c[1]] # None /\ c[2] \in seen'[c[1]]
    <3>1. CASE c = row
      BY <1>2, <1>4, <3>1
    <3>2. CASE c \in corrections
      <4>1. c[1] \in Students /\ record[c[1]] # None /\ c[2] \in seen[c[1]]
        BY <3>2 DEF AttInv, AttTypes, Traced, Rows
      <4> QED  BY <1>4, <4>1
    <3> QED  BY <1>1, <3>1, <3>2
  <2>3. \A t \in Students : \A u \in DOMAIN sheetOf[t] : u \in Students /\ sheetOf[u] = sheetOf[t]
    BY DEF AttInv, Traced
  <2> QED  BY <1>1, <2>1, <2>2, <2>3 DEF Traced
<1>7. \A c : c = q => Carries(c)'
  BY <1>1, <1>2, <1>3, <1>4 DEF Carries
<1>8. \A x \in Entries' \ Entries : Logs(q, x)
  <2>1. \A t \in Students : record'[t] # None => record[t] # None
    BY <1>2, <1>4
  <2> QED  BY <1>1, <1>3, <2>1 DEF Entries, Entry, Logs
<1>9. \A x \in DOMAIN new : new[x] = "ABSENT" /\ "ABSENT" \notin seen[x] => \A y \in Parents : Tells(q, x, y)
  BY <1>2, <1>3 DEF Tells
<1>10. /\ sheetOf' \in [Students -> Sheets \cup {<<>>}] /\ sheetOf' = sheetOf
       /\ corrections' \subseteq Rows /\ corrections \subseteq corrections'
  BY <1>1, <1>2 DEF AttInv, AttTypes
<1> HIDE DEF row
<1> QED  BY <1>0, <1>1, <1>2, <1>3, <1>5, <1>6, <1>7, <1>8, <1>9, <1>10, AttWriteStep

(* A parent who is no longer linked is no longer owed a notice.            *)
LEMMA AttLinks == ASSUME AttInv, ChangeLinks PROVE AttInv'
<1>1. UNCHANGED <<record, corrections, sheetOf, seen, trail, absences, request, begun, failed>>
  BY DEF ChangeLinks
<1>2. /\ LinksOK' /\ \A s \in Students : everLinked[s] \subseteq everLinked'[s]
  BY DEF ChangeLinks, LinksChange, Link, Unlink, AttInv, AttTypes, LinksOK
<1>3. \A s \in Students : owed'[s] = owed[s] \cap links'[s]
  BY DEF ChangeLinks
<1>4. AttTypes'
  <2>1. owed' \in [Students -> SUBSET Parents]
    BY <1>2 DEF ChangeLinks, LinksOK
  <2> QED  BY <1>1, <1>2, <2>1 DEF AttInv, AttTypes
<1>5. Traced' /\ Logged'
  BY <1>1 DEF AttInv, Traced, Logged, Logs, Entries, Entry
<1>6. Carried'
  <2>1. ASSUME NEW r \in Requests PROVE \A c : c = request[r] => Carries(c)'
    <3>1. Carries(request[r])
      BY AttKept
    <3> QED  BY <1>1, <1>2, <3>1 DEF Carries
  <2> QED  BY <1>1, <2>1 DEF Carried, Carries
<1>7. Told'
  <2>1. \A n \in absences : n[1] \in Students
    BY AttKept
  <2> QED  BY <1>1, <1>2, <1>3, <2>1 DEF AttInv, Told, Tells
<1> QED  BY <1>4, <1>5, <1>6, <1>7 DEF AttInv

LEMMA AttInductive == AttInv /\ [AttendanceNext]_<<linkVars, attendanceVars>> => AttInv'
<1> SUFFICES ASSUME AttInv, [AttendanceNext]_<<linkVars, attendanceVars>> PROVE AttInv'
  OBVIOUS
<1>1. ASSUME NEW r \in Requests,
             \/ \E sheet \in Sheets : BeginSheet(r, sheet)
             \/ Existing(r) \/ InsertSheet(r)
             \/ \E s \in Students : AuditEach(r, s)
             \/ EndSheet(r) \/ ReadLinks(r) \/ Publish(r)
             \/ \E s \in Students, new \in States : BeginCorrection(r, s, new)
             \/ Correct(r) \/ AuditCorrection(r) \/ Die(r)
      PROVE  AttInv'
  BY <1>1, AttBegins, AttExisting, AttInsertSheet, AttAuditEach, AttEndSheet, AttReadLinks, AttPublish,
     AttCorrect, AttAuditCorrection, AttDie
<1>2. CASE ChangeLinks
  BY <1>2, AttLinks
<1>3. CASE UNCHANGED <<linkVars, attendanceVars>>
  <2>1. UNCHANGED <<links, everLinked, record, corrections, sheetOf, seen, owed, trail, absences, request,
                    begun, failed>>
    BY <1>3 DEF linkVars, attendanceVars, rows, history
  <2> QED  BY <2>1 DEF AttInv, AttTypes, LinksOK, Traced, Carried, Carries, Logged, Logs, Entries, Entry,
                       Told, Tells
<1> QED  BY <1>1, <1>2, <1>3 DEF AttendanceNext

LEMMA AttMeans == AttInv => AttendanceTypeOK /\ StatesExplained /\ AbsenceIsNotified
<1> SUFFICES ASSUME AttInv PROVE AttendanceTypeOK /\ StatesExplained /\ AbsenceIsNotified
  OBVIOUS
<1>1. AttendanceTypeOK
  <2>1. \A r \in Requests : Busy(r) => request[r].sheet \in Sheets
    <3>1. ASSUME NEW r \in Requests, Busy(r) PROVE request[r].sheet \in Sheets
      <4>1. request[r].at \in AttStages \ {"idle"}
        BY <3>1, AttKept DEF Busy, AttRequest
      <4> QED  BY <4>1, AttKept DEF Carries, AttStages
    <3> QED  BY <3>1
  <2> QED  BY <2>1 DEF AttInv, AttTypes, Traced, AttendanceTypeOK
<1>2. Quiet => \A r \in Requests : (\A x : ~Logs(request[r], x))
                  /\ \A s \in Students : \A p \in Parents : ~Tells(request[r], s, p)
  BY DEF Quiet, Busy, Logs, Tells
<1>3. StatesExplained
  BY <1>2 DEF AttInv, Traced, Logged, Entries, Entry, StatesExplained
<1>4. AbsenceIsNotified
  BY <1>2 DEF AttInv, AttTypes, Told, AbsenceIsNotified
<1> QED  BY <1>1, <1>3, <1>4

(* Every state a record has been in is that of the sheet that made it or   *)
(* of a correction, and every absence and correction has its audit entry   *)
(* once nobody is at work and nothing failed (recordDaily, correct).       *)
THEOREM StatesExplainedHolds == AttendanceSpec => []StatesExplained
<1> QED  BY LinksStart, AttStarts, AttInductive, AttMeans, PTL DEF AttendanceSpec

(* The parents linked all along hear of an absence (recordDaily, correct,  *)
(* publishAbsence).                                                        *)
THEOREM AbsenceIsNotifiedHolds == AttendanceSpec => []AbsenceIsNotified
<1> QED  BY LinksStart, AttStarts, AttInductive, AttMeans, PTL DEF AttendanceSpec

-----------------------------------------------------------------------------
(* Evaluations.                                                            *)

Writing == [at : Places, read : Notes \cup {<<>>}, puts : Notes \cup {<<>>},
            recipients : SUBSET Parents]
Finding == {"idle", "found", "linked", "audit"}

(* EvTypes, and who may be told.                                             *)
EvTypes ==
    /\ LinksOK
    /\ versions \in Seq(Notes) /\ edits \in Seq(Notes)
    /\ writer \in [Writers -> Writing] /\ reader \in [Parents -> Finding]
    /\ audited \in Nat /\ stopped \in Nat

WasVisible == \E i \in 1..Len(versions) : versions[i].visible
WasEdited == \E i \in 2..Len(versions) : versions[i].visible

(* What a request has found holds of the note's past: an edit under way    *)
(* has read one of its values, one that looks for recipients comes after   *)
(* an edit that left it visible, and a reader has found it visible.        *)
EvFound ==
    /\ \A w \in Writers :
          /\ writer[w].at \in {"manage", "write"} =>
                writer[w].puts \in Notes /\ \E j \in 1..Len(versions) : writer[w].read = versions[j]
          /\ writer[w].at \in {"audit", "recipients"} => Len(versions) >= 2
          /\ writer[w].at \in {"links", "enqueue"} => WasEdited
          /\ writer[w].recipients \subseteq everLinked[Child]
    /\ \A p \in Parents :
          /\ reader[p] # "idle" => WasVisible
          /\ reader[p] \in {"linked", "audit"} => p \in everLinked[Child]

EvInternal ==
    /\ told # {} => WasEdited
    /\ acknowledged # {} => WasVisible
    /\ told \cup acknowledged \subseteq everLinked[Child]

(* One row for each edit, a value from before it.                          *)
EvRows ==
    /\ versions = <<>> => edits = <<>>
    /\ versions # <<>> =>
          /\ Len(edits) = Len(versions) - 1
          /\ \A i \in 1..Len(edits) : \E j \in 1..i : edits[i] = versions[j]

(* What is not in the audit log yet is in the hands of a request.          *)
Unaudited == {w \in Writers : writer[w].at \in {"auditCreated", "audit"}}
EvCounted ==
    /\ IsFiniteSet(Unaudited)
    /\ stopped = 0 => /\ audited + Cardinality(Unaudited) = Len(versions)
                      /\ acknowledged = ackAudited \cup {p \in Parents : reader[p] = "audit"}

EvInv == EvTypes /\ EvFound /\ EvInternal /\ EvRows /\ EvCounted

LEMMA EvGrown ==
  ASSUME NEW s \in Seq(Notes), NEW n \in Notes
  PROVE  /\ Append(s, n) \in Seq(Notes) /\ Len(Append(s, n)) = Len(s) + 1
         /\ \A i \in 1..Len(s) : Append(s, n)[i] = s[i]
         /\ Append(s, n)[Len(s) + 1] = n
         /\ Len(s) \in Nat /\ \A i \in 1..Len(s) : s[i] \in Notes
         /\ s # <<>> => Len(s) >= 1
  OBVIOUS

LEMMA EvStarts == LinksOK /\ EvaluationInit => EvInv
<1> SUFFICES ASSUME LinksOK, EvaluationInit PROVE EvInv
  OBVIOUS
<1> USE DEF EvaluationInit
<1>1. EvTypes
  BY DEF EvTypes, LinksOK, NoWriter, Writing, Places, Finding
<1>2. EvFound
  BY DEF EvFound, NoWriter
<1>3. EvInternal /\ EvRows
  BY DEF EvInternal, EvRows
<1>4. EvCounted
  <2>1. Unaudited = {}
    BY DEF Unaudited, NoWriter
  <2>2. {p \in Parents : reader[p] = "audit"} = {}
    OBVIOUS
  <2> QED  BY <2>1, <2>2, FS_EmptySet DEF EvCounted
<1> QED  BY <1>1, <1>2, <1>3, <1>4 DEF EvInv

(* A request that leaves the note alone and only moves on.                 *)
LEMMA EvMove ==
  ASSUME EvInv, NEW w \in Writers, NEW q \in Writing, writer' = [writer EXCEPT ![w] = q],
         UNCHANGED <<linkVars, versions, edits, acknowledged, ackAudited, audited, reader>>,
         q.at \in {"manage", "write"} =>
            q.puts \in Notes /\ \E j \in 1..Len(versions) : q.read = versions[j],
         q.at \in {"audit", "recipients"} => Len(versions) >= 2,
         q.at \in {"links", "enqueue"} => WasEdited,
         q.recipients \subseteq everLinked[Child],
         stopped' \in Nat, told' \subseteq everLinked[Child], told' # {} => WasEdited,
         \/ stopped' = stopped /\ (q.at \in {"auditCreated", "audit"} <=>
                                  writer[w].at \in {"auditCreated", "audit"})
         \/ stopped' # 0 /\ q.at = "idle"
  PROVE  EvInv'
<1>1. EvTypes'
  BY DEF EvInv, EvTypes, LinksOK, linkVars
<1>2. EvFound'
  BY DEF EvInv, EvTypes, EvFound, WasEdited, WasVisible, linkVars
<1>3. EvInternal' /\ EvRows'
  BY DEF EvInv, EvInternal, EvRows, WasEdited, WasVisible, linkVars
<1>4. EvCounted'
  <2>1. Unaudited' \subseteq Unaudited
    BY DEF EvInv, EvTypes, Unaudited
  <2>2. IsFiniteSet(Unaudited')
    BY <2>1, FS_Subset DEF EvInv, EvCounted
  <2>3. stopped' = 0 => stopped = 0 /\ Unaudited' = Unaudited
    BY DEF EvInv, EvTypes, Unaudited
  <2> QED  BY <2>2, <2>3 DEF EvInv, EvCounted
<1> QED  BY <1>1, <1>2, <1>3, <1>4 DEF EvInv

LEMMA EvEnd ==
  ASSUME EvInv, NEW w \in Writers, Ends(w),
         UNCHANGED <<linkVars, versions, edits, acknowledged, ackAudited, audited, reader>>,
         stopped' \in Nat, told' \subseteq everLinked[Child], told' # {} => WasEdited,
         \/ stopped' # 0
         \/ stopped' = stopped /\ writer[w].at \notin {"auditCreated", "audit"}
  PROVE  EvInv'
<1>1. NoWriter \in Writing
  BY DEF NoWriter, Writing, Places
<1>2. NoWriter.at = "idle" /\ NoWriter.recipients = {}
  BY DEF NoWriter
<1>3. writer' = [writer EXCEPT ![w] = NoWriter]
  BY DEF Ends
<1> QED  BY <1>1, <1>2, <1>3, EvMove

LEMMA EvMovesTo ==
  ASSUME EvTypes, NEW w \in Writers, NEW where \in Places, Moves(w, where)
  PROVE  \E q \in Writing : /\ writer' = [writer EXCEPT ![w] = q] /\ q.at = where
                            /\ q.read = writer[w].read /\ q.puts = writer[w].puts
                            /\ q.recipients = writer[w].recipients
<1> DEFINE q == [writer[w] EXCEPT !.at = where]
<1>1. q \in Writing /\ q.at = where /\ q.read = writer[w].read /\ q.puts = writer[w].puts
      /\ q.recipients = writer[w].recipients
  BY DEF EvTypes, Writing
<1>2. writer' = [writer EXCEPT ![w] = q]
  BY DEF Moves
<1> QED  BY <1>1, <1>2

LEMMA EvQuiet ==
  ASSUME EvInv, NEW w \in Writers,
         MayManage(w) \/ Recipients(w) \/ RecipientLinks(w) \/ Enqueue(w)
  PROVE  EvInv'
<1>1. stopped \in Nat /\ told \subseteq everLinked[Child] /\ (told # {} => WasEdited)
      /\ writer[w].recipients \subseteq everLinked[Child]
  BY DEF EvInv, EvTypes, EvInternal, EvFound
<1>2. CASE MayManage(w)
  <2>1. /\ UNCHANGED <<linkVars, versions, edits, acknowledged, ackAudited, audited, reader, told, stopped>>
        /\ writer[w].at = "manage" /\ (Moves(w, "write") \/ Ends(w))
    BY <1>2 DEF MayManage, noteVars, acks
  <2>2. CASE Moves(w, "write")
    <3>1. writer[w].puts \in Notes /\ \E j \in 1..Len(versions) : writer[w].read = versions[j]
      BY <2>1 DEF EvInv, EvFound
    <3>2. "write" \in Places /\ EvTypes
      BY DEF Places, EvInv
    <3> QED  BY <1>1, <2>1, <2>2, <3>1, <3>2, EvMovesTo, EvMove
  <2>3. CASE Ends(w)
    BY <1>1, <2>1, <2>3, EvEnd
  <2> QED  BY <2>1, <2>2, <2>3
<1>3. CASE Recipients(w)
  <2>1. /\ UNCHANGED <<linkVars, versions, edits, acknowledged, ackAudited, audited, reader, told, stopped>>
        /\ writer[w].at = "recipients"
        /\ IF note.visible THEN Moves(w, "links") ELSE Ends(w)
    BY <1>3 DEF Recipients, noteVars, acks
  <2>2. CASE note.visible
    <3>1. WasEdited
      BY <2>1, <2>2, EvGrown DEF note, WasEdited, EvInv, EvTypes, EvFound
    <3>2. "links" \in Places /\ EvTypes
      BY DEF Places, EvInv
    <3> QED  BY <1>1, <2>1, <2>2, <3>1, <3>2, EvMovesTo, EvMove
  <2>3. CASE ~note.visible
    BY <1>1, <2>1, <2>3, EvEnd
  <2> QED  BY <2>2, <2>3
<1>4. CASE RecipientLinks(w)
  <2> DEFINE q == [writer[w] EXCEPT !.at = "enqueue", !.recipients = links[Child]]
  <2>1. q \in Writing /\ q.at = "enqueue" /\ q.recipients \subseteq everLinked[Child]
    BY ChildIsStudent DEF EvInv, EvTypes, LinksOK, Writing, Places
  <2>2. /\ UNCHANGED <<linkVars, versions, edits, acknowledged, ackAudited, audited, reader, told, stopped>>
        /\ writer' = [writer EXCEPT ![w] = q] /\ writer[w].at = "links"
    BY <1>4 DEF RecipientLinks, noteVars, acks
  <2>3. WasEdited
    BY <2>2 DEF EvInv, EvFound
  <2> QED  BY <1>1, <2>1, <2>2, <2>3, EvMove
<1>5. CASE Enqueue(w)
  <2>1. /\ UNCHANGED <<linkVars, versions, edits, acknowledged, ackAudited, audited, reader, stopped>>
        /\ Ends(w) /\ writer[w].at = "enqueue" /\ told' = told \cup writer[w].recipients
    BY <1>5 DEF Enqueue, noteVars, acks
  <2>2. WasEdited
    BY <2>1 DEF EvInv, EvFound
  <2> QED  BY <1>1, <2>1, <2>2, EvEnd
<1> QED  BY <1>2, <1>3, <1>4, <1>5

LEMMA EvStop == ASSUME EvInv, NEW w \in Writers, Stop(w) PROVE EvInv'
<1>1. /\ UNCHANGED <<linkVars, versions, edits, acknowledged, ackAudited, audited, reader>>
      /\ Ends(w) /\ stopped' = stopped + 1
  BY DEF Stop, noteVars, acks
<1>2. told' \subseteq everLinked[Child] /\ (told' # {} => WasEdited)
  BY DEF Stop, EvInv, EvInternal, EvFound
<1>3. stopped' \in Nat /\ stopped' # 0
  BY <1>1 DEF EvInv, EvTypes
<1> QED  BY <1>1, <1>2, <1>3, EvEnd

LEMMA EvBegin ==
  ASSUME EvInv, NEW w \in Writers, NEW n \in Notes, BeginEdit(w, n) PROVE EvInv'
<1> DEFINE q == [NoWriter EXCEPT !.at = "manage", !.read = note, !.puts = n]
<1>1. /\ UNCHANGED <<linkVars, versions, edits, acknowledged, ackAudited, audited, reader, told, stopped>>
      /\ writer' = [writer EXCEPT ![w] = q] /\ writer[w].at = "idle" /\ versions # <<>>
  BY DEF BeginEdit, exists, noteVars, acks
<1>2. Len(versions) \in 1..Len(versions) /\ note = versions[Len(versions)] /\ note \in Notes
  BY <1>1, EvGrown DEF note, EvInv, EvTypes
<1>3. q \in Writing /\ q.at = "manage" /\ q.read = note /\ q.puts = n /\ q.recipients = {}
  BY <1>2 DEF NoWriter, Writing, Places
<1>4. stopped \in Nat /\ told \subseteq everLinked[Child] /\ (told # {} => WasEdited)
  BY DEF EvInv, EvTypes, EvInternal
<1> HIDE DEF q
<1> QED  BY <1>1, <1>2, <1>3, <1>4, EvMove

-----------------------------------------------------------------------------
(* The note is written and audited.                                        *)

(* A new version: whoever was visible before still was.                    *)
LEMMA EvVersion ==
  ASSUME EvInv, NEW w \in Writers, NEW n \in Notes, NEW q \in Writing,
         versions' = Append(versions, n), writer' = [writer EXCEPT ![w] = q],
         writer[w].at \notin {"auditCreated", "audit"},
         q.at = "auditCreated" \/ (q.at = "audit" /\ versions # <<>>),
         q.recipients \subseteq everLinked[Child],
         edits' \in Seq(Notes), EvRows',
         UNCHANGED <<linkVars, told, acknowledged, ackAudited, audited, reader, stopped>>
  PROVE  EvInv'
<1>1. /\ versions' \in Seq(Notes) /\ Len(versions) \in Nat /\ Len(versions') = Len(versions) + 1
      /\ \A i \in 1..Len(versions) : versions'[i] = versions[i]
      /\ versions # <<>> => Len(versions) >= 1
  BY EvGrown DEF EvInv, EvTypes
<1>2. EvTypes'
  BY <1>1 DEF EvInv, EvTypes, LinksOK, linkVars
<1>3. (WasVisible => WasVisible') /\ (WasEdited => WasEdited')
  BY <1>1 DEF WasVisible, WasEdited
<1>4. EvFound'
  <2>1. ASSUME NEW x \in Writers
        PROVE  /\ writer'[x].at \in {"manage", "write"} => writer'[x].puts \in Notes
                  /\ \E j \in 1..Len(versions') : writer'[x].read = versions'[j]
               /\ writer'[x].at \in {"audit", "recipients"} => Len(versions') >= 2
               /\ writer'[x].at \in {"links", "enqueue"} => WasEdited'
               /\ writer'[x].recipients \subseteq everLinked'[Child]
    <3>1. CASE x = w
      BY <1>1, <3>1 DEF EvInv, EvTypes, linkVars
    <3>2. CASE x # w
      <4>1. writer'[x] = writer[x]
        BY <3>2 DEF EvInv, EvTypes
      <4>2. writer[x].at \in {"manage", "write"} => writer[x].puts \in Notes
                  /\ \E j \in 1..Len(versions) : writer[x].read = versions[j]
        BY DEF EvInv, EvFound
      <4>3. 1..Len(versions) \subseteq 1..Len(versions')
        BY <1>1
      <4>4. writer'[x].at \in {"manage", "write"} => writer'[x].puts \in Notes
                  /\ \E j \in 1..Len(versions') : writer'[x].read = versions'[j]
        BY <1>1, <4>1, <4>2, <4>3
      <4> QED  BY <1>1, <1>3, <4>1, <4>4 DEF EvInv, EvFound, linkVars
    <3> QED  BY <3>1, <3>2
  <2> QED  BY <1>3, <2>1 DEF EvInv, EvFound, linkVars
<1>5. EvInternal'
  BY <1>3 DEF EvInv, EvInternal, linkVars
<1>6. EvCounted'
  <2>1. Unaudited' = Unaudited \cup {w} /\ w \notin Unaudited
    BY DEF EvInv, EvTypes, Unaudited
  <2>2. IsFiniteSet(Unaudited') /\ Cardinality(Unaudited') = Cardinality(Unaudited) + 1
    BY <2>1, FS_AddElement DEF EvInv, EvCounted
  <2>3. Cardinality(Unaudited) \in Nat
    BY FS_CardinalityType DEF EvInv, EvCounted
  <2>4. stopped' = 0 => audited' + Cardinality(Unaudited') = Len(versions')
    BY <1>1, <2>2, <2>3 DEF EvInv, EvTypes, EvCounted
  <2>5. stopped' = 0 => acknowledged' = ackAudited' \cup {p \in Parents : reader'[p] = "audit"}
    BY DEF EvInv, EvCounted
  <2> QED  BY <2>2, <2>4, <2>5 DEF EvCounted
<1> QED  BY <1>2, <1>4, <1>5, <1>6 DEF EvInv

LEMMA EvCreate ==
  ASSUME EvInv, NEW w \in Writers, NEW n \in Notes, CreateNote(w, n) PROVE EvInv'
<1> DEFINE q == [NoWriter EXCEPT !.at = "auditCreated"]
<1>1. q \in Writing /\ q.at = "auditCreated" /\ q.recipients = {}
  BY DEF NoWriter, Writing, Places
<1>2. /\ UNCHANGED <<linkVars, told, acknowledged, ackAudited, audited, reader, stopped, edits>>
      /\ versions = <<>> /\ versions' = <<n>> /\ writer[w].at = "idle"
      /\ writer' = [writer EXCEPT ![w] = q]
  BY DEF CreateNote, exists, acks
<1>3. versions' = Append(versions, n)
  BY <1>2
<1>4. edits' \in Seq(Notes) /\ EvRows'
  BY <1>2 DEF EvInv, EvTypes, EvRows
<1> HIDE DEF q
<1> QED  BY <1>1, <1>2, <1>3, <1>4, EvVersion

LEMMA EvEdit == ASSUME EvInv, NEW w \in Writers, Edit(w) PROVE EvInv'
<1> DEFINE n == writer[w].puts
           old == writer[w].read
<1>1. /\ UNCHANGED <<linkVars, told, acknowledged, ackAudited, audited, reader, stopped>>
      /\ versions' = Append(versions, n) /\ edits' = Append(edits, old)
      /\ writer[w].at = "write" /\ Moves(w, "audit")
  BY DEF Edit, acks
<1>2. n \in Notes /\ \E j \in 1..Len(versions) : old = versions[j]
  BY <1>1 DEF EvInv, EvFound
<1>3. /\ versions # <<>> /\ old \in Notes /\ edits \in Seq(Notes)
  BY <1>2 DEF EvInv, EvTypes
<1>4. PICK q \in Writing : /\ writer' = [writer EXCEPT ![w] = q] /\ q.at = "audit"
                          /\ q.recipients = writer[w].recipients
  BY <1>1, EvMovesTo DEF EvInv, Places
<1>5. writer[w].recipients \subseteq everLinked[Child]
  BY DEF EvInv, EvFound
<1> HIDE DEF n, old
<1>6. /\ edits' \in Seq(Notes) /\ Len(edits') = Len(edits) + 1
      /\ \A i \in 1..Len(edits) : edits'[i] = edits[i]
      /\ edits'[Len(edits) + 1] = old /\ Len(edits) \in Nat
  BY <1>1, <1>3, EvGrown
<1>7. /\ Len(versions') = Len(versions) + 1 /\ Len(versions) \in Nat
      /\ \A i \in 1..Len(versions) : versions'[i] = versions[i]
      /\ versions' # <<>>
  BY <1>1, <1>2, EvGrown DEF EvInv, EvTypes
<1>8. Len(edits) = Len(versions) - 1
  BY <1>3 DEF EvInv, EvRows
<1>9. ASSUME NEW i \in 1..Len(edits') PROVE \E j \in 1..i : edits'[i] = versions'[j]
  <2>1. CASE i = Len(edits')
    BY <1>2, <1>6, <1>7, <1>8, <2>1
  <2>2. CASE i # Len(edits')
    <3>1. i \in 1..Len(edits) /\ 1..i \subseteq 1..Len(versions)
      BY <1>6, <1>8, <2>2
    <3>2. PICK j \in 1..i : edits[i] = versions[j]
      BY <1>3, <3>1 DEF EvInv, EvRows
    <3> QED  BY <1>6, <1>7, <3>1, <3>2
  <2> QED  BY <2>1, <2>2
<1>10. EvRows'
  BY <1>6, <1>7, <1>8, <1>9 DEF EvRows
<1> QED  BY <1>1, <1>2, <1>3, <1>4, <1>5, <1>6, <1>10, EvVersion

(* The audit record of a creation or an edit. *)
LEMMA EvAudit ==
  ASSUME EvInv, NEW w \in Writers, AuditCreated(w) \/ AuditEdit(w) PROVE EvInv'
<1>1. /\ UNCHANGED <<linkVars, versions, edits, told, acknowledged, ackAudited, reader, stopped>>
      /\ writer[w].at \in {"auditCreated", "audit"} /\ audited' = audited + 1
      /\ (writer[w].at = "audit" /\ Moves(w, "recipients")) \/ Ends(w)
  BY DEF AuditCreated, AuditEdit, noteVars, acks
<1>2. PICK q \in Writing :
         /\ writer' = [writer EXCEPT ![w] = q] /\ q.recipients \subseteq everLinked[Child]
         /\ q.at = "idle" \/ (q.at = "recipients" /\ writer[w].at = "audit")
  <2>1. CASE Ends(w)
    <3>1. NoWriter \in Writing /\ NoWriter.at = "idle" /\ NoWriter.recipients = {}
      BY DEF NoWriter, Writing, Places
    <3> QED  BY <2>1, <3>1 DEF Ends
  <2>2. CASE writer[w].at = "audit" /\ Moves(w, "recipients")
    <3>1. writer[w].recipients \subseteq everLinked[Child] /\ EvTypes /\ "recipients" \in Places
      BY DEF EvInv, EvFound, Places
    <3> QED  BY <2>2, <3>1, EvMovesTo
  <2> QED  BY <1>1, <2>1, <2>2
<1>3. EvTypes'
  BY <1>1, <1>2 DEF EvInv, EvTypes, LinksOK, linkVars
<1>4. EvFound'
  <2>1. q.at = "recipients" => Len(versions) >= 2
    BY <1>2 DEF EvInv, EvFound
  <2> QED  BY <1>1, <1>2, <2>1 DEF EvInv, EvTypes, EvFound, WasEdited, WasVisible, linkVars
<1>5. EvInternal' /\ EvRows'
  BY <1>1 DEF EvInv, EvInternal, EvRows, WasEdited, WasVisible, linkVars
<1>6. EvCounted'
  <2>1. Unaudited' = Unaudited \ {w} /\ w \in Unaudited
    BY <1>1, <1>2 DEF EvInv, EvTypes, Unaudited
  <2>2. IsFiniteSet(Unaudited') /\ Cardinality(Unaudited') = Cardinality(Unaudited) - 1
    BY <2>1, FS_RemoveElement DEF EvInv, EvCounted
  <2>3. Cardinality(Unaudited) \in Nat
    BY FS_CardinalityType DEF EvInv, EvCounted
  <2>4. stopped' = 0 => audited' + Cardinality(Unaudited') = Len(versions')
    BY <1>1, <2>2, <2>3 DEF EvInv, EvTypes, EvCounted
  <2>5. stopped' = 0 => acknowledged' = ackAudited' \cup {p \in Parents : reader'[p] = "audit"}
    BY <1>1 DEF EvInv, EvCounted
  <2> QED  BY <2>2, <2>4, <2>5 DEF EvCounted
<1> QED  BY <1>3, <1>4, <1>5, <1>6 DEF EvInv

-----------------------------------------------------------------------------
(* Acknowledgements, and links.                                            *)

LEMMA EvReader ==
  ASSUME EvInv, NEW p \in Parents, NEW where \in Finding, ReaderMoves(p, where),
         where # "idle" => WasVisible,
         where \in {"linked", "audit"} => p \in everLinked[Child],
         stopped' \in Nat, acknowledged' \in {acknowledged, acknowledged \cup {p}},
         acknowledged' # acknowledged => WasVisible /\ p \in everLinked[Child],
         stopped' = 0 => stopped = 0 /\ acknowledged' =
            ackAudited' \cup {x \in Parents : [reader EXCEPT ![p] = where][x] = "audit"}
  PROVE  EvInv'
<1>1. /\ UNCHANGED <<linkVars, versions, edits, told, audited, writer>>
      /\ reader' = [reader EXCEPT ![p] = where]
  BY DEF ReaderMoves, noteVars
<1>2. EvTypes'
  BY <1>1 DEF EvInv, EvTypes, LinksOK, linkVars
<1>3. EvFound'
  BY <1>1 DEF EvInv, EvTypes, EvFound, WasEdited, WasVisible, linkVars
<1>4. EvInternal' /\ EvRows'
  BY <1>1 DEF EvInv, EvInternal, EvRows, WasEdited, WasVisible, linkVars
<1>5. EvCounted'
  BY <1>1 DEF EvInv, EvCounted, Unaudited
<1> QED  BY <1>2, <1>3, <1>4, <1>5 DEF EvInv

LEMMA EvReaders ==
  ASSUME EvInv, NEW p \in Parents,
         FindVisible(p) \/ FindLink(p) \/ Acknowledge(p) \/ AuditAck(p) \/ StopReader(p)
  PROVE  EvInv'
<1>1. /\ stopped \in Nat /\ reader \in [Parents -> Finding]
      /\ stopped = 0 => acknowledged = ackAudited \cup {x \in Parents : reader[x] = "audit"}
      /\ {"idle", "found", "linked", "audit"} \subseteq Finding
  BY DEF EvInv, EvTypes, EvCounted, Finding
<1>2. CASE FindVisible(p)
  <2>1. WasVisible
    BY <1>2, EvGrown DEF FindVisible, exists, note, WasVisible, EvInv, EvTypes
  <2> QED  BY <1>1, <1>2, <2>1, EvReader DEF FindVisible, acks
<1>3. CASE FindLink(p)
  <2>1. WasVisible /\ links[Child] \subseteq everLinked[Child]
    BY <1>3, ChildIsStudent DEF FindLink, EvInv, EvFound, EvTypes, LinksOK
  <2> QED  BY <1>1, <1>3, <2>1, EvReader DEF FindLink, acks
<1>4. CASE Acknowledge(p)
  <2>1. WasVisible /\ p \in everLinked[Child]
    BY <1>4 DEF Acknowledge, EvInv, EvFound
  <2> QED  BY <1>1, <1>4, <2>1, EvReader DEF Acknowledge
<1>5. CASE AuditAck(p)
  BY <1>1, <1>5, EvReader DEF AuditAck
<1>6. CASE StopReader(p)
  BY <1>1, <1>6, EvReader DEF StopReader, acks
<1> QED  BY <1>2, <1>3, <1>4, <1>5, <1>6

LEMMA EvLinks == ASSUME EvInv, PupilLinks PROVE EvInv'
<1>1. UNCHANGED <<versions, edits, told, acknowledged, ackAudited, audited, writer, reader, stopped>>
  BY DEF PupilLinks, evaluationVars, noteVars, acks
<1>2. /\ LinksOK'
      /\ everLinked[Child] \subseteq everLinked'[Child]
  <2>1. LinksOK
    BY DEF EvInv, EvTypes
  <2>2. PICK p \in Parents : Link(Child, p) \/ Unlink(Child, p)
    BY DEF PupilLinks
  <2>3. CASE Link(Child, p)
    BY <2>1, <2>3, ChildIsStudent DEF Link, LinksOK
  <2>4. CASE Unlink(Child, p)
    BY <2>1, <2>4, ChildIsStudent DEF Unlink, LinksOK
  <2> QED  BY <2>2, <2>3, <2>4
<1>3. EvTypes' /\ EvRows' /\ EvCounted'
  BY <1>1, <1>2 DEF EvInv, EvTypes, EvRows, EvCounted, Unaudited
<1>4. EvFound' /\ EvInternal'
  BY <1>1, <1>2 DEF EvInv, EvFound, EvInternal, WasEdited, WasVisible
<1> QED  BY <1>3, <1>4 DEF EvInv

LEMMA EvInductive == EvInv /\ [EvaluationNext]_<<linkVars, evaluationVars>> => EvInv'
<1> SUFFICES ASSUME EvInv, [EvaluationNext]_<<linkVars, evaluationVars>> PROVE EvInv'
  OBVIOUS
<1>1. ASSUME NEW w \in Writers, NEW n \in Notes, CreateNote(w, n) \/ BeginEdit(w, n) PROVE EvInv'
  BY <1>1, EvCreate, EvBegin
<1>2. ASSUME NEW w \in Writers,
             \/ AuditCreated(w) \/ MayManage(w) \/ Edit(w) \/ AuditEdit(w)
             \/ Recipients(w) \/ RecipientLinks(w) \/ Enqueue(w) \/ Stop(w)
      PROVE  EvInv'
  BY <1>2, EvAudit, EvQuiet, EvEdit, EvStop
<1>3. ASSUME NEW p \in Parents,
             FindVisible(p) \/ FindLink(p) \/ Acknowledge(p) \/ AuditAck(p) \/ StopReader(p)
      PROVE  EvInv'
  BY <1>3, EvReaders
<1>4. CASE PupilLinks
  BY <1>4, EvLinks
<1>5. CASE UNCHANGED <<linkVars, evaluationVars>>
  BY <1>5 DEF evaluationVars, noteVars, acks, linkVars, EvInv, EvTypes, LinksOK, EvFound, EvInternal, EvRows,
              EvCounted, Unaudited, WasEdited, WasVisible
<1> QED  BY <1>1, <1>2, <1>3, <1>4, <1>5 DEF EvaluationNext

LEMMA EvNotes == EvInv => InternalStaysInternal /\ EditsHaveHistory
<1> SUFFICES ASSUME EvInv PROVE InternalStaysInternal /\ EditsHaveHistory
  OBVIOUS
<1>1. InternalStaysInternal
  BY DEF EvInv, EvInternal, WasEdited, WasVisible, InternalStaysInternal, EvTypes
<1>2. ASSUME stopped = 0, \A w \in Writers : writer[w].at = "idle",
             \A p \in Parents : reader[p] = "idle"
      PROVE  audited = Len(versions) /\ ackAudited = acknowledged
  <2>1. Unaudited = {} /\ {p \in Parents : reader[p] = "audit"} = {}
    BY <1>2 DEF Unaudited
  <2>2. audited + 0 = Len(versions)
    BY <1>2, <2>1, FS_EmptySet DEF EvInv, EvCounted
  <2>3. audited \in Nat
    BY DEF EvInv, EvTypes
  <2>4. acknowledged = ackAudited \cup {p \in Parents : reader[p] = "audit"}
    BY <1>2 DEF EvInv, EvCounted
  <2>5. audited = Len(versions)
    BY <2>2, <2>3
  <2>6. ackAudited = acknowledged
    BY <2>1, <2>4
  <2> QED  BY <2>5, <2>6
<1> QED  BY <1>1, <1>2 DEF EvInv, EvRows, EditsHaveHistory, exists

(* Parents hear of a note and acknowledge it only if it has been visible   *)
(* to them (recipients, acknowledge, create).                              *)
THEOREM InternalStaysInternalHolds == EvaluationSpec => []InternalStaysInternal
<1> QED  BY LinksStart, EvStarts, EvInductive, EvNotes, PTL DEF EvaluationSpec

(* Every edit leaves one history row, a value the note had before it, and  *)
(* unless a statement fails everything is in the audit log in the end      *)
(* (update, audit).                                                        *)
THEOREM EditsHaveHistoryHolds == EvaluationSpec => []EditsHaveHistory
<1> QED  BY LinksStart, EvStarts, EvInductive, EvNotes, PTL DEF EvaluationSpec

-----------------------------------------------------------------------------
(* Messaging.                                                              *)
TalkStages == {"idle", "mark", "mark again", "save", "insert", "remove", "audit", "report", "publish",
               "state", "adminAudit", "show"}
AuditedOps == (Operations \ {"detail"}) \cup {"create"}
MsgTalk == [op : Operations \cup {"none", "create", "admin"}, at : TalkStages, by : Participants,
            saw : {"NONE", "ACTIVE", "ARCHIVED", "ESCALATED"}, attach : BOOLEAN, file : Nat,
            message : Nat]
MsgRow == [author : Participants, file : Nat, read : BOOLEAN]

MsgTypes ==
    /\ state \in {"NONE", "ACTIVE", "ARCHIVED", "ESCALATED"}
    /\ messages \in Seq(MsgRow) /\ fresh \in Nat /\ files \subseteq 1..fresh
    /\ talk \in [Talks -> MsgTalk]
    /\ audits \subseteq (Operations \cup {"create"}) \X (0..Len(messages))
    /\ notified \subseteq (DOMAIN messages) \X Participants
    /\ adminAudits \in Nat /\ shown \in Nat /\ escalated \in BOOLEAN
    /\ talks \in 0..MaxTalks /\ refused \in 0..MaxRefusals /\ broken \in 0..MaxBreaks

(* The conversation begins with one request of the parent's.               *)
Opened ==
    /\ state = "NONE" <=> messages = <<>>
    /\ messages # <<>> => messages[1].author = "parent"
    /\ state = "NONE" => \A r, s \in Talks : Talking(r) /\ Talking(s) => r = s

(* Where a request q can be, and what it holds there.                      *)
Rightly(q) ==
    /\ q.at # "idle" /\ state = "NONE" => q.op = "create" /\ q.at \in {"save", "insert", "remove"}
    /\ q.at \in {"save", "insert"} => q.op \in {"create", "send"}
    /\ q.op = "create" /\ q.at \in {"save", "insert"} => state = "NONE" /\ q.by = "parent"
    /\ q.file # NoFile => q.at \in {"insert", "remove"} /\ q.file \in files
    /\ q.at = "mark again" => q.op = "read" /\ q.message = 0
    /\ q.at = "state" => q.op \in {"archive", "escalate", "report"} /\ q.message = 0
    /\ q.at = "mark" => q.op \in Operations /\ q.message = 0
    /\ q.at = "audit" => /\ q.op \in AuditedOps /\ q.message \in 0..Len(messages)
                         /\ q.op = "create" => q.message = 1
                         /\ q.op = "send" => q.message \in DOMAIN messages
                         /\ q.op \in {"archive", "escalate", "report"} => q.message = 0
    /\ q.at = "publish" => q.message \in DOMAIN messages
    /\ q.at \in {"adminAudit", "show"} => escalated
MsgTalks == \A r \in Talks : Rightly(talk[r])

MsgFile(n) == messages[n].file
Filed ==
    /\ \A n \in DOMAIN messages : MsgFile(n) # NoFile =>
          /\ MsgFile(n) \in files
          /\ \A m \in DOMAIN messages : MsgFile(m) = MsgFile(n) => m = n
          /\ \A r \in Talks : talk[r].file # MsgFile(n)
    /\ \A r, s \in Talks : talk[r].file # NoFile /\ talk[r].file = talk[s].file => r = s
    /\ broken = 0 => \A f \in files : \/ \E n \in DOMAIN messages : MsgFile(n) = f
                                      \/ \E r \in Talks : talk[r].file = f

(* Who is about to be shown the conversation has been audited.             *)
Showing == {r \in Talks : talk[r].at = "show"}
Admitted ==
    /\ state = "ESCALATED" => escalated
    /\ shown > 0 => escalated
    /\ IsFiniteSet(Showing) /\ shown + Cardinality(Showing) <= adminAudits

(* What request q will audit.                                              *)
WillAudit(q, op, n) == q.at = "audit" /\ AuditedAs(q.op) = op /\ q.message = n
Recorded(op, n) == <<op, n>> \in audits \/ \E r \in Talks : WillAudit(talk[r], op, n)
Logging ==
    broken = 0 =>
       /\ state # "NONE" => Recorded("create", 1)
       /\ \A n \in 2..Len(messages) : Recorded("send", n)
       /\ state = "ARCHIVED" => Recorded("archive", 0)
       /\ state = "ESCALATED" => Recorded("escalate", 0)

MsgInv == MsgTypes /\ Opened /\ MsgTalks /\ Filed /\ Admitted /\ Logging

LEMMA MsgStarts == MessagingInit => MsgInv
<1> SUFFICES ASSUME MessagingInit PROVE MsgInv
  OBVIOUS
<1> USE DEF MessagingInit
<1>1. NoTalk \in MsgTalk /\ NoTalk.at = "idle" /\ NoTalk.file = NoFile
  BY DEF NoTalk, MsgTalk, TalkStages, Participants, NoFile
<1>2. MsgTypes
  <2>1. 0 \in 0..MaxTalks /\ 0 \in 0..MaxRefusals /\ 0 \in 0..MaxBreaks
    BY MessagingBounds
  <2>2. escalated \in BOOLEAN
    OBVIOUS
  <2> QED  BY <1>1, <2>1, <2>2 DEF MsgTypes
<1>3. Opened /\ MsgTalks
  BY <1>1 DEF Opened, MsgTalks, Rightly, Talking
<1>4. Filed
  BY <1>1 DEF Filed, MsgFile
<1>5. Admitted
  <2>1. Showing = {}
    BY <1>1 DEF Showing
  <2> QED  BY <2>1, FS_EmptySet DEF Admitted
<1>6. Logging
  BY DEF Logging
<1> QED  BY <1>2, <1>3, <1>4, <1>5, <1>6 DEF MsgInv

LEMMA MsgKept ==
  ASSUME MsgInv
  PROVE  /\ talk \in [Talks -> MsgTalk]
         /\ \A r \in Talks : talk[r] \in MsgTalk /\ Rightly(talk[r])
         /\ messages \in Seq(MsgRow) /\ Len(messages) \in Nat /\ DOMAIN messages = 1..Len(messages)
         /\ \A n \in DOMAIN messages : messages[n] \in MsgRow
         /\ talks \in 0..MaxTalks /\ refused \in 0..MaxRefusals /\ broken \in 0..MaxBreaks
BY DEF MsgInv, MsgTypes, MsgTalks

(* The other requests stay where they rightly are, and a conversation      *)
(* begins with the only request there is.                                  *)
LEMMA MsgTalksStep ==
  ASSUME MsgInv, NEW r \in Talks, NEW q \in MsgTalk, talk' = [talk EXCEPT ![r] = q],
         Len(messages') \in Nat, Len(messages') >= Len(messages),
         DOMAIN messages' = 1..Len(messages'),
         state # "NONE" => state' # "NONE",
         state' # "NONE" => state # "NONE" \/ Talking(r),
         state' = "NONE" /\ q.at # "idle" => Talking(r) \/ \A s \in Talks : ~Talking(s),
         escalated => escalated',
         \A x \in Talks \ {r} : talk[x].file # NoFile => talk[x].file \in files',
         \A c : c = q => Rightly(c)',
         state' = "NONE" <=> messages' = <<>>,
         messages' # <<>> => messages'[1].author = "parent"
  PROVE  MsgTalks' /\ Opened'
<1>1. talk'[r] = q /\ \A x \in Talks \ {r} : talk'[x] = talk[x]
  BY MsgKept
<1>2. \A x, y \in Talks : state = "NONE" /\ Talking(x) /\ Talking(y) => x = y
  BY DEF MsgInv, Opened
<1>3. MsgTalks'
  <2>1. ASSUME NEW x \in Talks \ {r} PROVE \A c : c = talk[x] => Rightly(c)'
    <3>1. Rightly(talk[x]) /\ talk[x] \in MsgTalk
      BY MsgKept
    <3>2. talk[x].at # "idle" /\ state = "NONE" => state' = "NONE"
      BY <1>2 DEF Talking
    <3>3. talk[x].message \in 0..Len(messages) => talk[x].message \in 0..Len(messages')
      BY MsgKept
    <3>4. talk[x].message \in DOMAIN messages => talk[x].message \in DOMAIN messages'
      BY MsgKept
    <3> QED  BY <3>1, <3>2, <3>3, <3>4 DEF Rightly
  <2>2. ASSUME NEW x \in Talks PROVE \A c : c = talk'[x] => Rightly(c)'
    BY <1>1, <2>1
  <2> QED  BY <2>2 DEF MsgTalks, Rightly
<1>4. Opened'
  <2>1. ASSUME NEW x \in Talks, NEW y \in Talks, state' = "NONE",
               talk'[x].at # "idle", talk'[y].at # "idle"
        PROVE  x = y
    <3>1. state = "NONE"
      BY <2>1
    <3> QED  BY <1>1, <1>2, <2>1, <3>1 DEF Talking
  <2> QED  BY <2>1 DEF Opened, Talking
<1> QED  BY <1>3, <1>4

(* Files.                                                                  *)
LEMMA MsgFiledStep ==
  ASSUME MsgInv, NEW r \in Talks, NEW q \in MsgTalk, talk' = [talk EXCEPT ![r] = q],
         DOMAIN messages' = DOMAIN messages,
         \A n \in DOMAIN messages : messages'[n].file = messages[n].file,
         broken' = 0 => broken = 0,
         \/ /\ files' = files /\ q.file = NoFile
            /\ broken' = 0 => talk[r].file = NoFile
         \/ files' = files /\ q.file = talk[r].file
         \/ /\ files' = files \cup {q.file} /\ q.file \notin files /\ talk[r].file = NoFile
         \/ /\ files' = files \ {talk[r].file} /\ q.file = NoFile /\ talk[r].file # NoFile
  PROVE  Filed' /\ \A x \in Talks \ {r} : talk[x].file # NoFile => talk[x].file \in files'
<1>1. talk'[r] = q /\ \A x \in Talks \ {r} : talk'[x] = talk[x]
  BY MsgKept
<1>2. \A n \in DOMAIN messages : MsgFile(n) # NoFile =>
          /\ MsgFile(n) \in files
          /\ \A m \in DOMAIN messages : MsgFile(m) = MsgFile(n) => m = n
          /\ \A x \in Talks : talk[x].file # MsgFile(n)
  BY DEF MsgInv, Filed
<1>3. \A x, y \in Talks : talk[x].file # NoFile /\ talk[x].file = talk[y].file => x = y
  BY DEF MsgInv, Filed
<1>4. \A x \in Talks : talk[x].file # NoFile => talk[x].file \in files
  BY MsgKept DEF Rightly
<1>5. broken = 0 => \A f \in files : \/ \E n \in DOMAIN messages : MsgFile(n) = f
                                     \/ \E x \in Talks : talk[x].file = f
  BY DEF MsgInv, Filed
<1>6. \A n \in DOMAIN messages : MsgFile(n)' = MsgFile(n)
  BY DEF MsgFile
<1>7. \A x \in Talks \ {r} : talk[x].file # NoFile => talk[x].file \in files'
  BY <1>3, <1>4
<1>8. \A x, y \in Talks : talk'[x].file # NoFile /\ talk'[x].file = talk'[y].file => x = y
  BY <1>1, <1>3, <1>4
<1>9. \A n \in DOMAIN messages : MsgFile(n) # NoFile =>
          MsgFile(n) \in files' /\ \A x \in Talks : talk'[x].file # MsgFile(n)
  BY <1>1, <1>2
<1>10. ASSUME broken' = 0, NEW f \in files'
       PROVE  \/ \E n \in DOMAIN messages : MsgFile(n) = f
              \/ \E x \in Talks : talk'[x].file = f
  <2>1. CASE f \notin files
    BY <1>1, <1>10, <2>1
  <2>2. CASE f \in files
    <3>1. CASE \E n \in DOMAIN messages : MsgFile(n) = f
      BY <3>1
    <3>2. CASE \E x \in Talks : talk[x].file = f
      <4>1. PICK x \in Talks : talk[x].file = f
        BY <3>2
      <4>2. CASE x # r
        BY <1>1, <4>1, <4>2
      <4>3. CASE x = r
        <5>1. NoFile \notin files
          BY DEF MsgInv, MsgTypes, NoFile
        <5> QED  BY <1>1, <1>10, <2>2, <4>1, <4>3, <5>1
      <4> QED  BY <4>2, <4>3
    <3> QED  BY <1>5, <1>10, <2>2, <3>1, <3>2
  <2> QED  BY <2>1, <2>2
<1> QED  BY <1>2, <1>6, <1>7, <1>8, <1>9, <1>10 DEF Filed

(* Administrators.                                                         *)
LEMMA MsgAdmitStep ==
  ASSUME MsgInv, NEW r \in Talks, NEW q \in MsgTalk, talk' = [talk EXCEPT ![r] = q],
         state' = "ESCALATED" => escalated', escalated => escalated',
         \/ q.at # "show" /\ adminAudits' = adminAudits /\ shown' = shown
         \/ q.at # "show" /\ talk[r].at = "show" /\ adminAudits' = adminAudits /\ shown' = shown + 1
         \/ q.at = "show" /\ talk[r].at # "show" /\ adminAudits' = adminAudits + 1 /\ shown' = shown
  PROVE  Admitted'
<1>1. talk'[r] = q /\ \A x \in Talks \ {r} : talk'[x] = talk[x]
  BY MsgKept
<1>2. IsFiniteSet(Showing) /\ Cardinality(Showing) \in Nat /\ shown + Cardinality(Showing) <= adminAudits
      /\ shown \in Nat /\ adminAudits \in Nat
  BY FS_CardinalityType DEF MsgInv, Admitted, MsgTypes
<1>3. talk[r].at = "show" => escalated
  BY MsgKept DEF Rightly
<1>4. shown' > 0 => escalated'
  BY <1>2, <1>3 DEF MsgInv, Admitted
<1>5. CASE q.at # "show"
  <2>1. Showing' = Showing \ {r} /\ (r \in Showing <=> talk[r].at = "show")
    BY <1>1, <1>5 DEF Showing
  <2>2. CASE r \in Showing
    <3>1. IsFiniteSet(Showing') /\ Cardinality(Showing') = Cardinality(Showing) - 1
      BY <1>2, <2>1, <2>2, FS_RemoveElement
    <3> QED  BY <1>2, <1>4, <1>5, <2>1, <2>2, <3>1 DEF Admitted
  <2>3. CASE r \notin Showing
    <3>1. Showing' = Showing
      BY <2>1, <2>3
    <3> QED  BY <1>2, <1>4, <1>5, <2>1, <2>3, <3>1 DEF Admitted
  <2> QED  BY <2>2, <2>3
<1>6. CASE q.at = "show"
  <2>1. Showing' = Showing \cup {r} /\ r \notin Showing
    BY <1>1, <1>6 DEF Showing
  <2>2. IsFiniteSet(Showing') /\ Cardinality(Showing') = Cardinality(Showing) + 1
    BY <1>2, <2>1, FS_AddElement
  <2> QED  BY <1>2, <1>4, <1>6, <2>2 DEF Admitted
<1> QED  BY <1>5, <1>6

(* The audit log.                                                          *)
LEMMA MsgLoggingStep ==
  ASSUME MsgInv, NEW r \in Talks, NEW q \in MsgTalk, talk' = [talk EXCEPT ![r] = q],
         broken' = 0 => broken = 0, audits \subseteq audits',
         broken' = 0 => \A op, n : WillAudit(talk[r], op, n) => <<op, n>> \in audits' \/ WillAudit(q, op, n),
         \/ state' = state
         \/ state = "NONE" /\ state' = "ACTIVE" /\ WillAudit(q, "create", 1)
         \/ state # "NONE" /\ state' = "ARCHIVED" /\ WillAudit(q, "archive", 0)
         \/ state # "NONE" /\ state' = "ESCALATED" /\ WillAudit(q, "escalate", 0),
         \A n \in 2..Len(messages') : n \in 2..Len(messages) \/ WillAudit(q, "send", n)
  PROVE  Logging'
<1>1. talk'[r] = q /\ \A x \in Talks \ {r} : talk'[x] = talk[x]
  BY MsgKept
<1>2. ASSUME NEW op, NEW n, broken' = 0, Recorded(op, n)
      PROVE  <<op, n>> \in audits' \/ \E x \in Talks : WillAudit(talk'[x], op, n)
  <2>1. CASE <<op, n>> \in audits
    BY <2>1
  <2>2. ASSUME NEW x \in Talks, WillAudit(talk[x], op, n)
        PROVE  <<op, n>> \in audits' \/ \E y \in Talks : WillAudit(talk'[y], op, n)
    BY <1>1, <1>2, <2>2
  <2> QED  BY <1>2, <2>1, <2>2 DEF Recorded
<1>3. ASSUME NEW op, NEW n, WillAudit(q, op, n)
      PROVE  \E x \in Talks : WillAudit(talk'[x], op, n)
  BY <1>1, <1>3
<1>4. ASSUME NEW op, NEW n, broken' = 0, Recorded(op, n) \/ WillAudit(q, op, n)
      PROVE  Recorded(op, n)'
  BY <1>2, <1>3, <1>4 DEF Recorded, WillAudit
<1>5. ASSUME broken' = 0 PROVE
         /\ state' # "NONE" => Recorded("create", 1)'
         /\ state' = "ARCHIVED" => Recorded("archive", 0)'
         /\ state' = "ESCALATED" => Recorded("escalate", 0)'
  BY <1>4, <1>5 DEF MsgInv, Logging
<1>6. ASSUME broken' = 0, NEW n \in 2..Len(messages') PROVE Recorded("send", n)'
  BY <1>4, <1>6 DEF MsgInv, Logging
<1> QED  BY <1>5, <1>6 DEF Logging

Alike == /\ messages' \in Seq(MsgRow) /\ Len(messages') = Len(messages)
         /\ \A n \in DOMAIN messages : /\ messages'[n].file = messages[n].file
                                       /\ messages'[n].author = messages[n].author

Begins(r) == Talking(r) \/ state # "NONE" \/ \A s \in Talks : ~Talking(s)

(* A request goes on without writing a message or a file.                  *)
LEMMA MsgMove ==
  ASSUME MsgInv, NEW r \in Talks, NEW q \in MsgTalk, talk' = [talk EXCEPT ![r] = q], Alike, Begins(r),
         UNCHANGED <<files, fresh, notified>>,
         q.file = talk[r].file \/ (q.file = NoFile /\ (broken' = 0 => talk[r].file = NoFile)),
         \/ state' = state /\ escalated' = escalated
         \/ /\ state # "NONE" /\ state' = "ARCHIVED" /\ WillAudit(q, "archive", 0)
            /\ escalated' = escalated
         \/ state # "NONE" /\ state' = "ESCALATED" /\ WillAudit(q, "escalate", 0) /\ escalated' = TRUE,
         audits \subseteq audits', audits' \subseteq (Operations \cup {"create"}) \X (0..Len(messages)),
         \/ q.at # "show" /\ adminAudits' = adminAudits /\ shown' = shown
         \/ q.at # "show" /\ talk[r].at = "show" /\ adminAudits' = adminAudits /\ shown' = shown + 1
         \/ q.at = "show" /\ talk[r].at # "show" /\ adminAudits' = adminAudits + 1 /\ shown' = shown,
         \A c : c = q => Rightly(c)',
         broken' = 0 => broken = 0,
         broken' = 0 => \A op, n : WillAudit(talk[r], op, n) => <<op, n>> \in audits' \/ WillAudit(q, op, n),
         talks' \in 0..MaxTalks, refused' \in 0..MaxRefusals, broken' \in 0..MaxBreaks
  PROVE  MsgInv'
<1>1. /\ DOMAIN messages' = DOMAIN messages /\ DOMAIN messages' = 1..Len(messages')
      /\ Len(messages') \in Nat /\ Len(messages') = Len(messages)
      /\ (messages' = <<>> <=> messages = <<>>)
  BY MsgKept DEF Alike
<1>2. MsgTypes'
  <2>1. talk' \in [Talks -> MsgTalk]
    BY MsgKept
  <2>2. state' \in {"NONE", "ACTIVE", "ARCHIVED", "ESCALATED"}
    BY DEF MsgInv, MsgTypes
  <2>3. adminAudits' \in Nat /\ shown' \in Nat
    BY DEF MsgInv, MsgTypes
  <2>4. escalated' \in BOOLEAN
    BY Zenon DEF MsgInv, MsgTypes
  <2> QED  BY <1>1, <2>1, <2>2, <2>3, <2>4 DEF MsgInv, MsgTypes, Alike
<1>3. Filed' /\ \A x \in Talks \ {r} : talk[x].file # NoFile => talk[x].file \in files'
  BY <1>1, MsgFiledStep DEF Alike
<1>4. MsgTalks' /\ Opened'
  <2>1. state # "NONE" => state' # "NONE"
    BY DEF MsgInv, MsgTypes
  <2>2. state' # "NONE" => state # "NONE"
    OBVIOUS
  <2>3. state' = "NONE" <=> messages' = <<>>
    BY <1>1, <2>1, <2>2 DEF MsgInv, Opened
  <2>4. messages' # <<>> => messages'[1].author = "parent"
    <3>1. messages' # <<>> => 1 \in DOMAIN messages
      BY <1>1, MsgKept
    <3> QED  BY <1>1, <3>1 DEF MsgInv, Opened, Alike
  <2>5. escalated => escalated'
    OBVIOUS
  <2>6. Len(messages') >= Len(messages)
    BY <1>1
  <2>7. /\ state' # "NONE" => state # "NONE" \/ Talking(r)
        /\ state' = "NONE" /\ q.at # "idle" => Talking(r) \/ \A s \in Talks : ~Talking(s)
    BY <2>1, <2>2 DEF Begins
  <2> QED  BY <1>1, <1>3, <2>1, <2>3, <2>4, <2>5, <2>6, <2>7, MsgTalksStep
<1>5. Admitted'
  <2>1. state' = "ESCALATED" => escalated'
    BY DEF MsgInv, Admitted
  <2>2. escalated => escalated'
    OBVIOUS
  <2> QED  BY <2>1, <2>2, MsgAdmitStep
<1>6. Logging'
  <2>1. \A n \in 2..Len(messages') : n \in 2..Len(messages) \/ WillAudit(q, "send", n)
    BY <1>1
  <2> QED  BY <2>1, MsgLoggingStep
<1> QED  BY <1>2, <1>3, <1>4, <1>5, <1>6 DEF MsgInv

LEMMA MsgSame == ASSUME MsgInv, messages' = messages PROVE Alike
BY MsgKept DEF Alike

LEMMA MsgMarked == ASSUME MsgInv, NEW who, messages' = MarkedBy(who) PROVE Alike
<1>1. ASSUME NEW n \in DOMAIN messages
      PROVE  /\ messages'[n] \in MsgRow /\ messages'[n].file = messages[n].file
             /\ messages'[n].author = messages[n].author
  <2>1. messages[n] \in MsgRow
    BY MsgKept
  <2>2. messages'[n] = [messages[n] EXCEPT !.read = messages[n].read \/ messages[n].author # who]
    BY DEF MarkedBy
  <2>3. (messages[n].read \/ messages[n].author # who) \in BOOLEAN
    OBVIOUS
  <2> QED  BY <2>1, <2>2, <2>3 DEF MsgRow
<1>2. messages' = [n \in 1..Len(messages) |-> messages'[n]] /\ Len(messages) \in Nat
  BY MsgKept DEF MarkedBy
<1>3. messages' \in Seq(MsgRow) /\ Len(messages') = Len(messages)
  <2>1. messages' \in [1..Len(messages) -> MsgRow]
    BY <1>1, <1>2, MsgKept
  <2> QED  BY <1>2, <2>1, SeqDef
<1> QED  BY <1>1, <1>3 DEF Alike

LEMMA MsgGoes ==
  ASSUME MsgInv, NEW r \in Talks, NEW where \in TalkStages, GoesTalk(r, where)
  PROVE  \E q \in MsgTalk : /\ talk' = [talk EXCEPT ![r] = q] /\ q.at = where
                            /\ q.op = talk[r].op /\ q.by = talk[r].by /\ q.file = talk[r].file
                            /\ q.message = talk[r].message
<1> DEFINE q == [talk[r] EXCEPT !.at = where]
<1>1. /\ q \in MsgTalk /\ q.at = where /\ q.op = talk[r].op /\ q.by = talk[r].by
      /\ q.file = talk[r].file /\ q.message = talk[r].message
  BY MsgKept DEF MsgTalk
<1>2. talk' = [talk EXCEPT ![r] = q]
  BY DEF GoesTalk
<1> QED  BY <1>1, <1>2

LEMMA MsgEnds ==
  ASSUME NEW r \in Talks, EndsTalk(r)
  PROVE  \E q \in MsgTalk : /\ talk' = [talk EXCEPT ![r] = q] /\ q.at = "idle" /\ q.file = NoFile
<1>1. NoTalk \in MsgTalk /\ NoTalk.at = "idle" /\ NoTalk.file = NoFile
  BY DEF NoTalk, MsgTalk, TalkStages, Participants, NoFile
<1> QED  BY <1>1 DEF EndsTalk

(* A request that has nothing more to do ends.                             *)
LEMMA MsgEnding ==
  ASSUME MsgInv, NEW r \in Talks, EndsTalk(r), Talking(r), Alike,
         UNCHANGED <<state, files, fresh, audits, adminAudits, notified, talks, escalated>>,
         shown' = shown \/ (talk[r].at = "show" /\ shown' = shown + 1),
         \/ broken' = broken + 1 /\ broken < MaxBreaks
         \/ broken' = broken /\ talk[r].at # "audit" /\ talk[r].file = NoFile,
         refused' \in 0..MaxRefusals
  PROVE  MsgInv'
<1>1. PICK q \in MsgTalk : /\ talk' = [talk EXCEPT ![r] = q] /\ q.at = "idle" /\ q.file = NoFile
  BY MsgEnds
<1>2. broken' \in 0..MaxBreaks /\ (broken' = 0 => broken' = broken /\ broken = 0)
  BY MsgKept, MessagingBounds
<1>3. \A c : c = q => Rightly(c)'
  BY <1>1 DEF Rightly
<1>4. broken' = 0 => \A op, n : ~WillAudit(talk[r], op, n)
  BY <1>2, MsgKept DEF WillAudit
<1>5. audits \subseteq (Operations \cup {"create"}) \X (0..Len(messages)) /\ talks \in 0..MaxTalks
  BY DEF MsgInv, MsgTypes
<1>6. broken' = 0 => talk[r].file = NoFile
  BY <1>2, MsgKept
<1> QED  BY <1>1, <1>2, <1>3, <1>4, <1>5, <1>6, MsgMove DEF Begins

LEMMA MsgBegin ==
  ASSUME MsgInv, NEW r \in Talks, NEW q \in MsgTalk, BeginTalk(r, q), q.file = NoFile,
         q.at \notin {"show", "audit"}, state # "NONE" \/ \A s \in Talks : ~Talking(s),
         Rightly(q)
  PROVE  MsgInv'
<1>1. /\ UNCHANGED <<state, messages, files, fresh, audits, adminAudits, shown, notified, refused, broken,
                     escalated>>
      /\ talk' = [talk EXCEPT ![r] = q] /\ talk[r].at = "idle" /\ talks' \in 0..MaxTalks
  BY MsgKept, MessagingBounds DEF BeginTalk, Talking, logs
<1>2. Rightly(talk[r]) /\ talk[r].file = NoFile
  BY <1>1, MsgKept DEF Rightly
<1>3. \A c : c = q => Rightly(c)'
  BY <1>1 DEF Rightly
<1>4. \A op, n : ~WillAudit(talk[r], op, n)
  BY <1>1 DEF WillAudit
<1>5. audits \subseteq (Operations \cup {"create"}) \X (0..Len(messages)) /\ Alike
  BY <1>1, MsgSame DEF MsgInv, MsgTypes
<1> QED  BY <1>1, <1>2, <1>3, <1>4, <1>5, MsgKept, MsgMove DEF Begins

LEMMA MsgBegins ==
  ASSUME MsgInv, NEW r \in Talks,
         \/ \E attach \in BOOLEAN :
               \/ BeginConversation(r, attach)
               \/ \E who \in Participants, op \in Operations : BeginOperation(r, who, op, attach)
         \/ BeginAdmin(r)
  PROVE  MsgInv'
<1>1. ASSUME NEW attach \in BOOLEAN, BeginConversation(r, attach) PROVE MsgInv'
  <2> DEFINE q == [NoTalk EXCEPT !.op = "create", !.at = ToStore(attach), !.attach = attach]
  <2>1. /\ q \in MsgTalk /\ q.op = "create" /\ q.at \in {"save", "insert"} /\ q.by = "parent"
        /\ q.file = NoFile /\ q.message = 0
    BY DEF NoTalk, MsgTalk, TalkStages, Participants, NoFile, ToStore
  <2>2. BeginTalk(r, q) /\ state = "NONE" /\ \A s \in Talks : ~Talking(s)
    BY <1>1 DEF BeginConversation
  <2> HIDE DEF q
  <2>3. Rightly(q)
    BY <2>1, <2>2 DEF Rightly
  <2> QED  BY <2>1, <2>2, <2>3, MsgBegin
<1>2. ASSUME NEW attach \in BOOLEAN, NEW who \in Participants, NEW op \in Operations,
             BeginOperation(r, who, op, attach)
      PROVE  MsgInv'
  <2> DEFINE q == [NoTalk EXCEPT !.op = op, !.at = "mark", !.by = who, !.saw = state, !.attach = attach]
  <2>1. state \in {"NONE", "ACTIVE", "ARCHIVED", "ESCALATED"}
    BY DEF MsgInv, MsgTypes
  <2>2. /\ q \in MsgTalk /\ q.op = op /\ q.at = "mark" /\ q.file = NoFile /\ q.message = 0
    BY <2>1 DEF NoTalk, MsgTalk, TalkStages, NoFile
  <2>3. BeginTalk(r, q) /\ state # "NONE"
    BY <1>2 DEF BeginOperation
  <2> HIDE DEF q
  <2>4. Rightly(q)
    BY <2>2, <2>3 DEF Rightly
  <2> QED  BY <2>2, <2>3, <2>4, MsgBegin
<1>3. CASE BeginAdmin(r)
  <2> DEFINE q == [NoTalk EXCEPT !.op = "admin", !.at = "adminAudit"]
  <2>1. /\ q \in MsgTalk /\ q.op = "admin" /\ q.at = "adminAudit" /\ q.file = NoFile
    BY DEF NoTalk, MsgTalk, TalkStages, Participants, NoFile
  <2>2. BeginTalk(r, q) /\ state = "ESCALATED" /\ escalated
    BY <1>3 DEF BeginAdmin, MsgInv, Admitted
  <2> HIDE DEF q
  <2>3. Rightly(q)
    BY <2>1, <2>2 DEF Rightly
  <2> QED  BY <2>1, <2>2, <2>3, MsgBegin
<1> QED  BY <1>1, <1>2, <1>3

(* A request goes to its next stage and keeps what it holds.               *)
LEMMA MsgGoing ==
  ASSUME MsgInv, NEW r \in Talks, Talking(r), NEW where \in TalkStages, GoesTalk(r, where), Alike,
         UNCHANGED <<files, fresh, audits, shown, notified, talks, broken>>,
         talk[r].at # "audit",
         \/ state' = state /\ escalated' = escalated
         \/ /\ where = "audit" /\ talk[r].op = "archive" /\ talk[r].message = 0
            /\ state # "NONE" /\ state' = "ARCHIVED" /\ escalated' = escalated
         \/ /\ where = "audit" /\ talk[r].op \in {"escalate", "report"} /\ talk[r].message = 0
            /\ state # "NONE" /\ state' = "ESCALATED" /\ escalated' = TRUE,
         where = "show" => talk[r].at # "show" /\ adminAudits' = adminAudits + 1,
         where # "show" => adminAudits' = adminAudits,
         \A c \in MsgTalk : /\ c.at = where /\ c.op = talk[r].op /\ c.by = talk[r].by
                            /\ c.file = talk[r].file /\ c.message = talk[r].message
                            => Rightly(c)',
         refused' \in 0..MaxRefusals
  PROVE  MsgInv'
<1>1. PICK q \in MsgTalk :
         /\ talk' = [talk EXCEPT ![r] = q] /\ q.at = where /\ q.op = talk[r].op /\ q.by = talk[r].by
         /\ q.file = talk[r].file /\ q.message = talk[r].message
  BY MsgGoes
<1>2. \A c : c = q => Rightly(c)'
  BY <1>1
<1>3. \A op, n : ~WillAudit(talk[r], op, n)
  BY DEF WillAudit
<1>4. audits \subseteq (Operations \cup {"create"}) \X (0..Len(messages)) /\ talks \in 0..MaxTalks
      /\ broken \in 0..MaxBreaks
  BY DEF MsgInv, MsgTypes
<1>5. \/ state' = state /\ escalated' = escalated
      \/ /\ state # "NONE" /\ state' = "ARCHIVED" /\ WillAudit(q, "archive", 0)
         /\ escalated' = escalated
      \/ state # "NONE" /\ state' = "ESCALATED" /\ WillAudit(q, "escalate", 0) /\ escalated' = TRUE
  BY <1>1 DEF WillAudit, AuditedAs
<1> QED  BY <1>1, <1>2, <1>3, <1>4, <1>5, MsgMove DEF Begins

LEMMA MsgStages ==
  ASSUME MsgInv, NEW r \in Talks,
         MarkRead(r) \/ MarkAgain(r) \/ InsertRefused(r) \/ SetState(r) \/ AdminAudit(r)
  PROVE  MsgInv'
<1>1. Rightly(talk[r]) /\ talk[r] \in MsgTalk /\ refused \in 0..MaxRefusals
  BY MsgKept
<1>2. CASE MarkRead(r)
  <2>1. /\ UNCHANGED <<state, files, fresh, audits, adminAudits, shown, notified, talks, refused, broken,
                       escalated>>
        /\ talk[r].at = "mark" /\ Alike
    BY <1>2, MsgMarked DEF MarkRead, logs, limits
  <2>2. /\ talk[r].file = NoFile /\ talk[r].message = 0 /\ state # "NONE" /\ Talking(r)
        /\ talk[r].op \in Operations
    BY <1>1, <2>1 DEF Rightly, Talking
  <2>3. CASE EndsTalk(r)
    BY <1>1, <2>1, <2>2, <2>3, MsgEnding
  <2>4. CASE GoesTalk(r, AfterAccess(talk[r])) /\ AfterAccess(talk[r]) # "idle"
    <3> DEFINE where == AfterAccess(talk[r])
    <3>1. /\ where \in {"save", "insert", "state", "mark again"} /\ where \in TalkStages
          /\ where \in {"save", "insert"} => talk[r].op = "send"
          /\ where = "state" => talk[r].op \in {"archive", "escalate", "report"}
          /\ where = "mark again" => talk[r].op = "read"
      BY <2>2, <2>4 DEF AfterAccess, ToStore, TalkStages, Operations
    <3> HIDE DEF where
    <3>2. GoesTalk(r, where)
      BY <2>4 DEF where
    <3>3. \A c \in MsgTalk : /\ c.at = where /\ c.op = talk[r].op /\ c.by = talk[r].by
                             /\ c.file = talk[r].file /\ c.message = talk[r].message
                             => Rightly(c)'
      BY <2>1, <2>2, <3>1 DEF Rightly
    <3> QED  BY <1>1, <2>1, <2>2, <3>1, <3>2, <3>3, MsgGoing
  <2> QED  BY <1>2, <2>3, <2>4 DEF MarkRead
<1>3. CASE MarkAgain(r)
  <2>1. /\ UNCHANGED <<state, files, fresh, audits, adminAudits, shown, notified, talks, refused, broken,
                       escalated>>
        /\ talk[r].at = "mark again" /\ Alike /\ GoesTalk(r, "audit") /\ Talking(r)
    BY <1>3, MsgMarked DEF MarkAgain, logs, limits, Talking
  <2>2. talk[r].file = NoFile /\ talk[r].message = 0 /\ state # "NONE" /\ talk[r].op = "read"
    BY <1>1, <2>1 DEF Rightly
  <2>3. \A c \in MsgTalk : /\ c.at = "audit" /\ c.op = talk[r].op /\ c.by = talk[r].by
                           /\ c.file = talk[r].file /\ c.message = talk[r].message
                           => Rightly(c)'
    <3>1. 0 \in 0..Len(messages')
      <4>1. Len(messages') = Len(messages)
        BY <2>1 DEF Alike
      <4>2. Len(messages) \in Nat
        BY MsgKept
      <4> QED  BY <4>1, <4>2
    <3>2. "read" \in AuditedOps
      BY DEF AuditedOps, Operations
    <3> QED  BY <2>1, <2>2, <3>1, <3>2 DEF Rightly
  <2>4. "audit" \in TalkStages
    BY DEF TalkStages
  <2> QED  BY <1>1, <2>1, <2>3, <2>4, MsgGoing
<1>4. CASE InsertRefused(r)
  <2>1. /\ UNCHANGED <<state, files, fresh, audits, adminAudits, shown, notified, talks, broken, escalated>>
        /\ messages' = messages /\ talk[r].at = "insert" /\ Talking(r) /\ refused' \in 0..MaxRefusals
        /\ IF talk[r].file = NoFile THEN EndsTalk(r) ELSE GoesTalk(r, "remove")
    BY <1>1, <1>4, MessagingBounds DEF InsertRefused, logs, Talking
  <2>2. CASE talk[r].file = NoFile
    BY <2>1, <2>2, MsgEnding, MsgSame
  <2>3. CASE talk[r].file # NoFile
    <3>1. \A c \in MsgTalk : /\ c.at = "remove" /\ c.op = talk[r].op /\ c.by = talk[r].by
                             /\ c.file = talk[r].file /\ c.message = talk[r].message
                             => Rightly(c)'
      BY <1>1, <2>1 DEF Rightly
    <3>2. "remove" \in TalkStages /\ GoesTalk(r, "remove")
      BY <2>1, <2>3 DEF TalkStages
    <3> QED  BY <2>1, <3>1, <3>2, MsgGoing, MsgSame
  <2> QED  BY <2>2, <2>3
<1>5. CASE SetState(r)
  <2>1. /\ UNCHANGED <<files, fresh, audits, adminAudits, shown, notified, talks, refused, broken>>
        /\ messages' = messages /\ talk[r].at = "state" /\ Talking(r) /\ GoesTalk(r, "audit")
        /\ state' = IF talk[r].op = "archive" THEN "ARCHIVED" ELSE "ESCALATED"
        /\ escalated' = (escalated \/ state' = "ESCALATED")
    BY <1>5 DEF SetState, logs, limits, Talking
  <2>2. /\ talk[r].file = NoFile /\ talk[r].message = 0 /\ state # "NONE"
        /\ talk[r].op \in {"archive", "escalate", "report"}
    BY <1>1, <2>1 DEF Rightly
  <2>3. \A c \in MsgTalk : /\ c.at = "audit" /\ c.op = talk[r].op /\ c.by = talk[r].by
                           /\ c.file = talk[r].file /\ c.message = talk[r].message
                           => Rightly(c)'
    <3>1. Len(messages') \in Nat
      BY <2>1, MsgKept
    <3> QED  BY <2>1, <2>2, <3>1 DEF Rightly, AuditedOps, Operations
  <2>4. "audit" \in TalkStages /\ escalated \in BOOLEAN
    BY DEF TalkStages, MsgInv, MsgTypes
  <2>5. \/ /\ talk[r].op = "archive" /\ state' = "ARCHIVED" /\ escalated' = escalated
        \/ /\ talk[r].op \in {"escalate", "report"} /\ state' = "ESCALATED" /\ escalated' = TRUE
    BY <2>1, <2>2, <2>4
  <2> QED  BY <1>1, <2>1, <2>2, <2>3, <2>4, <2>5, MsgGoing, MsgSame
<1>6. CASE AdminAudit(r)
  <2>1. /\ UNCHANGED <<state, files, fresh, audits, shown, notified, talks, refused, broken, escalated>>
        /\ messages' = messages /\ talk[r].at = "adminAudit" /\ Talking(r) /\ GoesTalk(r, "show")
        /\ adminAudits' = adminAudits + 1
    BY <1>6 DEF AdminAudit, limits, Talking
  <2>2. \A c \in MsgTalk : /\ c.at = "show" /\ c.op = talk[r].op /\ c.by = talk[r].by
                           /\ c.file = talk[r].file /\ c.message = talk[r].message
                           => Rightly(c)'
    BY <1>1, <2>1 DEF Rightly
  <2>3. "show" \in TalkStages
    BY DEF TalkStages
  <2> QED  BY <1>1, <2>1, <2>2, <2>3, MsgGoing, MsgSame
<1> QED  BY <1>2, <1>3, <1>4, <1>5, <1>6

(* A request that has been audited goes on or ends.                        *)
LEMMA MsgAudit == ASSUME MsgInv, NEW r \in Talks, Audit(r) PROVE MsgInv'
<1> DEFINE e == <<AuditedAs(talk[r].op), talk[r].message>>
<1>1. /\ UNCHANGED <<state, messages, files, fresh, adminAudits, shown, notified, talks, refused, broken,
                     escalated>>
      /\ talk[r].at = "audit" /\ Talking(r) /\ audits' = audits \cup {e}
      /\ IF AfterAudit(talk[r].op) = "idle" THEN EndsTalk(r) ELSE GoesTalk(r, AfterAudit(talk[r].op))
  BY DEF Audit, limits, Talking
<1>2. /\ talk[r].file = NoFile /\ talk[r].op \in AuditedOps /\ talk[r].message \in 0..Len(messages)
      /\ state # "NONE"
  BY <1>1, MsgKept DEF Rightly
<1>3. AuditedAs(talk[r].op) \in Operations \cup {"create"}
  BY <1>2 DEF AuditedAs, AuditedOps, Operations
<1>4. audits \subseteq (Operations \cup {"create"}) \X (0..Len(messages))
  BY DEF MsgInv, MsgTypes
<1>5. audits' \subseteq (Operations \cup {"create"}) \X (0..Len(messages))
  BY <1>1, <1>2, <1>3, <1>4
<1>6. \A op, n : WillAudit(talk[r], op, n) => <<op, n>> \in audits'
  BY <1>1 DEF WillAudit
<1>7. PICK q \in MsgTalk : /\ talk' = [talk EXCEPT ![r] = q] /\ q.file = NoFile
                           /\ q.at # "show" /\ Rightly(q)
  <2>1. CASE EndsTalk(r)
    BY <2>1, MsgEnds DEF Rightly
  <2>2. CASE GoesTalk(r, AfterAudit(talk[r].op)) /\ AfterAudit(talk[r].op) # "idle"
    <3> DEFINE where == AfterAudit(talk[r].op)
    <3>1. /\ where \in {"publish", "report"} /\ where \in TalkStages
          /\ where = "publish" => talk[r].op = "send"
      BY <2>2 DEF AfterAudit, TalkStages
    <3> HIDE DEF where
    <3>2. GoesTalk(r, where)
      BY <2>2 DEF where
    <3>3. PICK q \in MsgTalk :
             /\ talk' = [talk EXCEPT ![r] = q] /\ q.at = where /\ q.op = talk[r].op
             /\ q.file = talk[r].file /\ q.message = talk[r].message
      BY <3>1, <3>2, MsgGoes
    <3>4. where = "publish" => q.message \in DOMAIN messages
      BY <1>1, <3>1, <3>3, MsgKept DEF Rightly
    <3>5. Rightly(q)
      BY <1>2, <3>1, <3>3, <3>4 DEF Rightly
    <3> QED  BY <1>2, <3>1, <3>3, <3>5
  <2> QED  BY <1>1, <2>1, <2>2
<1>8. \A c : c = q => Rightly(c)'
  BY <1>1, <1>7 DEF Rightly
<1> HIDE DEF e
<1>9. audits \subseteq audits'
  BY <1>1
<1> QED  BY <1>1, <1>2, <1>5, <1>6, <1>7, <1>8, <1>9, MsgKept, MsgSame, MsgMove DEF Begins

LEMMA MsgLasts ==
  ASSUME MsgInv, NEW r \in Talks, AuditReport(r) \/ PublishSent(r) \/ Show(r) \/ Breaks(r)
  PROVE  MsgInv'
<1>1. Rightly(talk[r]) /\ refused \in 0..MaxRefusals
  BY MsgKept
<1>2. CASE AuditReport(r)
  <2>1. /\ UNCHANGED <<state, messages, files, fresh, adminAudits, shown, notified, talks, refused, broken,
                       escalated>>
        /\ talk[r].at = "report" /\ Talking(r) /\ audits' = audits \cup {<<"report", 0>>} /\ EndsTalk(r)
    BY <1>2 DEF AuditReport, limits, Talking
  <2>2. PICK q \in MsgTalk : /\ talk' = [talk EXCEPT ![r] = q] /\ q.at = "idle" /\ q.file = NoFile
    BY <2>1, MsgEnds
  <2>3. audits' \subseteq (Operations \cup {"create"}) \X (0..Len(messages))
    <3>1. "report" \in Operations /\ 0 \in 0..Len(messages)
      BY MsgKept DEF Operations
    <3> QED  BY <2>1, <3>1 DEF MsgInv, MsgTypes
  <2>4. talk[r].file = NoFile
    BY <1>1, <2>1 DEF Rightly
  <2>5. (\A op, n : ~WillAudit(talk[r], op, n)) /\ (\A c : c = q => Rightly(c)')
    BY <2>1, <2>2 DEF WillAudit, Rightly
  <2>6. audits \subseteq audits' /\ Alike /\ Begins(r)
    BY <2>1, MsgSame DEF Begins
  <2> QED  BY <2>1, <2>2, <2>3, <2>4, <2>5, <2>6, MsgKept, MsgMove
<1>3. CASE PublishSent(r)
  <2>1. MessageId(talk[r].message) # ConversationId
    BY DEF MessageId, ConversationId
  <2>2. notified' = notified
    BY <1>3, <2>1 DEF PublishSent, RecipientsOf
  <2>3. /\ UNCHANGED <<state, messages, files, fresh, audits, adminAudits, shown, talks, refused, broken,
                       escalated>>
        /\ talk[r].at = "publish" /\ Talking(r) /\ EndsTalk(r)
    BY <1>3 DEF PublishSent, limits, Talking
  <2>4. talk[r].file = NoFile
    BY <1>1, <2>3 DEF Rightly
  <2> QED  BY <1>1, <2>2, <2>3, <2>4, MsgSame, MsgEnding
<1>4. CASE Show(r)
  <2>1. /\ UNCHANGED <<state, messages, files, fresh, audits, adminAudits, notified, talks, refused, broken,
                       escalated>>
        /\ talk[r].at = "show" /\ Talking(r) /\ EndsTalk(r) /\ shown' = shown + 1
    BY <1>4 DEF Show, limits, Talking
  <2>2. talk[r].file = NoFile
    BY <1>1, <2>1 DEF Rightly
  <2> QED  BY <1>1, <2>1, <2>2, MsgSame, MsgEnding
<1>5. CASE Breaks(r)
  <2>1. /\ UNCHANGED <<state, messages, files, fresh, audits, adminAudits, shown, notified, talks, refused,
                       escalated>>
        /\ Talking(r) /\ EndsTalk(r) /\ broken' = broken + 1 /\ broken < MaxBreaks
    BY <1>5 DEF Breaks, logs
  <2> QED  BY <1>1, <2>1, MsgSame, MsgEnding
<1> QED  BY <1>2, <1>3, <1>4, <1>5

-----------------------------------------------------------------------------
(* A file is saved, or removed again.                                      *)

LEMMA MsgFileStep ==
  ASSUME MsgInv, NEW r \in Talks, NEW q \in MsgTalk, talk' = [talk EXCEPT ![r] = q], Talking(r),
         UNCHANGED <<state, messages, logs, limits, escalated>>,
         fresh' \in Nat, files' \subseteq 1..fresh', q.at \notin {"audit", "show"},
         talk[r].at \notin {"audit", "show"},
         \A c : c = q => Rightly(c)',
         \/ /\ files' = files \cup {q.file} /\ q.file \notin files /\ talk[r].file = NoFile
         \/ /\ files' = files \ {talk[r].file} /\ q.file = NoFile /\ talk[r].file # NoFile
  PROVE  MsgInv'
<1>1. UNCHANGED <<audits, adminAudits, shown, notified, talks, refused, broken>>
  BY DEF logs, limits
<1>2. MsgTypes'
  <2>1. talk' \in [Talks -> MsgTalk]
    BY MsgKept
  <2> QED  BY <1>1, <2>1 DEF MsgInv, MsgTypes
<1>3. Filed' /\ \A x \in Talks \ {r} : talk[x].file # NoFile => talk[x].file \in files'
  BY <1>1, MsgFiledStep
<1>4. MsgTalks' /\ Opened'
  <2>1. /\ Len(messages) \in Nat /\ Len(messages') >= Len(messages)
        /\ DOMAIN messages = 1..Len(messages)
    BY MsgKept
  <2>2. (state = "NONE" <=> messages = <<>>) /\ (messages # <<>> => messages[1].author = "parent")
    BY DEF MsgInv, Opened
  <2> QED  BY <1>3, <2>1, <2>2, MsgTalksStep
<1>5. Admitted'
  BY <1>1, MsgAdmitStep DEF MsgInv, Admitted
<1>6. Logging'
  <2>1. \A op, n : ~WillAudit(talk[r], op, n)
    BY DEF WillAudit
  <2>2. \A n \in 2..Len(messages') : n \in 2..Len(messages)
    OBVIOUS
  <2> QED  BY <1>1, <2>1, <2>2, MsgLoggingStep
<1> QED  BY <1>2, <1>3, <1>4, <1>5, <1>6 DEF MsgInv

LEMMA MsgFiles == ASSUME MsgInv, NEW r \in Talks, SaveFile(r) \/ RemoveFile(r) PROVE MsgInv'
<1>1. Rightly(talk[r]) /\ talk[r] \in MsgTalk /\ fresh \in Nat /\ files \subseteq 1..fresh
  BY MsgKept DEF MsgInv, MsgTypes
<1>2. CASE SaveFile(r)
  <2>1. PICK f \in Nat : f = fresh + 1
    BY <1>1
  <2> DEFINE q == [talk[r] EXCEPT !.at = "insert", !.file = f]
  <2>2. /\ q \in MsgTalk /\ q.at = "insert" /\ q.file = f /\ q.op = talk[r].op /\ q.by = talk[r].by
        /\ q.message = talk[r].message
    BY <1>1 DEF MsgTalk, TalkStages
  <2>3. /\ UNCHANGED <<state, messages, logs, limits, escalated>> /\ talk[r].at = "save"
        /\ fresh' = f /\ files' = files \cup {f} /\ talk' = [talk EXCEPT ![r] = q] /\ Talking(r)
    BY <1>2, <2>1 DEF SaveFile, Talking
  <2> HIDE DEF q
  <2>4. f \notin files /\ files' \subseteq 1..f /\ talk[r].file = NoFile
    BY <1>1, <2>1, <2>3 DEF Rightly
  <2>5. \A c : c = q => Rightly(c)'
    BY <1>1, <2>2, <2>3 DEF Rightly
  <2> QED  BY <2>2, <2>3, <2>4, <2>5, MsgFileStep
<1>3. CASE RemoveFile(r)
  <2>1. /\ UNCHANGED <<state, messages, logs, limits, escalated, fresh>> /\ talk[r].at = "remove"
        /\ files' = files \ {talk[r].file} /\ EndsTalk(r) /\ Talking(r)
    BY <1>3 DEF RemoveFile, Talking
  <2>2. PICK q \in MsgTalk : /\ talk' = [talk EXCEPT ![r] = q] /\ q.at = "idle" /\ q.file = NoFile
    BY <2>1, MsgEnds
  <2>3. \A c : c = q => Rightly(c)'
    BY <2>2 DEF Rightly
  <2>4. files' \subseteq 1..fresh'
    BY <1>1, <2>1
  <2>5. CASE talk[r].file # NoFile
    BY <1>1, <2>1, <2>2, <2>3, <2>4, <2>5, MsgFileStep
  <2>6. CASE talk[r].file = NoFile
    <3>1. files' = files
      BY <1>1, <2>1, <2>6 DEF NoFile
    <3> QED  BY <1>1, <2>1, <2>6, <3>1, MsgSame, MsgEnding, MsgKept DEF logs, limits
  <2> QED  BY <2>5, <2>6
<1> QED  BY <1>2, <1>3

-----------------------------------------------------------------------------
(* A message is written, with its file.                                    *)

LEMMA MsgAppended ==
  ASSUME NEW s \in Seq(MsgRow), NEW m \in MsgRow
  PROVE  /\ Append(s, m) \in Seq(MsgRow) /\ Len(Append(s, m)) = Len(s) + 1 /\ Len(s) \in Nat
         /\ \A i \in 1..Len(s) : Append(s, m)[i] = s[i]
         /\ Append(s, m)[Len(s) + 1] = m /\ Append(s, m) # <<>>
         /\ s # <<>> => Len(s) >= 1
         /\ s = <<>> => Len(s) = 0
<1>1. /\ Append(s, m) \in Seq(MsgRow) /\ Len(Append(s, m)) = Len(s) + 1 /\ Len(s) \in Nat
      /\ \A i \in 1..Len(s) : Append(s, m)[i] = s[i]
      /\ Append(s, m)[Len(s) + 1] = m
  OBVIOUS
<1>2. (s # <<>> => Len(s) >= 1) /\ (s = <<>> => Len(s) = 0)
  OBVIOUS
<1>3. Append(s, m) # <<>>
  <2>1. Len(Append(s, m)) # 0 /\ Len(<<>>) = 0
    BY <1>1
  <2> QED  BY <2>1
<1> QED  BY <1>1, <1>2, <1>3

LEMMA MsgInsert == ASSUME MsgInv, NEW r \in Talks, InsertMessage(r) PROVE MsgInv'
<1>1. PICK p \in MsgTalk : p = talk[r] /\ Rightly(p)
  BY MsgKept
<1> DEFINE k == Len(messages) + 1
           m == [author |-> p.by, file |-> p.file, read |-> FALSE]
           q == [p EXCEPT !.at = "audit", !.message = k, !.file = NoFile]
<1>2. /\ m \in MsgRow /\ m.author = p.by /\ m.file = p.file
      /\ k \in Nat /\ k = Len(messages) + 1
  BY MsgKept DEF MsgTalk, MsgRow
<1>3. /\ q \in MsgTalk /\ q.at = "audit" /\ q.message = k /\ q.file = NoFile /\ q.op = p.op
  BY <1>2 DEF MsgTalk, TalkStages, NoFile
<1>4. /\ UNCHANGED <<files, fresh, logs, limits, escalated>> /\ p.at = "insert"
      /\ messages' = Append(messages, m)
      /\ state' = (IF p.op = "create" THEN "ACTIVE" ELSE state)
  BY <1>1 DEF InsertMessage
<1> HIDE DEF m
<1>5. /\ messages' \in Seq(MsgRow) /\ Len(messages') = k /\ messages' # <<>>
      /\ \A n \in 1..Len(messages) : messages'[n] = messages[n]
      /\ messages'[k] = m /\ Len(messages) \in Nat
      /\ DOMAIN messages' = 1..k /\ DOMAIN messages = 1..Len(messages)
      /\ (messages # <<>> => Len(messages) >= 1) /\ (messages = <<>> => k = 1)
  BY <1>2, <1>4, MsgAppended, MsgKept
<1>6. talk' = [talk EXCEPT ![r] = q]
  <2>1. talk' = [talk EXCEPT ![r].at = "audit", ![r].message = k, ![r].file = NoFile]
    BY <1>5 DEF InsertMessage
  <2> QED  BY <1>1, <2>1
<1> HIDE DEF q, k
<1>7. /\ p.op \in {"create", "send"} /\ Talking(r)
      /\ p.op = "create" => state = "NONE" /\ p.by = "parent"
      /\ p.op = "send" => state # "NONE"
      /\ state = "NONE" <=> messages = <<>>
      /\ p.file # NoFile => p.file \in files
  BY <1>1, <1>4 DEF Rightly, Talking, MsgInv, Opened
<1>8. /\ state' # "NONE" /\ \/ state' = state /\ state # "NONE"
                            \/ state = "NONE" /\ state' = "ACTIVE" /\ k = 1 /\ p.op = "create"
  BY <1>4, <1>5, <1>7
<1>9. UNCHANGED <<audits, adminAudits, shown, notified, talks, refused, broken>>
  BY <1>4 DEF logs, limits
<1>10. MsgTypes'
  <2>1. talk' \in [Talks -> MsgTalk] /\ state' \in {"NONE", "ACTIVE", "ARCHIVED", "ESCALATED"}
    BY <1>3, <1>6, <1>8, MsgKept DEF MsgInv, MsgTypes
  <2>2. 0..Len(messages) \subseteq 0..Len(messages') /\ DOMAIN messages \subseteq DOMAIN messages'
    BY <1>2, <1>5
  <2> QED  BY <1>4, <1>5, <1>9, <2>1, <2>2 DEF MsgInv, MsgTypes
<1>11. talk'[r] = q /\ \A x \in Talks \ {r} : talk'[x] = talk[x]
  BY <1>6, MsgKept
<1>12. Filed'
  <2>1. \A n \in 1..Len(messages) : MsgFile(n)' = MsgFile(n)
    BY <1>5 DEF MsgFile
  <2>2. \A n : n = k => MsgFile(n)' = p.file
    BY <1>2, <1>5 DEF MsgFile
  <2>3. \A n \in 1..k : n \in 1..Len(messages) \/ n = k
    BY <1>2, <1>5
  <2>4. \A n \in 1..Len(messages) : MsgFile(n) # NoFile =>
          /\ MsgFile(n) \in files
          /\ \A o \in 1..Len(messages) : MsgFile(o) = MsgFile(n) => o = n
          /\ \A x \in Talks : talk[x].file # MsgFile(n)
    BY <1>5 DEF MsgInv, Filed
  <2>5. \A x, y \in Talks : talk[x].file # NoFile /\ talk[x].file = talk[y].file => x = y
    BY DEF MsgInv, Filed
  <2>6. ASSUME NEW n \in 1..k, MsgFile(n)' # NoFile
        PROVE  /\ MsgFile(n)' \in files
               /\ \A o \in 1..k : MsgFile(o)' = MsgFile(n)' => o = n
               /\ \A x \in Talks : talk'[x].file # MsgFile(n)'
    <3>1. CASE n \in 1..Len(messages)
      <4>1. MsgFile(n)' = MsgFile(n) /\ MsgFile(n) # p.file /\ MsgFile(n) \in files
        BY <1>1, <2>1, <2>4, <2>6, <3>1
      <4>2. \A o \in 1..k : MsgFile(o)' = MsgFile(n) => o = n
        BY <2>1, <2>2, <2>3, <2>4, <2>6, <3>1, <4>1
      <4>3. \A x \in Talks : talk'[x].file # MsgFile(n)
        BY <1>3, <1>11, <2>4, <2>6, <3>1, <4>1
      <4> QED  BY <4>1, <4>2, <4>3
    <3>2. CASE n = k
      <4>1. MsgFile(n)' = p.file /\ p.file # NoFile /\ p.file \in files
        BY <1>7, <2>2, <2>6, <3>2
      <4>2. \A o \in 1..k : MsgFile(o)' = p.file => o = n
        BY <1>1, <2>1, <2>3, <2>4, <3>2, <4>1
      <4>3. \A x \in Talks : talk'[x].file # p.file
        BY <1>1, <1>3, <1>11, <2>5, <4>1
      <4> QED  BY <4>1, <4>2, <4>3
    <3> QED  BY <2>3, <3>1, <3>2
  <2>7. \A x, y \in Talks : talk'[x].file # NoFile /\ talk'[x].file = talk'[y].file => x = y
    BY <1>3, <1>11, <2>5
  <2>8. ASSUME broken' = 0, NEW f \in files
        PROVE  \/ \E n \in 1..k : MsgFile(n)' = f
               \/ \E x \in Talks : talk'[x].file = f
    <3>1. \/ \E n \in 1..Len(messages) : MsgFile(n) = f
          \/ \E x \in Talks : talk[x].file = f
      BY <1>5, <1>9, <2>8 DEF MsgInv, Filed
    <3>2. ASSUME NEW n \in 1..Len(messages), MsgFile(n) = f PROVE \E o \in 1..k : MsgFile(o)' = f
      <4>1. n \in 1..k
        BY <1>2, <1>5
      <4> QED  BY <2>1, <3>2, <4>1
    <3>3. ASSUME NEW x \in Talks, talk[x].file = f
          PROVE  \/ \E n \in 1..k : MsgFile(n)' = f
                 \/ \E y \in Talks : talk'[y].file = f
      <4>1. k \in 1..k
        BY <1>2, <1>5
      <4> QED  BY <1>1, <1>11, <2>2, <3>3, <4>1
    <3> QED  BY <3>1, <3>2, <3>3
  <2> QED  BY <1>4, <1>5, <2>6, <2>7, <2>8 DEF Filed
<1>13. MsgTalks' /\ Opened'
  <2>1. \A x \in Talks \ {r} : talk[x].file # NoFile => talk[x].file \in files'
    BY <1>4, MsgKept DEF Rightly
  <2>2. messages'[1].author = "parent"
    <3>1. CASE messages = <<>>
      BY <1>2, <1>5, <1>7, <3>1
    <3>2. CASE messages # <<>>
      BY <1>5, <3>2 DEF MsgInv, Opened
    <3> QED  BY <3>1, <3>2
  <2>3. p.op \in AuditedOps /\ k \in 0..k /\ k \in 1..k
    BY <1>2, <1>5, <1>7 DEF AuditedOps, Operations
  <2>4. \A c : c = q => Rightly(c)'
    BY <1>3, <1>5, <1>7, <1>8, <2>3 DEF Rightly
  <2>5. Len(messages') \in Nat /\ Len(messages') >= Len(messages)
    BY <1>2, <1>5
  <2> QED  BY <1>3, <1>4, <1>5, <1>6, <1>7, <1>8, <2>1, <2>2, <2>4, <2>5, MsgTalksStep
<1>14. Admitted'
  <2>1. (state' = "ESCALATED" => escalated') /\ (escalated => escalated')
    BY <1>4, <1>8 DEF MsgInv, Admitted
  <2> QED  BY <1>3, <1>6, <1>9, <2>1, MsgAdmitStep
<1>15. Logging'
  <2>1. \A op, n : ~WillAudit(talk[r], op, n)
    BY <1>1, <1>4 DEF WillAudit
  <2>2. (k = 1 /\ p.op = "create" => WillAudit(q, "create", 1))
        /\ (p.op = "send" => WillAudit(q, "send", k))
    BY <1>3 DEF WillAudit, AuditedAs
  <2>3. \A n \in 2..Len(messages') : n \in 2..Len(messages) \/ WillAudit(q, "send", n)
    <3>1. ASSUME NEW n \in 2..k, n \notin 2..Len(messages) PROVE n = k /\ p.op = "send"
      BY <1>2, <1>5, <1>7, <3>1
    <3> QED  BY <1>5, <2>2, <3>1
  <2> QED  BY <1>3, <1>6, <1>8, <1>9, <2>1, <2>2, <2>3, MsgLoggingStep
<1> QED  BY <1>10, <1>12, <1>13, <1>14, <1>15 DEF MsgInv

LEMMA MsgInductive == MsgInv /\ [MessagingNext]_messagingVars => MsgInv'
<1> SUFFICES ASSUME MsgInv, [MessagingNext]_messagingVars PROVE MsgInv'
  OBVIOUS
<1>1. ASSUME NEW r \in Talks,
             \/ \E attach \in BOOLEAN :
                   \/ BeginConversation(r, attach)
                   \/ \E who \in Participants, op \in Operations :
                         BeginOperation(r, who, op, attach)
             \/ MarkRead(r) \/ MarkAgain(r) \/ SaveFile(r) \/ InsertMessage(r) \/ InsertRefused(r)
             \/ RemoveFile(r) \/ Audit(r) \/ AuditReport(r) \/ PublishSent(r) \/ SetState(r)
             \/ BeginAdmin(r) \/ AdminAudit(r) \/ Show(r) \/ Breaks(r)
      PROVE  MsgInv'
  BY <1>1, MsgBegins, MsgStages, MsgFiles, MsgInsert, MsgAudit, MsgLasts
<1>2. CASE UNCHANGED messagingVars
  <2>1. UNCHANGED <<state, messages, files, fresh, talk, audits, adminAudits, shown, notified, talks,
                    refused, broken, escalated>>
    BY <1>2 DEF messagingVars, logs, limits
  <2>2. MsgTypes' /\ Opened' /\ Filed'
    BY <2>1 DEF MsgInv, MsgTypes, Opened, Filed, MsgFile, Talking
  <2>3. MsgTalks'
    BY <2>1 DEF MsgInv, MsgTalks, Rightly
  <2>4. Admitted'
    BY <2>1 DEF MsgInv, Admitted, Showing
  <2>5. Logging'
    BY <2>1 DEF MsgInv, Logging, Recorded, WillAudit
  <2> QED  BY <2>2, <2>3, <2>4, <2>5 DEF MsgInv
<1> QED  BY <1>1, <1>2 DEF MessagingNext

LEMMA RowsAreSeq == ASSUME NEW S, NEW n \in Nat, NEW f \in [1..n -> S] PROVE f \in Seq(S)
  BY SeqDef

LEMMA MsgMeans == MsgInv => MessagingTypeOK /\ FilesOfMessages /\ ConversationAudited
<1> SUFFICES ASSUME MsgInv PROVE MessagingTypeOK /\ FilesOfMessages /\ ConversationAudited
  OBVIOUS
<1>1. \A n \in DOMAIN messages : messages[n].file \in 0..fresh
  <2>1. fresh \in Nat /\ files \subseteq 1..fresh
    BY DEF MsgInv, MsgTypes
  <2>2. 0 \in 0..fresh /\ files \subseteq 0..fresh
    BY <2>1
  <2>3. \A n \in DOMAIN messages : messages[n].file = 0 \/ messages[n].file \in files
    BY DEF MsgInv, Filed, MsgFile, NoFile
  <2> QED  BY <2>2, <2>3
<1>2. messages \in Seq([author : Participants, file : 0..fresh, read : BOOLEAN])
  <2>1. \A n \in 1..Len(messages) : messages[n] \in [author : Participants, file : 0..fresh, read : BOOLEAN]
    BY <1>1, MsgKept DEF MsgRow
  <2>2. messages \in [1..Len(messages) -> [author : Participants, file : 0..fresh, read : BOOLEAN]]
    BY <2>1, MsgKept
  <2>3. Len(messages) \in Nat
    BY MsgKept
  <2> QED  BY <2>2, <2>3, RowsAreSeq
<1>3. MessagingTypeOK
  BY <1>2 DEF MsgInv, MsgTypes, Opened, MessagingTypeOK
<1>4. FilesOfMessages
  <2>1. Attached \subseteq files /\ Attached \cap Held = {}
    BY DEF MsgInv, Filed, MsgFile, Attached, Held
  <2>2. \A m, n \in DOMAIN messages :
          messages[m].file = messages[n].file /\ messages[m].file # NoFile => m = n
    BY DEF MsgInv, Filed, MsgFile
  <2>3. Held \subseteq files
    BY MsgKept DEF Held, Rightly
  <2>4. broken = 0 => files \subseteq Attached \cup Held
    <3>1. NoFile \notin files
      BY DEF MsgInv, MsgTypes, NoFile
    <3> QED  BY <3>1 DEF MsgInv, Filed, MsgFile, Attached, Held
  <2> QED  BY <2>1, <2>2, <2>3, <2>4 DEF FilesOfMessages
<1>5. ConversationAudited
  <2>1. Cardinality(Showing) \in Nat /\ shown \in Nat /\ adminAudits \in Nat
    BY FS_CardinalityType DEF MsgInv, Admitted, MsgTypes
  <2>2. shown <= adminAudits /\ (shown > 0 => escalated)
    BY <2>1 DEF MsgInv, Admitted
  <2>3. ASSUME NEW op, NEW n, AllSaid, Recorded(op, n) PROVE <<op, n>> \in audits
    BY <2>3 DEF Recorded, WillAudit, AllSaid, Talking
  <2>4. AllSaid => broken = 0
    BY DEF AllSaid
  <2> QED  BY <2>2, <2>3, <2>4 DEF MsgInv, Logging, ConversationAudited
<1> QED  BY <1>3, <1>4, <1>5

(* A message's file is stored and no other's, and no file is left without  *)
(* a message unless a statement other than an insert fails (create, send). *)
THEOREM FilesOfMessagesHolds == MessagingSpec => []FilesOfMessages
<1> QED  BY MsgStarts, MsgInductive, MsgMeans, PTL DEF MessagingSpec

(* Nobody is shown an escalated conversation without an audit record of    *)
(* it, and every message and every change of state is in the log in the    *)
(* end (access, send, archive, escalate).                                  *)
THEOREM ConversationAuditedHolds == MessagingSpec => []ConversationAudited
<1> QED  BY MsgStarts, MsgInductive, MsgMeans, PTL DEF MessagingSpec

-----------------------------------------------------------------------------
(* Coursework.                                                             *)
Announcing == {"file", "announce"}
CwTask == [at : {"idle", "write", "file", "announce"}, change : Changes]
CwScan == [at : {"idle", "found"}, day : Nat]

CwTypes ==
    /\ work \in {"NONE", "DRAFT", "PUBLISHED", "ARCHIVED"}
    /\ soon \in BOOLEAN /\ audience \subseteq Users
    /\ handed \in [Pupils -> {"none", "open", "reviewed"}]
    /\ filed \subseteq Changes /\ made \subseteq Changes
    /\ news \subseteq Changes \X Users
    /\ today \in Nat /\ reminders \subseteq Users \X (0..today)
    /\ task \in [Tasks -> CwTask]
    /\ scan \in CwScan /\ scan.day \in 0..today
    /\ tasks \in 0..MaxTasks /\ slips \in 0..MaxSlips /\ moves \in 0..MaxMoves

(* What is remembered of the present. *)
Attended ==
    /\ audience \subseteq present
    /\ work = "PUBLISHED" => audience \subseteq offered
    /\ work = "PUBLISHED" /\ soon => today \in soonDays

(* What a request q may rely on.  Until the assignment exists the only     *)
(* request is the one that creates it.                                     *)
Rests(q) ==
    /\ q.at = "write" /\ q.change[1] = "submitted" => q.change[2] \in offered
    /\ q.at = "write" /\ q.change[1] = "feedback" => handed[q.change[2]] # "none"
    /\ q.at = "file" => q.change \in made
    /\ q.at = "announce" => q.change \in filed
    /\ q.at # "idle" /\ work = "NONE" => q.at = "write" /\ q.change[1] = "created"
CwTasks == \A r \in Tasks : Rests(task[r])

HandedIn ==
    \A s \in Pupils : handed[s] # "none" => s \in offered /\ <<"submitted", s>> \in made

Filings ==
    /\ filed \subseteq made /\ \A n \in news : n[1] \in filed
    /\ work = "NONE" => made = {} /\ reminders = {} /\ scan.at = "idle"
    /\ slips = 0 => \A c \in made \ filed : \E r \in Tasks : task[r].at = "file" /\ task[r].change = c

Owing ==
    /\ \A n \in owedNews : n = <<n[1], n[2]>> /\ n[1][1] \in Announced /\ n[2] \in audience
    /\ slips = 0 => \A n \in owedNews \ news :
          \E r \in Tasks : task[r].at \in Announcing /\ task[r].change = n[1]

Reminding ==
    /\ scan.at = "found" => scan.day \in soonDays
    /\ \A n \in reminders : n[2] \in soonDays /\ n[1] \in present

CwInv == CwTypes /\ Attended /\ CwTasks /\ HandedIn /\ Filings /\ Owing /\ Reminding

LEMMA CwStarts == CourseworkInit => CwInv
<1> SUFFICES ASSUME CourseworkInit PROVE CwInv
  OBVIOUS
<1> USE DEF CourseworkInit
<1>1. CwTypes
  <2>1. NoTask \in CwTask /\ NoScan \in CwScan /\ NoScan.day = 0
    BY DEF NoTask, NoScan, CwTask, CwScan, Changes
  <2>2. 0 \in 0..today /\ 0 \in 0..MaxTasks /\ 0 \in 0..MaxSlips /\ 0 \in 0..MaxMoves
    BY CourseworkBounds
  <2>3. task \in [Tasks -> CwTask] /\ scan \in CwScan /\ scan.day \in 0..today
    BY <2>1, <2>2
  <2>4. handed \in [Pupils -> {"none", "open", "reviewed"}]
    OBVIOUS
  <2> QED  BY <2>2, <2>3, <2>4 DEF CwTypes
<1>2. Attended /\ CwTasks /\ HandedIn
  BY DEF Attended, CwTasks, Rests, HandedIn, NoTask
<1>3. Filings /\ Owing /\ Reminding
  BY DEF Filings, Owing, Reminding, NoScan
<1> QED  BY <1>1, <1>2, <1>3 DEF CwInv

LEMMA CwKept ==
  ASSUME CwInv
  PROVE  /\ task \in [Tasks -> CwTask] /\ \A r \in Tasks : Rests(task[r]) /\ task[r] \in CwTask
         /\ work \in {"NONE", "DRAFT", "PUBLISHED", "ARCHIVED"} /\ audience \subseteq Users
         /\ handed \in [Pupils -> {"none", "open", "reviewed"}]
         /\ \A r \in Tasks : task[r].change \in Changes
BY DEF CwInv, CwTypes, CwTasks, CwTask

(* What is remembered only grows, and covers the present.                  *)
LEMMA CwRemembers ==
  ASSUME Remember
  PROVE  /\ made \subseteq made' /\ present \subseteq present' /\ offered \subseteq offered'
         /\ soonDays \subseteq soonDays' /\ Attended'
         /\ \A n \in owedNews' : /\ n \in owedNews \/ (n = <<n[1], n[2]>> /\ n[1] \in Written)
                                 /\ n[1][1] \in Announced /\ n[2] \in audience'
<1>1. /\ made \subseteq made' /\ present \subseteq present' /\ offered \subseteq offered'
      /\ soonDays \subseteq soonDays'
  BY DEF Remember
<1>2. Attended'
  BY DEF Remember, Attended
<1>3. ASSUME NEW n \in owedNews'
      PROVE  /\ n \in owedNews \/ (n = <<n[1], n[2]>> /\ n[1] \in Written)
             /\ n[1][1] \in Announced /\ n[2] \in audience'
  BY <1>3 DEF Remember, Promised, Announced
<1> QED  BY <1>1, <1>2, <1>3

(* A change is made when the request that writes it has written.           *)
LEMMA CwMakes ==
  ASSUME CwInv, Remember, NEW r \in Tasks, NEW q \in CwTask, task' = [task EXCEPT ![r] = q]
  PROVE  /\ Written = IF task[r].at = "write" /\ q.at \in Announcing THEN {task[r].change} ELSE {}
         /\ made' = made \cup Written
<1>1. task'[r] = q /\ \A x \in Tasks \ {r} : task'[x] = task[x]
  BY CwKept
<1>2. \A x \in Tasks \ {r} : MadeBy(x) = {}
  <2>1. ASSUME NEW x \in Tasks \ {r} PROVE MadeBy(x) = {}
    BY <1>1 DEF MadeBy
  <2> QED  BY <2>1
<1>3. q.at \notin {"write", "idle"} <=> q.at \in Announcing
  BY DEF CwTask, Announcing
<1>4. MadeBy(r) = IF task[r].at = "write" /\ q.at \in Announcing THEN {task[r].change} ELSE {}
  BY <1>1, <1>3 DEF MadeBy
<1>5. Written = MadeBy(r)
  BY <1>2 DEF Written
<1> QED  BY <1>4, <1>5 DEF Remember

LEMMA CwMakesNone == ASSUME Remember, task' = task PROVE made' = made /\ Written = {}
<1>1. \A x \in Tasks : MadeBy(x) = {}
  <2>1. ASSUME NEW x \in Tasks PROVE MadeBy(x) = {}
    BY DEF MadeBy
  <2> QED  BY <2>1
<1> QED  BY <1>1 DEF Remember, Written

(* A request takes a step.                                                 *)
LEMMA CwTaskStep ==
  ASSUME CwInv, Remember, NEW r \in Tasks, NEW p \in CwTask, p = task[r], NEW q \in CwTask,
         task' = [task EXCEPT ![r] = q], UNCHANGED <<scan, reminders>>, CwTypes',
         \A c : c = q => Rests(c)',
         work # "NONE" => work' # "NONE", work' = "NONE" => made' = {},
         \A s \in Pupils : handed[s] # "none" => handed'[s] # "none",
         \A s \in Pupils : handed'[s] # "none" =>
            handed[s] # "none" \/ (s \in offered /\ <<"submitted", s>> \in made'),
         filed \subseteq filed', filed' \subseteq made', news \subseteq news',
         \A n \in news' : n[1] \in filed',
         slips' = 0 => slips = 0,
         made' = made \cup Written,
         slips' = 0 => \A c \in Written : q.at = "file" /\ q.change = c,
         slips' = 0 /\ p.at = "file" => p.change \in filed',
         slips' = 0 /\ p.at \in Announcing => \/ q.at \in Announcing /\ q.change = p.change
                                              \/ p.change[1] \notin Announced
                                              \/ {p.change} \X audience' \subseteq news'
  PROVE  CwInv'
<1>1. task'[r] = q /\ \A x \in Tasks \ {r} : task'[x] = task[x]
  BY CwKept
<1>2. CwTasks'
  <2>1. ASSUME NEW x \in Tasks \ {r} PROVE \A c : c = task[x] => Rests(c)'
    <3>1. Rests(task[x]) /\ task[x].change \in Changes
      BY CwKept
    <3>2. task[x].change[1] = "feedback" => task[x].change[2] \in Pupils
      BY <3>1 DEF Changes
    <3> QED  BY <3>1, <3>2, CwRemembers DEF Rests
  <2>2. ASSUME NEW x \in Tasks PROVE \A c : c = task'[x] => Rests(c)'
    BY <1>1, <2>1
  <2> QED  BY <2>2 DEF CwTasks, Rests
<1>3. HandedIn'
  BY CwRemembers DEF CwInv, HandedIn
<1>4. Filings'
  <2>1. ASSUME slips' = 0, NEW c \in made' \ filed'
        PROVE  \E x \in Tasks : task'[x].at = "file" /\ task'[x].change = c
    <3>1. CASE c \in made
      <4>1. PICK x \in Tasks : task[x].at = "file" /\ task[x].change = c
        BY <2>1, <3>1 DEF CwInv, Filings
      <4>2. x # r
        BY <2>1, <4>1
      <4> QED  BY <1>1, <4>1, <4>2
    <3>2. CASE c \notin made
      BY <1>1, <2>1, <3>2
    <3> QED  BY <3>1, <3>2
  <2>2. work' = "NONE" => made' = {} /\ reminders' = {} /\ scan'.at = "idle"
    BY DEF CwInv, Filings
  <2> QED  BY <2>1, <2>2 DEF Filings
<1>5. Owing'
  <2>1. ASSUME slips' = 0, NEW n \in owedNews' \ news'
        PROVE  \E x \in Tasks : task'[x].at \in Announcing /\ task'[x].change = n[1]
    <3>1. n[1][1] \in Announced /\ n[2] \in audience' /\ (n \in owedNews \/ n[1] \in Written)
      BY <2>1, CwRemembers
    <3>2. CASE n[1] \in Written
      BY <1>1, <2>1, <3>2 DEF Announcing
    <3>3. CASE n \in owedNews
      <4>1. PICK x \in Tasks : task[x].at \in Announcing /\ task[x].change = n[1]
        BY <2>1, <3>3 DEF CwInv, Owing
      <4>2. n = <<n[1], n[2]>>
        BY <3>3 DEF CwInv, Owing
      <4> QED  BY <1>1, <2>1, <3>1, <4>1, <4>2
    <3> QED  BY <3>1, <3>2, <3>3
  <2>2. \A n \in owedNews' : n = <<n[1], n[2]>>
    BY CwRemembers DEF CwInv, Owing
  <2> QED  BY <2>1, <2>2, CwRemembers DEF Owing
<1>6. Reminding'
  BY CwRemembers DEF CwInv, Reminding
<1> QED  BY <1>2, <1>3, <1>4, <1>5, <1>6, CwRemembers DEF CwInv

(* What a step leaves alone keeps its type.                                *)
LEMMA CwTypesStep ==
  ASSUME CwInv, Remember, task' \in [Tasks -> CwTask], made' \subseteq Changes,
         work' \in {"NONE", "DRAFT", "PUBLISHED", "ARCHIVED"},
         UNCHANGED clock \/ (soon' \in BOOLEAN /\ today' = today),
         audience' \subseteq Users, handed' \in [Pupils -> {"none", "open", "reviewed"}],
         filed' \subseteq Changes, news' \subseteq Changes \X Users, UNCHANGED <<scan, reminders>>,
         tasks' \in 0..MaxTasks, slips' \in 0..MaxSlips, moves' \in 0..MaxMoves
  PROVE  CwTypes'
BY DEF CwInv, CwTypes, clock

LEMMA CwTaskType ==
  ASSUME CwInv, NEW r \in Tasks, NEW q \in CwTask, task' = [task EXCEPT ![r] = q]
  PROVE  task' \in [Tasks -> CwTask]
BY CwKept

LEMMA CwCounts ==
  ASSUME CwInv
  PROVE  /\ tasks \in 0..MaxTasks /\ slips \in 0..MaxSlips /\ moves \in 0..MaxMoves
         /\ filed \subseteq Changes /\ made \subseteq Changes /\ news \subseteq Changes \X Users
         /\ filed \subseteq made /\ \A n \in news : n[1] \in filed
         /\ work = "NONE" => made = {}
         /\ \A s \in Pupils : handed[s] # "none" => s \in offered /\ <<"submitted", s>> \in made
BY DEF CwInv, CwTypes, Filings, HandedIn

(* A request begins.                                                       *)
LEMMA CwBegin ==
  ASSUME CwInv, Remember, NEW r \in Tasks, NEW change \in Changes, BeginTask(r, change, "write"),
         change[1] = "submitted" => change[2] \in offered,
         change[1] = "feedback" => handed[change[2]] # "none",
         work = "NONE" => change[1] = "created"
  PROVE  CwInv'
<1> DEFINE q == [at |-> "write", change |-> change]
<1>1. q \in CwTask /\ q.at = "write" /\ q.change = change
  BY DEF CwTask
<1>2. PICK p \in CwTask : p = task[r]
  BY CwKept
<1>3. /\ UNCHANGED <<work, audience, moves, soon, today, handed, filed, news, reminders, scan, slips>>
      /\ p.at = "idle" /\ tasks' \in 0..MaxTasks /\ task' = [task EXCEPT ![r] = q]
  BY <1>2, CwCounts, CourseworkBounds DEF BeginTask, OnTask, school, clock
<1> HIDE DEF q
<1>4. made' = made /\ Written = {}
  BY <1>1, <1>2, <1>3, CwMakes
<1>5. CwTypes'
  BY <1>1, <1>3, <1>4, CwTaskType, CwTypesStep, CwCounts, CwKept DEF clock
<1>6. \A c : c = q => Rests(c)'
  BY <1>1, <1>3, CwRemembers DEF Rests
<1>7. p.at \notin Announcing /\ p.at # "file"
  BY <1>3 DEF Announcing
<1> QED  BY <1>1, <1>2, <1>3, <1>4, <1>5, <1>6, <1>7, CwCounts, CwTaskStep

LEMMA CwBegins ==
  ASSUME CwInv, Remember, NEW r \in Tasks,
         \/ BeginCreate(r)
         \/ \E kind \in {"published", "archived", "updated"} : BeginManage(r, kind)
         \/ \E s \in Pupils : BeginSubmit(r, s) \/ BeginFeedback(r, s)
  PROVE  CwInv'
<1>1. CASE BeginCreate(r)
  <2>1. <<"created", NoOne>> \in Changes
    BY DEF Changes
  <2> QED  BY <1>1, <2>1, CwBegin DEF BeginCreate
<1>2. ASSUME NEW kind \in {"published", "archived", "updated"}, BeginManage(r, kind) PROVE CwInv'
  <2>1. <<kind, NoOne>> \in Changes
    BY DEF Changes
  <2> QED  BY <1>2, <2>1, CwBegin DEF BeginManage
<1>3. ASSUME NEW s \in Pupils, BeginSubmit(r, s) PROVE CwInv'
  <2>1. <<"submitted", s>> \in Changes
    BY DEF Changes
  <2>2. s \in offered /\ work = "PUBLISHED" /\ BeginTask(r, <<"submitted", s>>, "write")
    BY <1>3 DEF BeginSubmit, CwInv, Attended
  <2> QED  BY <2>1, <2>2, CwBegin
<1>4. ASSUME NEW s \in Pupils, BeginFeedback(r, s) PROVE CwInv'
  <2>1. <<"feedback", s>> \in Changes
    BY DEF Changes
  <2>2. work # "NONE"
    BY <1>4 DEF BeginFeedback, CwInv, HandedIn, Filings
  <2> QED  BY <1>4, <2>1, <2>2, CwBegin DEF BeginFeedback
<1> QED  BY <1>1, <1>2, <1>3, <1>4

LEMMA CwTakes ==
  ASSUME CwInv, NEW r \in Tasks, NEW where \in {"idle", "write", "file", "announce"}, Takes(r, where)
  PROVE  \E q \in CwTask : task' = [task EXCEPT ![r] = q] /\ q.at = where /\ q.change = task[r].change
<1> DEFINE q == [task[r] EXCEPT !.at = where]
<1>1. q \in CwTask /\ q.at = where /\ q.change = task[r].change
  BY CwKept DEF CwTask
<1>2. task' = [task EXCEPT ![r] = q]
  BY DEF Takes
<1> QED  BY <1>1, <1>2

LEMMA CwEnds ==
  ASSUME NEW r \in Tasks, EndsTask(r)
  PROVE  \E q \in CwTask : task' = [task EXCEPT ![r] = q] /\ q.at = "idle"
<1>1. NoTask \in CwTask /\ NoTask.at = "idle"
  BY DEF NoTask, CwTask, Changes
<1> QED  BY <1>1 DEF EndsTask

(* A request writes the row of its change.                                 *)
LEMMA CwWrote ==
  ASSUME CwInv, Remember, NEW r \in Tasks, task[r].at = "write", Takes(r, "file"),
         UNCHANGED <<today, filed, news, reminders, scan, taskLimits>>,
         work' \in {"DRAFT", "PUBLISHED", "ARCHIVED"}, soon' \in BOOLEAN, audience' \subseteq Users,
         handed' \in [Pupils -> {"none", "open", "reviewed"}], moves' \in 0..MaxMoves,
         \A s \in Pupils : /\ handed[s] # "none" => handed'[s] # "none"
                           /\ handed'[s] # "none" =>
                                 \/ handed[s] # "none"
                                 \/ s \in offered /\ <<"submitted", s>> = task[r].change
  PROVE  CwInv'
<1>1. PICK p \in CwTask : p = task[r]
  BY CwKept
<1>2. PICK q \in CwTask : /\ task' = [task EXCEPT ![r] = q] /\ q.at = "file" /\ q.change = p.change
  BY <1>1, CwTakes
<1>3. made' = made \cup Written /\ Written = {p.change} /\ p.change \in Changes
  BY <1>1, <1>2, CwMakes, CwKept DEF Announcing
<1>4. UNCHANGED <<filed, news, slips, tasks, scan, reminders, today>>
  BY DEF taskLimits
<1>5. CwTypes'
  BY <1>2, <1>3, <1>4, CwTaskType, CwTypesStep, CwCounts
<1>6. \A c : c = q => Rests(c)'
  BY <1>2, <1>3 DEF Rests
<1>7. filed' \subseteq made' /\ (\A n \in news' : n[1] \in filed')
      /\ (\A s \in Pupils : handed'[s] # "none" =>
            handed[s] # "none" \/ (s \in offered /\ <<"submitted", s>> \in made'))
  BY <1>1, <1>3, <1>4, CwCounts
<1> QED  BY <1>1, <1>2, <1>3, <1>4, <1>5, <1>6, <1>7, CwTaskStep DEF Announcing

LEMMA CwWrites ==
  ASSUME CwInv, Remember, NEW r \in Tasks,
         \/ WriteState(r) \/ WriteSubmission(r)
         \/ \E users \in SUBSET Users, dueSoon \in BOOLEAN : WriteUpdate(r, users, dueSoon)
  PROVE  CwInv'
<1>1. soon \in BOOLEAN /\ audience \subseteq Users /\ handed \in [Pupils -> {"none", "open", "reviewed"}]
      /\ moves \in 0..MaxMoves /\ Rests(task[r]) /\ task[r].change \in Changes
      /\ work \in {"NONE", "DRAFT", "PUBLISHED", "ARCHIVED"}
  BY CwKept DEF CwInv, CwTypes
<1>2. CASE WriteState(r)
  <2>1. work' \in {"DRAFT", "PUBLISHED", "ARCHIVED"}
    BY <1>2 DEF WriteState, States4
  <2> QED  BY <1>1, <1>2, <2>1, CwWrote DEF WriteState, school, clock
<1>3. ASSUME NEW users \in SUBSET Users, NEW dueSoon \in BOOLEAN, WriteUpdate(r, users, dueSoon)
      PROVE  CwInv'
  <2>1. work \in {"DRAFT", "PUBLISHED", "ARCHIVED"} /\ moves' \in 0..MaxMoves
    BY <1>1, <1>3, CourseworkBounds DEF WriteUpdate, Rests
  <2> QED  BY <1>1, <1>3, <2>1, CwWrote DEF WriteUpdate
<1>4. CASE WriteSubmission(r)
  <2> DEFINE s == task[r].change[2]
  <2>1. work \in {"DRAFT", "PUBLISHED", "ARCHIVED"} /\ s \in Pupils
        /\ task[r].change = <<task[r].change[1], s>>
    BY <1>1, <1>4 DEF WriteSubmission, Rests, Changes
  <2>2. /\ \A t \in Pupils \ {s} : handed'[t] = handed[t]
        /\ handed'[s] \in {"open", "reviewed"}
        /\ handed' \in [Pupils -> {"none", "open", "reviewed"}]
    BY <1>1, <1>4, <2>1 DEF WriteSubmission
  <2>3. handed[s] # "none" \/ (s \in offered /\ <<"submitted", s>> = task[r].change)
    BY <1>1, <1>4, <2>1 DEF WriteSubmission, Rests
  <2>4. \A t \in Pupils : /\ handed[t] # "none" => handed'[t] # "none"
                          /\ handed'[t] # "none" =>
                                \/ handed[t] # "none"
                                \/ t \in offered /\ <<"submitted", t>> = task[r].change
    BY <2>2, <2>3
  <2> HIDE DEF s
  <2>5. /\ UNCHANGED <<work, audience, moves, soon, today, filed, news, reminders, scan, taskLimits>>
        /\ task[r].at = "write" /\ Takes(r, "file")
    BY <1>4 DEF WriteSubmission, school, clock
  <2> QED  BY <1>1, <2>1, <2>2, <2>4, <2>5, CwWrote
<1> QED  BY <1>2, <1>3, <1>4

LEMMA CwFile == ASSUME CwInv, Remember, NEW r \in Tasks, File(r) PROVE CwInv'
<1>1. PICK p \in CwTask : p = task[r]
  BY CwKept
<1>2. /\ UNCHANGED <<work, soon, today, audience, moves, handed, news, reminders, scan, tasks, slips>>
      /\ p.at = "file" /\ filed' = filed \cup {p.change} /\ p.change \in Changes /\ Rests(p)
      /\ IF p.change[1] \in Announced THEN Takes(r, "announce") ELSE EndsTask(r)
  BY <1>1, CwKept DEF File, school, clock, taskLimits
<1>3. PICK q \in CwTask :
         /\ task' = [task EXCEPT ![r] = q]
         /\ \/ q.at = "announce" /\ q.change = p.change
            \/ q.at = "idle" /\ p.change[1] \notin Announced
  BY <1>1, <1>2, CwTakes, CwEnds
<1>4. made' = made /\ Written = {}
  BY <1>1, <1>2, <1>3, CwMakes
<1>5. p.change \in made
  BY <1>2 DEF Rests
<1>6. CwTypes'
  BY <1>2, <1>3, <1>4, CwTaskType, CwTypesStep, CwCounts, CwKept DEF clock
<1>7. \A c : c = q => Rests(c)'
  BY <1>2, <1>3, <1>4, <1>5, CwCounts DEF Rests
<1>8. filed' \subseteq made' /\ (\A n \in news' : n[1] \in filed')
  BY <1>2, <1>4, <1>5, CwCounts
<1>9. p.at \in Announcing => \/ q.at \in Announcing /\ q.change = p.change
                             \/ p.change[1] \notin Announced
  BY <1>3 DEF Announcing
<1> QED  BY <1>1, <1>2, <1>3, <1>4, <1>6, <1>7, <1>8, <1>9, CwCounts, CwTaskStep

(* Announcing, or failing; what is announced is in the audit log.          *)
LEMMA CwLast ==
  ASSUME CwInv, Remember, NEW r \in Tasks, NEW some \in SUBSET audience, EndsTask(r),
         UNCHANGED <<work, school, clock, handed, filed, reminders, scan, tasks>>,
         some # {} => task[r].at = "announce", news' = news \cup ({task[r].change} \X some),
         slips' \in 0..MaxSlips,
         slips' = 0 => slips = 0 /\ task[r].at = "announce" /\ some = audience
  PROVE  CwInv'
<1>1. PICK p \in CwTask : p = task[r]
  BY CwKept
<1>2. PICK q \in CwTask : task' = [task EXCEPT ![r] = q] /\ q.at = "idle"
  BY CwEnds
<1>3. made' = made /\ Written = {}
  BY <1>1, <1>2, CwMakes DEF Announcing
<1>4. UNCHANGED <<work, soon, today, audience, moves, handed, filed, reminders, scan, tasks>>
  BY DEF school, clock
<1>5. p.change \in Changes /\ Rests(p) /\ some \subseteq Users
  BY <1>1, CwKept
<1>6. news' \subseteq Changes \X Users /\ news \subseteq news' /\ (\A n \in news' : n[1] \in filed)
  BY <1>1, <1>5, CwCounts DEF Rests
<1>7. CwTypes'
  BY <1>2, <1>3, <1>4, <1>6, CwTaskType, CwTypesStep, CwCounts, CwKept DEF clock
<1>8. \A c : c = q => Rests(c)'
  BY <1>2 DEF Rests
<1>9. slips' = 0 => {p.change} \X audience' \subseteq news' /\ p.at # "file"
  BY <1>1, <1>4
<1> QED  BY <1>1, <1>2, <1>3, <1>4, <1>6, <1>7, <1>8, <1>9, CwCounts, CwTaskStep

LEMMA CwAnnounces == ASSUME CwInv, Remember, NEW r \in Tasks, Announce(r) \/ Slip(r) PROVE CwInv'
<1>1. CASE Announce(r)
  <2>1. slips' = slips /\ slips \in 0..MaxSlips /\ tasks' = tasks
    BY <1>1, CwCounts DEF Announce, taskLimits
  <2>2. audience \in SUBSET audience
    OBVIOUS
  <2> QED  BY <1>1, <2>1, <2>2, CwLast DEF Announce
<1>2. CASE Slip(r)
  <2>1. slips' \in 0..MaxSlips /\ slips' # 0
    BY <1>2, CwCounts, CourseworkBounds DEF Slip
  <2> QED  BY <1>2, <2>1, CwLast DEF Slip
<1> QED  BY <1>1, <1>2

(* Nothing a request does: the scan, the world and the clock.              *)
LEMMA CwWorld ==
  ASSUME CwInv, Remember, UNCHANGED <<task, work, handed, filed, news, tasks, slips>>,
         soon' \in BOOLEAN, audience' \subseteq Users, today' \in {today, today + 1},
         moves' \in 0..MaxMoves, scan' \in CwScan,
         \/ scan'.at = "idle" /\ scan'.day = 0
         \/ scan' = scan
         \/ scan'.at = "found" /\ scan'.day = today /\ today \in soonDays /\ work # "NONE",
         reminders \subseteq reminders',
         reminders' # reminders => scan.at = "found",
         \A n \in reminders' \ reminders : n \in audience \X {scan.day}
  PROVE  CwInv'
<1>1. made' = made /\ Written = {} /\ today \in Nat /\ scan.day \in 0..today
  BY CwMakesNone DEF CwInv, CwTypes
<1>2. scan'.day \in 0..today'
  BY <1>1
<1>3. reminders' \subseteq Users \X (0..today')
  <2>1. 0..today \subseteq 0..today'
    BY <1>1
  <2> QED  BY <1>1, <2>1, CwKept DEF CwInv, CwTypes
<1>4. CwTypes'
  BY <1>1, <1>2, <1>3 DEF CwInv, CwTypes
<1>5. CwTasks'
  <2>1. ASSUME NEW x \in Tasks PROVE \A c : c = task[x] => Rests(c)'
    <3>1. Rests(task[x])
      BY CwKept
    <3> QED  BY <1>1, <3>1, CwRemembers DEF Rests
  <2> QED  BY <2>1 DEF CwTasks, Rests
<1>6. HandedIn'
  BY <1>1, CwRemembers DEF CwInv, HandedIn
<1>7. Filings'
  <2>1. scan.at = "found" => work # "NONE"
    BY DEF CwInv, Filings
  <2> QED  BY <1>1, <2>1 DEF CwInv, Filings
<1>8. Owing'
  BY <1>1, CwRemembers DEF CwInv, Owing
<1>9. Reminding'
  <2>1. ASSUME NEW n \in reminders' PROVE n[2] \in soonDays' /\ n[1] \in present'
    <3>1. CASE n \in reminders
      BY <3>1, CwRemembers DEF CwInv, Reminding
    <3>2. CASE n \notin reminders
      BY <2>1, <3>2, CwRemembers DEF CwInv, Reminding, Attended
    <3> QED  BY <3>1, <3>2
  <2>2. scan'.at = "found" => scan'.day \in soonDays'
    BY CwRemembers DEF CwInv, Reminding
  <2> QED  BY <2>1, <2>2 DEF Reminding
<1> QED  BY <1>4, <1>5, <1>6, <1>7, <1>8, <1>9, CwRemembers DEF CwInv

LEMMA CwWorldSteps ==
  ASSUME CwInv, Remember,
         Scanned \/ (\E u \in Users : Enrolments(u)) \/ WindowOpensOrCloses \/ NextDay
  PROVE  CwInv'
<1>1. /\ soon \in BOOLEAN /\ audience \subseteq Users /\ moves \in 0..MaxMoves /\ scan \in CwScan
      /\ today \in Nat
  BY DEF CwInv, CwTypes
<1>2. NoScan \in CwScan /\ NoScan.at = "idle" /\ NoScan.day = 0
  BY DEF NoScan, CwScan
<1>3. CASE ScanDue
  <2> DEFINE q == [at |-> "found", day |-> today]
  <2>1. q \in CwScan /\ q.at = "found" /\ q.day = today
    BY <1>1 DEF CwScan
  <2>2. /\ UNCHANGED <<work, audience, moves, soon, today, handed, filed, news, reminders, task, tasks, slips>>
        /\ scan' = q /\ work = "PUBLISHED" /\ soon
    BY <1>3 DEF ScanDue, school, clock, taskLimits
  <2>3. today \in soonDays
    BY <2>2 DEF CwInv, Attended
  <2> HIDE DEF q
  <2> QED  BY <1>1, <2>1, <2>2, <2>3, CwWorld
<1>4. ASSUME NEW some \in SUBSET Users, Remind(some) PROVE CwInv'
  <2>1. /\ UNCHANGED <<work, audience, moves, soon, today, handed, filed, news, task, tasks, slips>>
        /\ scan' = NoScan /\ scan.at = "found" /\ some \subseteq audience
        /\ reminders' = reminders \cup (some \X {scan.day})
    BY <1>4 DEF Remind, school, clock, taskLimits
  <2>2. \A n \in reminders' \ reminders : n \in audience \X {scan.day}
    BY <2>1
  <2> QED  BY <1>1, <1>2, <2>1, <2>2, CwWorld
<1>5. ASSUME NEW u \in Users, Enrolments(u) PROVE CwInv'
  <2>1. /\ UNCHANGED <<work, soon, today, handed, filed, news, reminders, task, scan, tasks, slips>>
        /\ audience' \subseteq Users /\ moves' \in 0..MaxMoves
    BY <1>1, <1>5, CourseworkBounds DEF Enrolments, clock, taskLimits
  <2> QED  BY <1>1, <2>1, CwWorld
<1>6. CASE WindowOpensOrCloses
  <2>1. /\ UNCHANGED <<work, audience, moves, today, handed, filed, news, reminders, task, scan, tasks, slips>>
        /\ soon' \in BOOLEAN
    BY <1>1, <1>6 DEF WindowOpensOrCloses, school, taskLimits
  <2> QED  BY <1>1, <2>1, CwWorld
<1>7. CASE NextDay
  <2>1. /\ UNCHANGED <<work, audience, soon, handed, filed, news, reminders, task, scan, tasks, slips>>
        /\ today' = today + 1 /\ moves' \in 0..MaxMoves
    BY <1>1, <1>7, CourseworkBounds DEF NextDay, taskLimits
  <2> QED  BY <1>1, <2>1, CwWorld
<1> QED  BY <1>3, <1>4, <1>5, <1>6, <1>7 DEF Scanned

LEMMA CwInductive == CwInv /\ [CourseworkNext]_courseworkVars => CwInv'
<1> SUFFICES ASSUME CwInv, [CourseworkNext]_courseworkVars PROVE CwInv'
  OBVIOUS
<1>1. ASSUME NEW r \in Tasks, Requested(r), Remember PROVE CwInv'
  BY <1>1, CwBegins, CwWrites, CwFile, CwAnnounces DEF Requested
<1>2. CASE UNCHANGED courseworkVars
  <2>1. UNCHANGED <<work, soon, today, audience, moves, handed, filed, news, reminders, task, scan, tasks,
                    slips, made, present, offered, owedNews, soonDays>>
    BY <1>2 DEF courseworkVars, clock, school, taskLimits, past
  <2> QED  BY <2>1 DEF CwInv, CwTypes, Attended, CwTasks, Rests, HandedIn, Filings, Owing, Reminding
<1> QED  BY <1>1, <1>2, CwWorldSteps DEF CourseworkNext

LEMMA CwMeans == CwInv => CourseworkTypeOK /\ SubmittedWhenOffered /\ NoticesOfWork
<1> SUFFICES ASSUME CwInv PROVE CourseworkTypeOK /\ SubmittedWhenOffered /\ NoticesOfWork
  OBVIOUS
<1>1. work \in {"NONE"} \cup {States4[k] : k \in DOMAIN States4}
  <2>1. /\ DOMAIN States4 = {"created", "published", "archived"} /\ States4["created"] = "DRAFT"
        /\ States4["published"] = "PUBLISHED" /\ States4["archived"] = "ARCHIVED"
    BY DEF States4
  <2> QED  BY <2>1, CwKept
<1>2. work = "NONE" => filed = {} /\ news = {} /\ reminders = {}
  BY DEF CwInv, Filings
<1>3. CourseworkTypeOK
  BY <1>1, <1>2 DEF CwInv, CwTypes, HandedIn, CourseworkTypeOK
<1>4. slips = 0 /\ TasksDone => filed = made /\ owedNews \subseteq news
  BY DEF CwInv, Filings, Owing, Announcing, TasksDone, OnTask
<1> QED  BY <1>3, <1>4 DEF CwInv, HandedIn, Filings, Reminding, SubmittedWhenOffered, NoticesOfWork

(* Only pupils to whom the assignment has been open have a submission or   *)
(* feedback (submit, feedback).                                            *)
THEOREM SubmittedWhenOfferedHolds == CourseworkSpec => []SubmittedWhenOffered
<1> QED  BY CwStarts, CwInductive, CwMeans, PTL DEF CourseworkSpec

(* Nobody is told of a change the log has not; every change is logged in   *)
(* the end, and publications, submissions and feedback told to those who   *)
(* stay in the audience while the assignment stays published; reminders    *)
(* are of days on which they were due (auditChange,                        *)
(* publishAssignmentEvent, enqueueAssignmentDueReminders).                 *)
THEOREM NoticesOfWorkHolds == CourseworkSpec => []NoticesOfWork
<1> QED  BY CwStarts, CwInductive, CwMeans, PTL DEF CourseworkSpec

-----------------------------------------------------------------------------
(* The desks side by side.                                                *)
(* What an evaluation's types still need: each edit begun is audited at    *)
(* most once, and an audited acknowledgement has been made.                *)
Editing == {w \in Writers : writer[w].at \in {"auditCreated", "manage", "write", "audit"}}
EvRest ==
    /\ started \in 0..MaxEdits /\ stopped \in 0..MaxStops
    /\ ackAudited \subseteq acknowledged
    /\ \A p \in Parents : reader[p] = "audit" => p \in acknowledged
    /\ IsFiniteSet(Editing)
    /\ audited + Cardinality(Editing) <= started + (IF exists THEN 1 ELSE 0)
EvAll == EvInv /\ EvRest

LEMMA EvRestStarts == EvaluationInit => EvRest
<1> SUFFICES ASSUME EvaluationInit PROVE EvRest
  OBVIOUS
<1>1. Editing = {} /\ exists = FALSE
  BY DEF EvaluationInit, Editing, NoWriter, exists
<1>2. IsFiniteSet(Editing) /\ Cardinality(Editing) = 0
  BY <1>1, FS_EmptySet
<1>3. started \in 0..MaxEdits /\ stopped \in 0..MaxStops
  BY EvaluationBounds DEF EvaluationInit
<1> QED  BY <1>1, <1>2, <1>3 DEF EvaluationInit, EvRest

(* The edits in hand, when one request changes.                            *)
LEMMA EvEditing ==
  ASSUME EvAll, NEW w \in Writers, NEW q \in Writing, writer' = [writer EXCEPT ![w] = q]
  PROVE  /\ IsFiniteSet(Editing')
         /\ Cardinality(Editing) \in Nat /\ Cardinality(Editing') \in Nat
         /\ Cardinality(Editing') <= Cardinality(Editing) + 1
         /\ (w \in Editing \/ w \notin Editing') => Cardinality(Editing') <= Cardinality(Editing)
         /\ w \in Editing /\ w \notin Editing' => Cardinality(Editing') + 1 = Cardinality(Editing)
<1>1. IsFiniteSet(Editing) /\ writer \in [Writers -> Writing]
  BY DEF EvAll, EvRest, EvInv, EvTypes
<1>2. Editing' = Editing \cup {w} \/ Editing' = Editing \ {w}
  BY <1>1 DEF Editing
<1>3. w \in Editing' => Editing' = Editing \cup {w}
  BY <1>2
<1>4. w \notin Editing' => Editing' = Editing \ {w}
  BY <1>2
<1>5. /\ Cardinality(Editing) \in Nat
      /\ IsFiniteSet(Editing \cup {w})
      /\ Cardinality(Editing \cup {w}) = IF w \in Editing THEN Cardinality(Editing) ELSE Cardinality(Editing) + 1
  BY <1>1, FS_AddElement, FS_CardinalityType
<1>6. /\ IsFiniteSet(Editing \ {w})
      /\ Cardinality(Editing \ {w}) = IF w \in Editing THEN Cardinality(Editing) - 1 ELSE Cardinality(Editing)
  BY <1>1, FS_RemoveElement
<1>7. IsFiniteSet(Editing') /\ Cardinality(Editing') \in Nat
  BY <1>2, <1>5, <1>6, FS_CardinalityType
<1>8. Cardinality(Editing') <= Cardinality(Editing) + 1
  <2>1. CASE w \in Editing'
    <3>1. Cardinality(Editing') = Cardinality(Editing \cup {w})
      BY <2>1, <1>3
    <3> QED  BY <3>1, <1>5, <1>7
  <2>2. CASE w \notin Editing'
    BY <2>2, <1>4, <1>5, <1>6
  <2> QED  BY <2>1, <2>2
<1>9. ASSUME w \in Editing \/ w \notin Editing' PROVE Cardinality(Editing') <= Cardinality(Editing)
  <2>1. CASE w \in Editing'
    BY <2>1, <1>9, <1>3, <1>5
  <2>2. CASE w \notin Editing'
    BY <2>2, <1>4, <1>5, <1>6
  <2> QED  BY <2>1, <2>2
<1>10. ASSUME w \in Editing, w \notin Editing' PROVE Cardinality(Editing') + 1 = Cardinality(Editing)
  <2>1. Cardinality(Editing') = Cardinality(Editing \ {w})
    BY <1>10, <1>4
  <2>2. Cardinality(Editing') = Cardinality(Editing) - 1
    BY <2>1, <1>10, <1>6
  <2> QED  BY <2>2, <1>5, <1>7
<1> QED  BY <1>5, <1>7, <1>8, <1>9, <1>10

LEMMA EvBudget ==
  ASSUME EvAll, EvInv', NEW w \in Writers, NEW q \in Writing, writer' = [writer EXCEPT ![w] = q],
         UNCHANGED <<acknowledged, ackAudited, reader>>,
         started' \in Nat, started <= started', started' <= MaxEdits, stopped' \in 0..MaxStops,
         exists => exists',
         \/ audited' = audited /\ (w \in Editing \/ w \notin Editing')
         \/ audited' = audited + 1 /\ w \in Editing /\ w \notin Editing'
         \/ audited' = audited /\ started' = started + 1
         \/ audited' = audited /\ ~exists /\ exists'
  PROVE  EvRest'
<1>1. /\ started \in Nat /\ audited \in Nat /\ audited' \in Nat
      /\ audited + Cardinality(Editing) <= started + (IF exists THEN 1 ELSE 0)
  BY EvaluationBounds DEF EvAll, EvRest, EvInv, EvTypes
<1>2. audited' + Cardinality(Editing') <= started' + (IF exists' THEN 1 ELSE 0)
  <2>1. /\ Cardinality(Editing) \in Nat /\ Cardinality(Editing') \in Nat
        /\ Cardinality(Editing') <= Cardinality(Editing) + 1
        /\ (w \in Editing \/ w \notin Editing') => Cardinality(Editing') <= Cardinality(Editing)
        /\ w \in Editing /\ w \notin Editing' => Cardinality(Editing') + 1 = Cardinality(Editing)
    BY EvEditing
  <2>2. CASE audited' = audited /\ (w \in Editing \/ w \notin Editing')
    BY <1>1, <2>1, <2>2
  <2>3. CASE audited' = audited + 1 /\ w \in Editing /\ w \notin Editing'
    BY <1>1, <2>1, <2>3
  <2>4. CASE audited' = audited /\ started' = started + 1
    BY <1>1, <2>1, <2>4
  <2>5. CASE audited' = audited /\ ~exists /\ exists'
    BY <1>1, <2>1, <2>5
  <2> QED  BY <2>2, <2>3, <2>4, <2>5
<1>3. IsFiniteSet(Editing')
  BY EvEditing
<1>4. started' \in 0..MaxEdits
  BY EvaluationBounds
<1> QED  BY <1>2, <1>3, <1>4 DEF EvAll, EvRest

LEMMA EvRestStep == ASSUME EvAll, EvInv', [EvaluationNext]_<<linkVars, evaluationVars>> PROVE EvRest'
<1> USE DEF Writing, Places
<1>0. /\ writer \in [Writers -> Writing] /\ started \in 0..MaxEdits /\ stopped \in 0..MaxStops
      /\ versions \in Seq(Notes)
  BY DEF EvAll, EvRest, EvInv, EvTypes
<1>1. ASSUME NEW w \in Writers, NEW n \in Notes, CreateNote(w, n) \/ BeginEdit(w, n) PROVE EvRest'
  <2> DEFINE created == [NoWriter EXCEPT !.at = "auditCreated"]
             opened == [NoWriter EXCEPT !.at = "manage", !.read = note, !.puts = n]
  <2>1. CASE CreateNote(w, n)
    <3>1. created \in Writing /\ writer' = [writer EXCEPT ![w] = created]
      BY <2>1 DEF CreateNote, NoWriter
    <3>2. /\ UNCHANGED <<acknowledged, ackAudited, audited, reader, started, stopped>>
          /\ ~exists /\ exists'
      BY <2>1 DEF CreateNote, acks, exists
    <3>3. started' \in Nat /\ started <= started' /\ started' <= MaxEdits /\ stopped' \in 0..MaxStops
      BY <1>0, <3>2, EvaluationBounds
    <3> HIDE DEF created
    <3> QED  BY <3>1, <3>2, <3>3, EvBudget
  <2>2. CASE BeginEdit(w, n)
    <3>1. note \in Notes
      BY <1>0, <2>2 DEF BeginEdit, exists, note
    <3>2. opened \in Writing /\ writer' = [writer EXCEPT ![w] = opened]
      BY <3>1, <2>2 DEF BeginEdit, NoWriter
    <3>3. /\ UNCHANGED <<acknowledged, ackAudited, audited, reader, versions, stopped>>
          /\ started' = started + 1 /\ started < MaxEdits /\ exists' = exists
      BY <2>2 DEF BeginEdit, acks, noteVars, exists
    <3>4. started' \in Nat /\ started <= started' /\ started' <= MaxEdits /\ stopped' \in 0..MaxStops
      BY <1>0, <3>3, EvaluationBounds
    <3> HIDE DEF opened
    <3> QED  BY <3>2, <3>3, <3>4, EvBudget
  <2> QED  BY <1>1, <2>1, <2>2
<1>2. ASSUME NEW w \in Writers,
             \/ AuditCreated(w) \/ MayManage(w) \/ Edit(w) \/ AuditEdit(w)
             \/ Recipients(w) \/ RecipientLinks(w) \/ Enqueue(w) \/ Stop(w)
      PROVE  EvRest'
  <2>1. PICK q \in Writing : writer' = [writer EXCEPT ![w] = q]
    <3>1. writer' \in [Writers -> Writing]
      BY DEF EvInv, EvTypes
    <3>2. PICK q : writer' = [writer EXCEPT ![w] = q]
      BY <1>0, <1>2 DEF AuditCreated, MayManage, Edit, AuditEdit, Recipients, RecipientLinks, Enqueue, Stop,
                         Moves, Ends
    <3>3. writer'[w] = q /\ q \in Writing
      BY <1>0, <3>1, <3>2
    <3> QED  BY <3>2, <3>3
  <2>2. /\ UNCHANGED <<acknowledged, ackAudited, reader, started>> /\ stopped' \in 0..MaxStops
        /\ exists => exists'
    BY <1>0, <1>2, EvaluationBounds
       DEF AuditCreated, MayManage, Edit, AuditEdit, Recipients, RecipientLinks, Enqueue,
           Stop, acks, noteVars, exists
  <2>3. \/ audited' = audited /\ (w \in Editing \/ w \notin Editing')
        \/ audited' = audited + 1 /\ w \in Editing /\ w \notin Editing'
    BY <1>0, <1>2 DEF AuditCreated, MayManage, Edit, AuditEdit, Recipients, RecipientLinks, Enqueue,
                      Stop, Moves,
                      Ends, NoWriter, Editing
  <2>4. started' \in Nat /\ started <= started' /\ started' <= MaxEdits
    BY <1>0, <2>2, EvaluationBounds
  <2> QED  BY <2>1, <2>2, <2>3, <2>4, EvBudget
<1>3. ASSUME NEW p \in Parents,
             FindVisible(p) \/ FindLink(p) \/ Acknowledge(p) \/ AuditAck(p) \/ StopReader(p)
      PROVE  EvRest'
  <2>1. /\ UNCHANGED <<versions, audited, writer, started>> /\ stopped' \in 0..MaxStops
        /\ acknowledged \subseteq acknowledged'
    BY <1>0, <1>3, EvaluationBounds
       DEF FindVisible, FindLink, Acknowledge, AuditAck, StopReader, ReaderMoves, acks, noteVars
  <2>2. ackAudited' \subseteq acknowledged' /\ \A x \in Parents : reader'[x] = "audit" => x \in acknowledged'
    BY <1>3 DEF FindVisible, FindLink, Acknowledge, AuditAck, StopReader, ReaderMoves, acks,
                 EvAll, EvRest, EvInv, EvTypes
  <2> QED  BY <2>1, <2>2 DEF EvAll, EvRest, Editing, exists
<1>4. CASE UNCHANGED evaluationVars
  BY <1>4 DEF evaluationVars, noteVars, acks, EvAll, EvRest, Editing, exists
<1>5. PupilLinks => UNCHANGED evaluationVars
  BY DEF PupilLinks
<1> QED  BY <1>1, <1>2, <1>3, <1>4, <1>5 DEF EvaluationNext

LEMMA EvAllInductive == EvAll /\ [EvaluationNext]_<<linkVars, evaluationVars>> => EvAll'
  BY EvInductive, EvRestStep DEF EvAll

LEMMA EvMeans == EvAll => EvaluationTypeOK /\ InternalStaysInternal /\ EditsHaveHistory
<1> SUFFICES ASSUME EvAll PROVE EvaluationTypeOK /\ InternalStaysInternal /\ EditsHaveHistory
  OBVIOUS
<1>1. everLinked[Child] \subseteq Parents
  BY ChildIsStudent DEF EvAll, EvInv, EvTypes, LinksOK
<1>2. audited \in 0..(MaxEdits + 1)
  <2>1. Cardinality(Editing) \in Nat
    BY FS_CardinalityType DEF EvAll, EvRest
  <2> QED  BY <2>1, EvaluationBounds DEF EvAll, EvInv, EvTypes, EvRest
<1>3. ASSUME NEW w \in Writers
      PROVE  /\ writer[w].at \in Places /\ writer[w].recipients \subseteq Parents
             /\ writer[w].at \in {"manage", "write"} => writer[w].read \in Notes
  BY <1>1 DEF EvAll, EvInv, EvTypes, EvFound, Writing
<1>4. told \subseteq Parents /\ acknowledged \subseteq Parents
  BY <1>1 DEF EvAll, EvInv, EvInternal
<1>5. EvaluationTypeOK
  BY <1>2, <1>3, <1>4 DEF EvAll, EvInv, EvTypes, EvRest, EvaluationTypeOK, Finding
<1> QED  BY <1>5, EvNotes DEF EvAll

(* The desk at work keeps its invariant; the others are as they began.     *)
DesksInv ==
    /\ desk \in {"attendance", "evaluations", "messaging", "coursework"}
    /\ LinksOK
    /\ IF desk = "attendance" THEN AttInv ELSE AttendanceInit
    /\ IF desk = "evaluations" THEN EvAll ELSE EvaluationInit
    /\ IF desk = "messaging" THEN MsgInv ELSE MessagingInit
    /\ IF desk = "coursework" THEN CwInv ELSE CourseworkInit

LEMMA DesksStart == Init => DesksInv
<1> SUFFICES ASSUME Init PROVE DesksInv
  OBVIOUS
<1>1. /\ desk \in {"attendance", "evaluations", "messaging", "coursework"}
      /\ LinksInit /\ AttendanceInit /\ EvaluationInit /\ MessagingInit /\ CourseworkInit
  BY DEF Init
<1>2. LinksOK
  BY <1>1 DEF LinksInit, LinksOK
<1> QED  BY <1>1, <1>2, AttStarts, EvStarts, EvRestStarts, MsgStarts, CwStarts DEF DesksInv, EvAll

(* A part whose desk is not at work stays as it began.                     *)
LEMMA DesksRest ==
  /\ AttendanceInit /\ UNCHANGED attendanceVars => AttendanceInit'
  /\ EvaluationInit /\ UNCHANGED evaluationVars => EvaluationInit'
  /\ MessagingInit /\ UNCHANGED messagingVars => MessagingInit'
  /\ CourseworkInit /\ UNCHANGED courseworkVars => CourseworkInit'
<1>1. AttendanceInit /\ UNCHANGED attendanceVars => AttendanceInit'
  BY DEF AttendanceInit, attendanceVars, rows, history
<1>2. EvaluationInit /\ UNCHANGED evaluationVars => EvaluationInit'
  BY DEF EvaluationInit, evaluationVars, noteVars, acks
<1>3. MessagingInit /\ UNCHANGED messagingVars => MessagingInit'
  BY DEF MessagingInit, messagingVars, logs, limits
<1>4. CourseworkInit /\ UNCHANGED courseworkVars => CourseworkInit'
  BY DEF CourseworkInit, courseworkVars, taskLimits, school, clock, past
<1> QED  BY <1>1, <1>2, <1>3, <1>4

LEMMA DesksInductive == DesksInv /\ [Next]_vars => DesksInv'
<1> SUFFICES ASSUME DesksInv, [Next]_vars PROVE DesksInv'
  OBVIOUS
<1>1. CASE /\ desk = "attendance" /\ AttendanceNext
          /\ UNCHANGED <<desk, evaluationVars, messagingVars, courseworkVars>>
  <2>1. AttInv'
    BY <1>1, AttInductive DEF DesksInv
  <2>2. LinksOK'
    BY <2>1 DEF AttInv, AttTypes
  <2> QED  BY <1>1, <2>1, <2>2, DesksRest DEF DesksInv
<1>2. CASE /\ desk = "evaluations" /\ EvaluationNext
          /\ UNCHANGED <<desk, attendanceVars, messagingVars, courseworkVars>>
  <2>1. EvAll'
    BY <1>2, EvAllInductive DEF DesksInv
  <2>2. LinksOK'
    BY <2>1 DEF EvAll, EvInv, EvTypes
  <2> QED  BY <1>2, <2>1, <2>2, DesksRest DEF DesksInv
<1>3. CASE /\ desk = "messaging" /\ MessagingNext
          /\ UNCHANGED <<desk, linkVars, attendanceVars, evaluationVars, courseworkVars>>
  <2>1. MsgInv' /\ LinksOK'
    BY <1>3, MsgInductive DEF DesksInv, linkVars, LinksOK
  <2> QED  BY <1>3, <2>1, DesksRest DEF DesksInv
<1>4. CASE /\ desk = "coursework" /\ CourseworkNext
          /\ UNCHANGED <<desk, linkVars, attendanceVars, evaluationVars, messagingVars>>
  <2>1. CwInv' /\ LinksOK'
    BY <1>4, CwInductive DEF DesksInv, linkVars, LinksOK
  <2> QED  BY <1>4, <2>1, DesksRest DEF DesksInv
<1>5. CASE UNCHANGED vars
  <2>1. /\ desk' = desk /\ LinksOK'
        /\ UNCHANGED <<linkVars, attendanceVars, evaluationVars, messagingVars, courseworkVars>>
    BY <1>5 DEF vars, linkVars, DesksInv, LinksOK
  <2>2. /\ desk = "attendance" => AttInv'
        /\ desk = "evaluations" => EvAll'
        /\ desk = "messaging" => MsgInv'
        /\ desk = "coursework" => CwInv'
    BY <2>1, AttInductive, EvAllInductive, MsgInductive, CwInductive DEF DesksInv
  <2> QED  BY <2>1, <2>2, DesksRest DEF DesksInv
<1> QED  BY <1>1, <1>2, <1>3, <1>4, <1>5 DEF Next, RecordStep, DialogueStep

LEMMA DesksMean == DesksInv => AttInv /\ EvAll /\ MsgInv /\ CwInv
  BY AttStarts, EvStarts, EvRestStarts, MsgStarts, CwStarts DEF DesksInv, EvAll

(* Every part has its type, whichever desk is at work.                     *)
THEOREM TypeOKHolds == Spec => []TypeOK
<1>1. DesksInv => TypeOK
  BY DesksMean, AttMeans, EvMeans, MsgMeans, CwMeans DEF TypeOK
<1> QED  BY DesksStart, DesksInductive, <1>1, PTL DEF Spec

(* The promises of the four services hold of the records together: what    *)
(* one desk does breaks none of them.                                      *)
THEOREM RecordsKeepTheirPromises ==
  Spec => [](/\ StatesExplained /\ AbsenceIsNotified
             /\ InternalStaysInternal /\ EditsHaveHistory
             /\ FilesOfMessages /\ ConversationAudited
             /\ SubmittedWhenOffered /\ NoticesOfWork)
<1>1. DesksInv => /\ StatesExplained /\ AbsenceIsNotified
                  /\ InternalStaysInternal /\ EditsHaveHistory
                  /\ FilesOfMessages /\ ConversationAudited
                  /\ SubmittedWhenOffered /\ NoticesOfWork
  BY DesksMean, AttMeans, EvMeans, MsgMeans, CwMeans
<1> QED  BY DesksStart, DesksInductive, <1>1, PTL DEF Spec
=============================================================================
