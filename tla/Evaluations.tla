---------------------------- MODULE Evaluations ----------------------------
(***************************************************************************)
(* One student's evaluation note (evaluations.service.ts): its creation,   *)
(* its edits with their history rows, the acknowledgement of parents, and  *)
(* whom an edit is announced to.                                           *)
(*                                                                         *)
(* An edit writes a history row taken from the note it read before it      *)
(* checked the author's right to edit; the audit record, the recipients    *)
(* and their notices follow in statements of their own.                    *)
(***************************************************************************)
EXTENDS ParentLinks, Integers, Sequences

CONSTANTS
    Contents,        \* what a note may say
    Writers,         \* edit and create requests in progress together
    MaxEdits,        \* bound: edits begun
    MaxStops         \* bound: failed statements and process deaths

ASSUME EvaluationBounds == MaxEdits \in Nat /\ MaxStops \in Nat

CONSTANT Child       \* the student the note is about
ASSUME ChildIsStudent == Child \in Students

(* The schemas keep safeguarding notes internal. *)
Notes == {n \in [kind : {"OBSERVATION", "SAFEGUARDING"}, visible : BOOLEAN, says : Contents] :
            n.kind = "SAFEGUARDING" => ~n.visible}

VARIABLES
    versions,     \* history: the values the note has had, the last its current one
    edits,        \* EvaluationHistory rows, in the order of the edits they came with
    told,         \* parents with a notice of an edit
    acknowledged, \* parents with an acknowledgement
    audited,      \* EVALUATION_CREATED and EVALUATION_UPDATED audit records
    ackAudited,   \* parents with an EVALUATION_ACKNOWLEDGED audit record
    writer,       \* the edit and create requests
    reader,       \* what each parent's acknowledge request has found so far
    started,      \* edits begun so far
    stopped       \* statements failed so far

note == versions[Len(versions)]
exists == versions # <<>>

noteVars == <<versions, edits>>
acks == <<acknowledged, ackAudited>>
evaluationVars == <<noteVars, told, acks, audited, writer, reader, started, stopped>>

NoWriter == [at |-> "idle", read |-> <<>>, puts |-> <<>>, recipients |-> {}]
Moves(w, where) == writer' = [writer EXCEPT ![w].at = where]
Ends(w) == writer' = [writer EXCEPT ![w] = NoWriter]

EvaluationInit ==
    /\ versions = <<>> /\ edits = <<>>
    /\ told = {} /\ acknowledged = {} /\ ackAudited = {}
    /\ audited = 0
    /\ writer = [w \in Writers |-> NoWriter]
    /\ reader = [p \in Parents |-> "idle"]
    /\ started = 0 /\ stopped = 0

(* create, past its checks. *)
CreateNote(w, n) ==
    /\ ~exists /\ writer[w].at = "idle"
    /\ versions' = <<n>>
    /\ writer' = [writer EXCEPT ![w] = [NoWriter EXCEPT !.at = "auditCreated"]]
    /\ UNCHANGED <<linkVars, edits, told, acks, audited, reader, started, stopped>>

AuditCreated(w) ==
    /\ writer[w].at = "auditCreated"
    /\ audited' = audited + 1
    /\ Ends(w)
    /\ UNCHANGED <<linkVars, noteVars, told, acks, reader, started, stopped>>

-----------------------------------------------------------------------------
(* update.                                                                 *)

BeginEdit_SchemaForgotten(w, n) ==
    /\ exists /\ writer[w].at = "idle"
    /\ started < MaxEdits
    /\ started' = started + 1
    /\ writer' = [writer EXCEPT ![w] = [NoWriter EXCEPT !.at = "manage", !.read = note,
                                                        !.puts = [n EXCEPT !.visible = TRUE]]]
    /\ UNCHANGED <<linkVars, noteVars, told, acks, audited, reader, stopped>>

BeginEdit(w, n) ==
    /\ exists /\ writer[w].at = "idle"
    /\ started < MaxEdits
    /\ started' = started + 1
    /\ writer' = [writer EXCEPT ![w] = [NoWriter EXCEPT !.at = "manage", !.read = note,
                                                        !.puts = n]]
    /\ UNCHANGED <<linkVars, noteVars, told, acks, audited, reader, stopped>>

(* The editor must teach the student, or administer, and be the author or  *)
(* administer; assignments and enrolments change without this service.     *)
MayManage(w) ==
    /\ writer[w].at = "manage"
    /\ Moves(w, "write") \/ Ends(w)
    /\ UNCHANGED <<linkVars, noteVars, told, acks, audited, reader, started, stopped>>

Edit_NoRowIfSame(w) ==
    LET q == writer[w] IN
    /\ q.at = "write"
    /\ edits' = IF q.read.says = q.puts.says THEN edits ELSE Append(edits, q.read)
    /\ versions' = Append(versions, q.puts)
    /\ Moves(w, "audit")
    /\ UNCHANGED <<linkVars, told, acks, audited, reader, started, stopped>>

(* The history row and the new note in one transaction. *)
Edit(w) ==
    LET q == writer[w] IN
    /\ q.at = "write"
    /\ edits' = Append(edits, q.read)
    /\ versions' = Append(versions, q.puts)
    /\ Moves(w, "audit")
    /\ UNCHANGED <<linkVars, told, acks, audited, reader, started, stopped>>

AuditEdit_OnlyVisible(w) ==
    /\ writer[w].at = "audit"
    /\ audited' = audited + IF writer[w].puts.visible THEN 1 ELSE 0
    /\ Moves(w, "recipients")
    /\ UNCHANGED <<linkVars, noteVars, told, acks, reader, started, stopped>>

AuditEdit(w) ==
    /\ writer[w].at = "audit"
    /\ audited' = audited + 1
    /\ Moves(w, "recipients")
    /\ UNCHANGED <<linkVars, noteVars, told, acks, reader, started, stopped>>

Recipients_AnyNote(w) ==
    /\ writer[w].at = "recipients"
    /\ Moves(w, "links")
    /\ UNCHANGED <<linkVars, noteVars, told, acks, audited, reader, started, stopped>>

(* evaluation.updated is announced if the note, read again, is visible ... *)
Recipients(w) ==
    /\ writer[w].at = "recipients"
    /\ IF note.visible THEN Moves(w, "links") ELSE Ends(w)
    /\ UNCHANGED <<linkVars, noteVars, told, acks, audited, reader, started, stopped>>

(* ... to the parents then approved. *)
RecipientLinks(w) ==
    /\ writer[w].at = "links"
    /\ writer' = [writer EXCEPT ![w].at = "enqueue", ![w].recipients = links[Child]]
    /\ UNCHANGED <<linkVars, noteVars, told, acks, audited, reader, started, stopped>>

Enqueue(w) ==
    /\ writer[w].at = "enqueue"
    /\ told' = told \cup writer[w].recipients
    /\ Ends(w)
    /\ UNCHANGED <<linkVars, noteVars, acks, audited, reader, started, stopped>>

(* A statement fails or the process dies; some notices may be queued. *)
Stop(w) ==
    /\ writer[w].at # "idle"
    /\ stopped < MaxStops
    /\ stopped' = stopped + 1
    /\ \E some \in SUBSET (IF writer[w].at = "enqueue" THEN writer[w].recipients ELSE {}) :
          told' = told \cup some
    /\ Ends(w)
    /\ UNCHANGED <<linkVars, noteVars, acks, audited, reader, started>>

-----------------------------------------------------------------------------
(* acknowledge: find the visible note, then the parent's links, then       *)
(* upsert the acknowledgement and audit it.                                *)

ReaderMoves(p, where) ==
    /\ reader' = [reader EXCEPT ![p] = where]
    /\ UNCHANGED <<linkVars, noteVars, told, audited, writer, started>>

FindVisible_Any(p) ==
    /\ reader[p] = "idle" /\ exists
    /\ ReaderMoves(p, "found")
    /\ UNCHANGED <<acks, stopped>>

FindVisible(p) ==
    /\ reader[p] = "idle" /\ exists
    /\ note.visible
    /\ ReaderMoves(p, "found")
    /\ UNCHANGED <<acks, stopped>>

FindLink(p) ==
    /\ reader[p] = "found"
    /\ ReaderMoves(p, IF p \in links[Child] THEN "linked" ELSE "idle")
    /\ UNCHANGED <<acks, stopped>>

Acknowledge(p) ==
    /\ reader[p] = "linked"
    /\ acknowledged' = acknowledged \cup {p}
    /\ ReaderMoves(p, "audit")
    /\ UNCHANGED <<ackAudited, stopped>>

AuditAck(p) ==
    /\ reader[p] = "audit"
    /\ ackAudited' = ackAudited \cup {p}
    /\ ReaderMoves(p, "idle")
    /\ UNCHANGED <<acknowledged, stopped>>

StopReader(p) ==
    /\ reader[p] # "idle"
    /\ stopped < MaxStops
    /\ stopped' = stopped + 1
    /\ ReaderMoves(p, "idle")
    /\ UNCHANGED acks

(* Of the links the note depends on the pupil's only. *)
PupilLinks ==
    /\ \E p \in Parents : Link(Child, p) \/ Unlink(Child, p)
    /\ UNCHANGED evaluationVars

EvaluationNext ==
    \/ \E w \in Writers :
          \/ \E n \in Notes : CreateNote(w, n) \/ BeginEdit(w, n)
          \/ AuditCreated(w) \/ MayManage(w) \/ Edit(w) \/ AuditEdit(w)
          \/ Recipients(w) \/ RecipientLinks(w) \/ Enqueue(w) \/ Stop(w)
    \/ \E p \in Parents : 
          \/ FindVisible(p) \/ FindLink(p) \/ Acknowledge(p) \/ AuditAck(p) \/ StopReader(p)
    \/ PupilLinks

EvaluationSpec ==
    LinksInit /\ EvaluationInit /\ [][EvaluationNext]_<<linkVars, evaluationVars>>

-----------------------------------------------------------------------------
(* Properties.                                                             *)

Places == {"idle", "auditCreated", "manage", "write", "audit", "recipients", "links", "enqueue"}

(* Every variable has its type; only an edit under way has read the note,  *)
(* and a safeguarding note is internal in each of its versions.            *)
EvaluationTypeOK ==
    /\ LinksOK
    /\ versions \in Seq(Notes) /\ edits \in Seq(Notes)
    /\ told \subseteq Parents /\ ackAudited \subseteq acknowledged /\ acknowledged \subseteq Parents
    /\ audited \in 0..(MaxEdits + 1)
    /\ \A w \in Writers :
          /\ writer[w].at \in Places
          /\ writer[w].at \in {"manage", "write"} => writer[w].read \in Notes
          /\ writer[w].recipients \subseteq Parents
    /\ reader \in [Parents -> {"idle", "found", "linked", "audit"}]
    /\ started \in 0..MaxEdits /\ stopped \in 0..MaxStops

(* Every edit left one history row, and the row is a value the note really *)
(* had before that edit (update, in one transaction).  Unless a statement  *)
(* fails, once nobody is at work the creation, every edit and every        *)
(* acknowledgement are in the audit log (audit).                           *)
EditsHaveHistory ==
    /\ exists => /\ Len(edits) = Len(versions) - 1
                 /\ \A i \in 1..Len(edits) : \E j \in 1..i : edits[i] = versions[j]
    /\ (/\ stopped = 0
        /\ \A w \in Writers : writer[w].at = "idle"
        /\ \A p \in Parents : reader[p] = "idle")
       => audited = Len(versions) /\ ackAudited = acknowledged

(* No parent has heard of or acknowledged a note that has always been      *)
(* internal, and only parents who have been linked to the student have     *)
(* ("never returned by parent or student endpoints"); a notice reaches     *)
(* nobody unless the note was visible after an edit, for its first version *)
(* is not announced (recipients, acknowledge, create).                     *)
InternalStaysInternal ==
    /\ told \cup acknowledged # {} => \E i \in 1..Len(versions) : versions[i].visible
    /\ told # {} => \E i \in 2..Len(versions) : versions[i].visible
    /\ told \cup acknowledged \subseteq everLinked[Child]

(* docs/evaluations.md:21: "Before every edit, the previous content, type, *)
(* visibility, editor, timestamp, and optional reason are stored in        *)
(* EvaluationHistory."                                                     *)
PreviousIsKept ==
    \A i \in 1..Len(edits) : edits[i] = versions[i]
=============================================================================
