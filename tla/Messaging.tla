----------------------------- MODULE Messaging -----------------------------
(***************************************************************************)
(* One conversation of a parent and a teacher (messaging.service.ts): its  *)
(* messages with their attached files, its state, and an administrator's   *)
(* access once it is escalated.                                            *)
(*                                                                         *)
(* Every operation starts by reading the conversation and decides on what  *)
(* it read; files are saved before the row that names them.                *)
(***************************************************************************)
EXTENDS Integers, Sequences

CONSTANTS
    Talks,         \* requests that may be in progress together
    MaxTalks,      \* bound: requests begun
    MaxRefusals,   \* bound: inserts the database refuses
    MaxBreaks      \* bound: other failed statements and process deaths

ASSUME MessagingBounds ==
    MaxTalks \in Nat /\ MaxRefusals \in Nat /\ MaxBreaks \in Nat

Participants == {"parent", "teacher"}
NoFile == 0

VARIABLES
    state,        \* state of the conversation, NONE before it exists
    messages,     \* the conversation's messages, the oldest first
    files,        \* stored files
    fresh,        \* files saved so far; names are never reused
    talk,         \* the requests
    audits,       \* audit records: <<operation, message or 0>>
    adminAudits,  \* CONVERSATION_ADMIN_ACCESSED audit records
    shown,        \* conversations returned to an administrator
    notified,     \* notices of messages: <<message, user>>
    talks,        \* requests begun so far
    refused, broken,
    escalated     \* history: the conversation has been ESCALATED

logs == <<audits, adminAudits, shown, notified>>
limits == <<talks, refused, broken>>
messagingVars == <<state, messages, files, fresh, talk, logs, limits, escalated>>

NoTalk == [op |-> "none", at |-> "idle", by |-> "parent", saw |-> "NONE", attach |-> FALSE,
           file |-> NoFile, message |-> 0]

Talking(r) == talk[r].at # "idle"
EndsTalk(r) == talk' = [talk EXCEPT ![r] = NoTalk]
GoesTalk(r, where) == talk' = [talk EXCEPT ![r].at = where]

MessagingInit ==
    /\ state = "NONE" /\ messages = <<>>
    /\ files = {} /\ fresh = 0
    /\ talk = [r \in Talks |-> NoTalk]
    /\ audits = {} /\ adminAudits = 0 /\ shown = 0 /\ notified = {}
    /\ talks = 0 /\ refused = 0 /\ broken = 0
    /\ escalated = FALSE

BeginTalk(r, q) ==
    /\ ~Talking(r)
    /\ talks < MaxTalks
    /\ talks' = talks + 1
    /\ talk' = [talk EXCEPT ![r] = q]
    /\ UNCHANGED <<state, messages, files, fresh, logs, refused, broken, escalated>>

ToStore(attach) == IF attach THEN "save" ELSE "insert"

(* create, for a parent linked to a student the teacher teaches. *)
BeginConversation(r, attach) ==
    /\ state = "NONE" /\ \A v \in Talks : ~Talking(v)
    /\ BeginTalk(r, [NoTalk EXCEPT !.op = "create", !.at = ToStore(attach), !.attach = attach])

-----------------------------------------------------------------------------
(* access: read the conversation, mark the other's messages read.          *)

(* A detail request opens the conversation and changes nothing further. *)
Operations == {"detail", "send", "archive", "escalate", "report", "read"}

BeginOperation_NotFoundIgnored(r, who, op, attach) ==
    /\ attach => op = "send"
    /\ BeginTalk(r, [NoTalk EXCEPT !.op = op, !.at = "mark", !.by = who, !.saw = state,
                                   !.attach = attach])

BeginOperation(r, who, op, attach) ==
    /\ state # "NONE"
    /\ attach => op = "send"
    /\ BeginTalk(r, [NoTalk EXCEPT !.op = op, !.at = "mark", !.by = who, !.saw = state,
                                   !.attach = attach])

AfterAccess(q) ==
    CASE q.op = "send" -> IF q.saw = "ARCHIVED" THEN "idle" ELSE ToStore(q.attach)
      [] q.op \in {"archive", "escalate", "report"} -> "state"
      [] q.op = "read" -> "mark again"
      [] OTHER -> "idle"

MarkedBy(who) ==
    [n \in DOMAIN messages |-> [messages[n] EXCEPT !.read = @ \/ messages[n].author # who]]

MarkRead(r) ==
    LET q == talk[r] IN
    /\ q.at = "mark"
    /\ messages' = MarkedBy(q.by)
    /\ IF AfterAccess(q) = "idle" THEN EndsTalk(r) ELSE GoesTalk(r, AfterAccess(q))
    /\ UNCHANGED <<state, files, fresh, logs, limits, escalated>>

(* read marks them once more, then audits. *)
MarkAgain(r) ==
    /\ talk[r].at = "mark again"
    /\ messages' = MarkedBy(talk[r].by)
    /\ GoesTalk(r, "audit")
    /\ UNCHANGED <<state, files, fresh, logs, limits, escalated>>

-----------------------------------------------------------------------------
(* send, and the first message of create.                                  *)

SaveFile(r) ==
    /\ talk[r].at = "save"
    /\ fresh' = fresh + 1
    /\ files' = files \cup {fresh'}
    /\ talk' = [talk EXCEPT ![r].at = "insert", ![r].file = fresh']
    /\ UNCHANGED <<state, messages, logs, limits, escalated>>

(* A message row, which create writes together with the conversation. *)
InsertMessage(r) ==
    LET q == talk[r] IN
    /\ q.at = "insert"
    /\ messages' = Append(messages, [author |-> q.by, file |-> q.file, read |-> FALSE])
    /\ state' = IF q.op = "create" THEN "ACTIVE" ELSE state
    /\ talk' = [talk EXCEPT ![r].at = "audit", ![r].message = Len(messages'), ![r].file = NoFile]
    /\ UNCHANGED <<files, fresh, logs, limits, escalated>>

InsertRefused_FileKept(r) ==
    /\ talk[r].at = "insert"
    /\ refused < MaxRefusals
    /\ refused' = refused + 1
    /\ EndsTalk(r)
    /\ UNCHANGED <<state, messages, files, fresh, logs, talks, broken, escalated>>

(* The insert throws; the handler removes the file it saved. *)
InsertRefused(r) ==
    /\ talk[r].at = "insert"
    /\ refused < MaxRefusals
    /\ refused' = refused + 1
    /\ IF talk[r].file = NoFile THEN EndsTalk(r) ELSE GoesTalk(r, "remove")
    /\ UNCHANGED <<state, messages, files, fresh, logs, talks, broken, escalated>>

RemoveFile(r) ==
    /\ talk[r].at = "remove"
    /\ files' = files \ {talk[r].file}
    /\ EndsTalk(r)
    /\ UNCHANGED <<state, messages, fresh, logs, limits, escalated>>

(* The audit records of an operation; report is an escalation and one more. *)
AuditedAs(op) == IF op = "report" THEN "escalate" ELSE op
AfterAudit(op) == CASE op = "send" -> "publish" [] op = "report" -> "report" [] OTHER -> "idle"

Audit_OwnOnly(r) ==
    LET q == talk[r] IN
    /\ q.at = "audit"
    /\ audits' = IF q.op = "send" /\ q.by = "teacher" THEN audits
                 ELSE audits \cup {<<AuditedAs(q.op), q.message>>}
    /\ IF AfterAudit(q.op) = "idle" THEN EndsTalk(r) ELSE GoesTalk(r, AfterAudit(q.op))
    /\ UNCHANGED <<state, messages, files, fresh, adminAudits, shown, notified, limits, escalated>>

Audit(r) ==
    LET q == talk[r] IN
    /\ q.at = "audit"
    /\ audits' = audits \cup {<<AuditedAs(q.op), q.message>>}
    /\ IF AfterAudit(q.op) = "idle" THEN EndsTalk(r) ELSE GoesTalk(r, AfterAudit(q.op))
    /\ UNCHANGED <<state, messages, files, fresh, adminAudits, shown, notified, limits, escalated>>

AuditReport(r) ==
    /\ talk[r].at = "report"
    /\ audits' = audits \cup {<<"report", 0>>}
    /\ EndsTalk(r)
    /\ UNCHANGED <<state, messages, files, fresh, adminAudits, shown, notified, limits, escalated>>

(* Identities of rows: of the conversation, and of its messages. *)
ConversationId == <<"conversation", 1>>
MessageId(n) == <<"message", n>>

(* NotificationWorkerService.recipients looks for the conversation whose   *)
(* id is the event's aggregate.                                            *)
RecipientsOf(aggregateId) == IF aggregateId = ConversationId THEN Participants ELSE {}

(* messaging.message.sent, published with the message as its aggregate. *)
PublishSent(r) ==
    LET n == talk[r].message IN
    /\ talk[r].at = "publish"
    /\ notified' = notified \cup {<<n, u>> : u \in RecipientsOf(MessageId(n))}
    /\ EndsTalk(r)
    /\ UNCHANGED <<state, messages, files, fresh, audits, adminAudits, shown, limits, escalated>>

-----------------------------------------------------------------------------
(* archive, escalate and report: the new state, whatever it is by now.     *)
SetState(r) ==
    /\ talk[r].at = "state"
    /\ state' = IF talk[r].op = "archive" THEN "ARCHIVED" ELSE "ESCALATED"
    /\ escalated' = (escalated \/ state' = "ESCALATED")
    /\ GoesTalk(r, "audit")
    /\ UNCHANGED <<messages, files, fresh, logs, limits>>

(* detail by an administrator, refused unless the state read is ESCALATED. *)
BeginAdmin_Archived(r) ==
    /\ state \in {"ESCALATED", "ARCHIVED"}
    /\ BeginTalk(r, [NoTalk EXCEPT !.op = "admin", !.at = "adminAudit"])

BeginAdmin(r) ==
    /\ state = "ESCALATED"
    /\ BeginTalk(r, [NoTalk EXCEPT !.op = "admin", !.at = "adminAudit"])

(* The access is recorded on the conversation and audited ... *)
AdminAudit(r) ==
    /\ talk[r].at = "adminAudit"
    /\ adminAudits' = adminAudits + 1
    /\ GoesTalk(r, "show")
    /\ UNCHANGED <<state, messages, files, fresh, audits, shown, notified, limits, escalated>>

(* ... before the conversation is returned. *)
Show(r) ==
    /\ talk[r].at = "show"
    /\ shown' = shown + 1
    /\ EndsTalk(r)
    /\ UNCHANGED <<state, messages, files, fresh, audits, adminAudits, notified, limits,
                   escalated>>

(* A statement fails or the process dies: what was written stays. *)
Breaks(r) ==
    /\ Talking(r)
    /\ broken < MaxBreaks
    /\ broken' = broken + 1
    /\ EndsTalk(r)
    /\ UNCHANGED <<state, messages, files, fresh, logs, talks, refused, escalated>>

MessagingNext ==
    \E r \in Talks :
        \/ \E attach \in BOOLEAN :
              \/ BeginConversation(r, attach)
              \/ \E who \in Participants, op \in Operations :
                    BeginOperation(r, who, op, attach)
        \/ MarkRead(r) \/ MarkAgain(r) \/ SaveFile(r) \/ InsertMessage(r) \/ InsertRefused(r)
        \/ RemoveFile(r) \/ Audit(r) \/ AuditReport(r) \/ PublishSent(r) \/ SetState(r)
        \/ BeginAdmin(r) \/ AdminAudit(r) \/ Show(r) \/ Breaks(r)

MessagingSpec == MessagingInit /\ [][MessagingNext]_messagingVars

-----------------------------------------------------------------------------
(* Properties.                                                             *)

AllSaid == broken = 0 /\ \A r \in Talks : ~Talking(r)
Attached == {messages[n].file : n \in DOMAIN messages} \ {NoFile}
Held == {talk[r].file : r \in Talks} \ {NoFile}

(* Every variable has its type; the conversation exists exactly when it    *)
(* has a message, and the first of them is the parent's (create).          *)
MessagingTypeOK ==
    /\ state \in {"NONE", "ACTIVE", "ARCHIVED", "ESCALATED"}
    /\ messages \in Seq([author : Participants, file : 0..fresh, read : BOOLEAN])
    /\ state = "NONE" <=> messages = <<>>
    /\ messages # <<>> => messages[1].author = "parent"
    /\ files \subseteq 1..fresh
    /\ audits \subseteq (Operations \cup {"create"}) \X (0..Len(messages))
    /\ notified \subseteq (DOMAIN messages) \X Participants
    /\ talks \in 0..MaxTalks /\ refused \in 0..MaxRefusals /\ broken \in 0..MaxBreaks

(* The file of a message is stored and is of no other message; a file of   *)
(* no message is held by a request in progress, unless a statement other   *)
(* than an insert failed (create, send).                                   *)
FilesOfMessages ==
    /\ Attached \subseteq files
    /\ \A m, n \in DOMAIN messages :
          messages[m].file = messages[n].file /\ messages[m].file # NoFile => m = n
    /\ Attached \cap Held = {}
    /\ broken = 0 => files = Attached \cup Held

(* An administrator is shown a conversation only once it has been          *)
(* escalated, and never without an audit record of that very access        *)
(* ("authorized administrative access to an escalated conversation is      *)
(* audited").  Unless a statement fails, once no request is in progress    *)
(* the log also holds the creation, every message sent, and what brought   *)
(* the conversation into its state (access, send, archive, escalate).      *)
ConversationAudited ==
    /\ shown > 0 => escalated
    /\ shown <= adminAudits
    /\ AllSaid =>
          /\ state # "NONE" => <<"create", 1>> \in audits
          /\ \A n \in 2..Len(messages) : <<"send", n>> \in audits
          /\ state = "ARCHIVED" => <<"archive", 0>> \in audits
          /\ state = "ESCALATED" => <<"escalate", 0>> \in audits

(* docs/messaging.md:7 on the notification of a message: its default is    *)
(* `New secure message`.  Unless a statement fails, once no request is in  *)
(* progress the other participant has a notice of every message sent.      *)
MessageIsNotified ==
    AllSaid => \A n \in 2..Len(messages) : \A u \in Participants :
                    u # messages[n].author => <<n, u>> \in notified
=============================================================================
