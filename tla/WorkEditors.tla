---------------------------- MODULE WorkEditors -----------------------------
(***************************************************************************)
(* The two texts written on the assignments page (assignments/page.tsx): a *)
(* teacher's assignment, in one editor for all of them, and a pupil's      *)
(* response to one.  Nothing keeps the user from typing, choosing another  *)
(* assignment or sending again while a request is in progress.             *)
(***************************************************************************)
EXTENDS Naturals

CONSTANTS
    Works,        \* assignments the teacher can edit
    MaxSaves,     \* bound: saves and submissions begun
    MaxTexts      \* bound: responses typed

ASSUME WorkEditorsBounds == "new" \notin Works /\ MaxSaves \in Nat /\ MaxTexts \in Nat

New == "new"      \* an assignment that does not exist yet
NoText == 0       \* an empty response; the others are numbered as they are typed

VARIABLES
    editor,       \* editingId, and the row the draft was begun from
    typed,        \* response typed since the page was opened, or NoText
    texts,        \* responses typed so far
    sending,      \* saves and submissions in progress, with what was read at the click
    begunSaves,   \* saves and submissions begun so far
    written,      \* server: <<assignment, row its text was begun from>> ever written
    recorded,     \* server: response of the pupil
    newest,       \* history: newest response ever recorded
    crossed,      \* history: a submission was made while another was in progress
    blind         \* history: one was made with nothing typed since the page was opened

seen == <<newest, crossed, blind>>
workVars == <<editor, typed, texts, sending, begunSaves, written, recorded, seen>>

Blank == [id |-> New, draft |-> New]

WorkEditorsInit ==
    /\ editor = Blank /\ typed = NoText /\ texts = 0
    /\ sending = {} /\ begunSaves = 0
    /\ written = {} /\ recorded = NoText
    /\ newest = NoText /\ crossed = FALSE /\ blind = FALSE

Sends(what, value) ==
    /\ begunSaves < MaxSaves /\ begunSaves' = begunSaves + 1
    /\ sending' = sending \cup {[what |-> what, value |-> value, number |-> begunSaves, at |-> "sent"]}

Stored(s) == sending' = (sending \ {s}) \cup {[s EXCEPT !.at = "stored"]}

-----------------------------------------------------------------------------
(* The editor.  Edit copies the row into the draft and names it; saving    *)
(* sends a PATCH of the assignment named or a POST of a new one; and the   *)
(* answer empties the editor, whatever it holds by then.                   *)

Edit(w) ==
    /\ editor' = [id |-> w, draft |-> w]
    /\ UNCHANGED <<typed, texts, sending, begunSaves, written, recorded, seen>>

ResetEditor_IdKept == editor' = [editor EXCEPT !.draft = New]

ResetEditor == editor' = Blank

CancelEdit ==
    /\ ResetEditor
    /\ UNCHANGED <<typed, texts, sending, begunSaves, written, recorded, seen>>

SaveAssignment ==
    /\ Sends("assignment", editor)
    /\ UNCHANGED <<editor, typed, texts, written, recorded, seen>>

StoreAssignment(s) ==
    /\ s.what = "assignment" /\ s.at = "sent" /\ Stored(s)
    /\ written' = written \cup {<<s.value.id, s.value.draft>>}
    /\ UNCHANGED <<editor, typed, texts, begunSaves, recorded, seen>>

AssignmentSaved(s) ==
    /\ s.what = "assignment" /\ s.at = "stored" /\ sending' = sending \ {s} /\ ResetEditor
    /\ UNCHANGED <<typed, texts, begunSaves, written, recorded, seen>>

-----------------------------------------------------------------------------
(* The response.  When nothing was typed the text area shows what is       *)
(* recorded, but what is sent then is empty.                               *)

Type ==
    /\ texts < MaxTexts /\ texts' = texts + 1 /\ typed' = texts + 1
    /\ UNCHANGED <<editor, sending, begunSaves, written, recorded, seen>>

SubmitWork ==
    /\ Sends("response", typed)
    /\ crossed' = (crossed \/ \E s \in sending : s.what = "response")
    /\ blind' = (blind \/ typed = NoText)
    /\ UNCHANGED <<editor, typed, texts, written, recorded, newest>>

RecordWork_OnlyFirst(s) ==
    /\ s.what = "response" /\ s.at = "sent" /\ Stored(s)
    /\ recorded' = IF recorded = NoText THEN s.value ELSE recorded
    /\ newest' = IF s.value > newest THEN s.value ELSE newest
    /\ UNCHANGED <<editor, typed, texts, begunSaves, written, crossed, blind>>

RecordWork(s) ==
    /\ s.what = "response" /\ s.at = "sent" /\ Stored(s)
    /\ recorded' = s.value
    /\ newest' = IF s.value > newest THEN s.value ELSE newest
    /\ UNCHANGED <<editor, typed, texts, begunSaves, written, crossed, blind>>

\* A submission answered, or a request refused or never answered: what was typed
\* stays on the page, and an assignment may be written by the next save again.
SendEnds(s) ==
    /\ sending' = sending \ {s}
    /\ UNCHANGED <<editor, typed, texts, begunSaves, written, recorded, seen>>

\* The page is left and opened again.
OpenPage ==
    /\ sending = {}
    /\ editor' = Blank /\ typed' = NoText
    /\ UNCHANGED <<texts, sending, begunSaves, written, recorded, seen>>

WorkEditorsNext ==
    \/ \E w \in Works : Edit(w)
    \/ CancelEdit \/ SaveAssignment \/ Type \/ SubmitWork \/ OpenPage
    \/ \E s \in sending :
          \/ StoreAssignment(s) \/ AssignmentSaved(s) \/ RecordWork(s) \/ SendEnds(s)

-----------------------------------------------------------------------------
(* No assignment is ever written over with a text begun for another one,   *)
(* however saves overlap with the choice of the next; and a response gives *)
(* way to an older one or to nothing only when two submissions overlapped  *)
(* or one was made on a page on which nothing had been typed               *)
(* (saveAssignment, resetEditor, submit).                                  *)
TextStaysWithItsRow ==
    /\ \A w \in written : w[1] = w[2]
    /\ crossed \/ blind \/ recorded = newest
=============================================================================
