------------------------- MODULE AttachmentPromise -------------------------
(***************************************************************************)
(* What the attachment store promises, with no keys, rows and files to     *)
(* keep in step: each item shows one file, title and content together; an  *)
(* upload or a removal takes effect in one step or not at all; a download  *)
(* gets the file its item showed when it began, or nothing of it once that *)
(* file has been replaced and destroyed.                                   *)
(***************************************************************************)
CONSTANTS Items, Requests, Contents,
          Editions,   \* to tell two files of the same content apart
          Nothing

VARIABLES
    shown,      \* the file each item shows
    task        \* what each request has still to do

promiseVars == <<shown, task>>

File(e, c) == [edition |-> e, title |-> c, content |-> c]
NoFile == File(Nothing, Nothing)
NoTask == [does |-> "nothing", item |-> Nothing, file |-> NoFile]

Init ==
    /\ shown = [i \in Items |-> NoFile]
    /\ task = [r \in Requests |-> NoTask]

Begin(r, does, i, file) ==
    /\ task[r] = NoTask
    /\ task' = [task EXCEPT ![r] = [does |-> does, item |-> i, file |-> file]]
    /\ UNCHANGED shown

AskUpload(r, i, c) == Begin(r, "upload", i, File(Nothing, c))
AskRemoval(r, i) == shown[i] # NoFile /\ Begin(r, "remove", i, NoFile)
Fetch(r, i) == shown[i] # NoFile /\ Begin(r, "fetch", i, shown[i])

Unseen(e) ==
    /\ \A i \in Items : shown[i].edition # e
    /\ \A r \in Requests : task[r].file.edition # e

Finish(r, file) ==
    /\ shown' = [shown EXCEPT ![task[r].item] = file]
    /\ task' = [task EXCEPT ![r] = NoTask]

Upload(r, e) ==
    /\ task[r].does = "upload"
    /\ Unseen(e)
    /\ Finish(r, File(e, task[r].file.content))

Remove(r) == task[r].does = "remove" /\ Finish(r, NoFile)

(* A download is answered, or any request gives up. *)
End(r) ==
    /\ task[r] # NoTask
    /\ task' = [task EXCEPT ![r] = NoTask]
    /\ UNCHANGED shown

(* A file no item shows is destroyed under the downloads that want it.     *)
Destroy(e) ==
    /\ \A i \in Items : shown[i].edition # e
    /\ task' = [r \in Requests |-> IF task[r].file.edition = e
                                   THEN [task[r] EXCEPT !.file.content = Nothing]
                                   ELSE task[r]]
    /\ UNCHANGED shown

Next ==
    \/ \E r \in Requests :
          \/ \E i \in Items : AskRemoval(r, i) \/ Fetch(r, i)
          \/ \E i \in Items, c \in Contents : AskUpload(r, i, c)
          \/ \E e \in Editions : Upload(r, e)
          \/ Remove(r) \/ End(r)
    \/ \E e \in Editions : Destroy(e)

Spec == Init /\ [][Next]_promiseVars
=============================================================================
