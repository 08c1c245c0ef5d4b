-------------------------- MODULE AttachmentStore --------------------------
(***************************************************************************)
(* The attachment slot of an assignment or a submission: a database row    *)
(* that names a storage key, and the private file under that key           *)
(* (assignments.service.ts and assignment-file-store.ts).                  *)
(*                                                                         *)
(* The database and the file store share no transaction.  An upload reads  *)
(* the row, saves a new file, points the row at it and only then removes   *)
(* the file it read at the start; a removal clears the row and then        *)
(* removes the file.  Requests interleave between these calls, any call    *)
(* may fail, and the process may die between two of them.                  *)
(*                                                                         *)
(* Assumed: a database statement or a file call that fails changed         *)
(* nothing, except that a failed save may leave the file behind.           *)
(***************************************************************************)
EXTENDS Integers, FiniteSets

CONSTANTS
    Items,      \* rows with an attachment slot
    Requests,   \* HTTP requests that may be in progress together
    Contents,   \* what a client may upload
    MaxKeys,    \* bound: storage keys ever drawn
    MaxFaults   \* bound: failed calls and process deaths

ASSUME BoundsAssumption == MaxKeys \in Nat /\ MaxFaults \in Nat

Keys == 1..MaxKeys
None == 0

ASSUME ContentsAssumption == None \notin Contents

VARIABLES
    row,        \* attachmentStorageKey of each item, None for null
    about,      \* attachmentName, -Mime, -Size: which content they describe
    disk,       \* keys with a file
    stored,     \* what was written under each key ever drawn
    drawn,      \* keys 1..drawn have been drawn
    request,    \* what each request holds in its local variables
    leaked,     \* history: keys no request will remove any more
    faults

vars == <<row, about, disk, stored, drawn, request, leaked, faults>>

Stages == {"idle", "save", "update", "undo", "clear", "removePrior", "read"}
RequestState == [at: Stages, item: Items \cup {None}, prior: Keys \cup {None},
                 new: Keys \cup {None}, content: Contents \cup {None}]
Idle == [at |-> "idle", item |-> None, prior |-> None, new |-> None, content |-> None]

TypeOK ==
    /\ row \in [Items -> Keys \cup {None}]
    /\ about \in [Items -> Contents \cup {None}]
    /\ disk \subseteq Keys
    /\ stored \in [Keys -> Contents \cup {None}]
    /\ drawn \in 0..MaxKeys
    /\ request \in [Requests -> RequestState]
    /\ leaked \subseteq Keys
    /\ faults \in 0..MaxFaults
    /\ \A i \in Items : row[i] = None <=> about[i] = None

Init ==
    /\ row = [i \in Items |-> None]
    /\ about = [i \in Items |-> None]
    /\ disk = {}
    /\ stored = [k \in Keys |-> None]
    /\ drawn = 0
    /\ request = [r \in Requests |-> Idle]
    /\ leaked = {}
    /\ faults = 0

Finish(r) == request' = [request EXCEPT ![r] = Idle]

Fault == faults < MaxFaults /\ faults' = faults + 1

-----------------------------------------------------------------------------
(* Upload: uploadAssignmentAttachment, uploadSubmissionAttachment and the  *)
(* replaceFile they share.                                                 *)

(* Read the row, check the actor, decode the data.  A refusal at any of    *)
(* these ends the request with nothing changed.                            *)
BeginUpload(r, i, c) ==
    /\ request[r].at = "idle"
    /\ request' = [request EXCEPT ![r] =
                     [at |-> "save", item |-> i, prior |-> row[i], new |-> None, content |-> c]]
    /\ UNCHANGED <<row, about, disk, stored, drawn, leaked, faults>>

SaveFile_InPlace(r) ==
    LET q == request[r]
        k == IF q.prior = None THEN drawn + 1 ELSE q.prior IN
    /\ q.at = "save"
    /\ drawn < MaxKeys
    /\ drawn' = IF k > drawn THEN k ELSE drawn
    /\ disk' = disk \cup {k}
    /\ stored' = [stored EXCEPT ![k] = q.content]
    /\ request' = [request EXCEPT ![r].at = "update", ![r].new = k, ![r].prior = None]
    /\ UNCHANGED <<row, about, leaked, faults>>

(* save draws a random key and writes with flag wx: never an existing file.*)
SaveFile(r) ==
    /\ request[r].at = "save"
    /\ drawn < MaxKeys
    /\ drawn' = drawn + 1
    /\ disk' = disk \cup {drawn'}
    /\ stored' = [stored EXCEPT ![drawn'] = request[r].content]
    /\ request' = [request EXCEPT ![r].at = "update", ![r].new = drawn']
    /\ UNCHANGED <<row, about, leaked, faults>>

(* mkdir or writeFile throws; part of the file may stay on the disk.       *)
SaveFails(r) ==
    /\ request[r].at = "save"
    /\ drawn < MaxKeys
    /\ Fault
    /\ drawn' = drawn + 1
    /\ disk' \in {disk, disk \cup {drawn'}}
    /\ leaked' = leaked \cup {drawn'}
    /\ Finish(r)
    /\ UNCHANGED <<row, about, stored>>

UpdateRow_KeyOnly(r) ==
    LET q == request[r] IN
    /\ q.at = "update"
    /\ row' = [row EXCEPT ![q.item] = q.new]
    /\ about' = [about EXCEPT ![q.item] = IF @ = None THEN q.content ELSE @]
    /\ leaked' = IF row[q.item] = q.prior THEN leaked ELSE leaked \cup {row[q.item]}
    /\ request' = [request EXCEPT ![r].at = "removePrior"]
    /\ UNCHANGED <<disk, stored, drawn, faults>>

(* The update by id.  If the row no longer holds the key this request read *)
(* the key it overwrites is known to nobody.                               *)
UpdateRow(r) ==
    LET q == request[r] IN
    /\ q.at = "update"
    /\ row' = [row EXCEPT ![q.item] = q.new]
    /\ about' = [about EXCEPT ![q.item] = q.content]
    /\ leaked' = IF row[q.item] \in {q.prior, None} THEN leaked
                 ELSE leaked \cup {row[q.item]}
    /\ request' = [request EXCEPT ![r].at = "removePrior"]
    /\ UNCHANGED <<disk, stored, drawn, faults>>

UpdateFails(r) ==
    /\ request[r].at = "update"
    /\ Fault
    /\ request' = [request EXCEPT ![r].at = "undo"]
    /\ UNCHANGED <<row, about, disk, stored, drawn, leaked>>

(* The catch block of replaceFile removes the new file and rethrows.       *)
UndoSave(r) ==
    /\ request[r].at = "undo"
    /\ disk' = disk \ {request[r].new}
    /\ Finish(r)
    /\ UNCHANGED <<row, about, stored, drawn, leaked, faults>>

RemovePrior_Forgotten(r) ==
    /\ request[r].at = "removePrior"
    /\ Finish(r)
    /\ UNCHANGED <<row, about, disk, stored, drawn, leaked, faults>>

RemovePrior_Current(r) ==
    /\ request[r].at = "removePrior"
    /\ disk' = disk \ {row[request[r].item]}
    /\ Finish(r)
    /\ UNCHANGED <<row, about, stored, drawn, leaked, faults>>

(* remove(previousKey), or nothing when there was none; rm with force does *)
(* not mind a file that is gone.  It also ends a removal request.          *)
RemovePrior(r) ==
    /\ request[r].at = "removePrior"
    /\ disk' = disk \ {request[r].prior}
    /\ Finish(r)
    /\ UNCHANGED <<row, about, stored, drawn, leaked, faults>>

-----------------------------------------------------------------------------
(* Removal: removeAssignmentAttachment, removeSubmissionAttachment.        *)

BeginRemoval(r, i) ==
    /\ request[r].at = "idle"
    /\ row[i] # None
    /\ request' = [request EXCEPT ![r] =
                     [at |-> "clear", item |-> i, prior |-> row[i], new |-> None, content |-> None]]
    /\ UNCHANGED <<row, about, disk, stored, drawn, leaked, faults>>

ClearRow_KeyOnly(r) ==
    LET q == request[r] IN
    /\ q.at = "clear"
    /\ row' = [row EXCEPT ![q.item] = None]
    /\ request' = [request EXCEPT ![r].at = "removePrior"]
    /\ UNCHANGED <<about, disk, stored, drawn, leaked, faults>>

(* The update that sets the key and its name, type and size to null.       *)
ClearRow(r) ==
    LET q == request[r] IN
    /\ q.at = "clear"
    /\ row' = [row EXCEPT ![q.item] = None]
    /\ about' = [about EXCEPT ![q.item] = None]
    /\ leaked' = IF row[q.item] \in {q.prior, None} THEN leaked
                 ELSE leaked \cup {row[q.item]}
    /\ request' = [request EXCEPT ![r].at = "removePrior"]
    /\ UNCHANGED <<disk, stored, drawn, faults>>

-----------------------------------------------------------------------------
(* Download: attachment.  Name, type, size and key come from one read of   *)
(* the row; the file is read afterwards.                                   *)

BeginDownload(r, i) ==
    /\ request[r].at = "idle"
    /\ row[i] # None
    /\ request' = [request EXCEPT ![r] =
                     [at |-> "read", item |-> i, prior |-> row[i], new |-> None,
                      content |-> about[i]]]
    /\ UNCHANGED <<row, about, disk, stored, drawn, leaked, faults>>

(* Serve the file, or answer 404 if it has been removed meanwhile.         *)
EndDownload(r) ==
    /\ request[r].at = "read"
    /\ Finish(r)
    /\ UNCHANGED <<row, about, disk, stored, drawn, leaked, faults>>

(* The process dies, or a file removal or the clearing update throws: the  *)
(* rest of the request never happens.                                      *)
Die(r) ==
    LET q == request[r] IN
    /\ q.at # "idle"
    /\ Fault
    /\ leaked' = leaked \cup (CASE q.at \in {"update", "undo"} -> {q.new}
                                [] q.at = "removePrior" -> {q.prior} \ {None}
                                [] OTHER -> {})
    /\ Finish(r)
    /\ UNCHANGED <<row, about, disk, stored, drawn>>

Next ==
    \E r \in Requests :
        \/ \E i \in Items, c \in Contents : BeginUpload(r, i, c)
        \/ SaveFile(r) \/ SaveFails(r)
        \/ UpdateRow(r) \/ UpdateFails(r) \/ UndoSave(r) \/ RemovePrior(r)
        \/ \E i \in Items : BeginRemoval(r, i)
        \/ ClearRow(r)
        \/ \E i \in Items : BeginDownload(r, i)
        \/ EndDownload(r)
        \/ Die(r)

Spec == Init /\ [][Next]_vars

-----------------------------------------------------------------------------
(* Properties.                                                             *)

Referenced == {row[i] : i \in Items} \ {None}
Held == {request[r].new : r \in Requests} \cup {request[r].prior : r \in Requests}

(* A row never names a file that is not there, nor one that holds another  *)
(* content than its name, type and size describe, whatever requests        *)
(* overlap, fail or die (replaceFile: save before update, remove after).   *)
NoDangling ==
    \A i \in Items : row[i] # None => row[i] \in disk /\ stored[row[i]] = about[i]

(* A download serves the content its name, type and size describe, or      *)
(* nothing: replacing the file under it never mixes the two (attachment).  *)
DownloadIsWhole ==
    \A r \in Requests : request[r].at = "read" /\ request[r].prior \in disk
        => stored[request[r].prior] = request[r].content

(* Every file on the disk is named by a row, is in the hands of a request  *)
(* that will remove or publish it, or was leaked by a fault or by a row    *)
(* overwritten after it was read (replaceFile).                            *)
FilesAccountedFor ==
    \A k \in disk : k \in Referenced \/ k \in Held \/ k \in leaked

(* "Replacing or deleting an attachment removes the prior private object   *)
(* safely": once no request is in progress and nothing ever failed, every  *)
(* file is one a row names (docs/assignments-submissions.md).              *)
PriorRemoved ==
    (faults = 0 /\ \A r \in Requests : request[r].at = "idle") => disk \subseteq Referenced
-----------------------------------------------------------------------------
(* The promise.                                                            *)

(* What the file under a key would give a client, described by c.          *)
FileUnder(k, c) ==
    [edition |-> k, title |-> c, content |-> IF k \in disk THEN stored[k] ELSE None]

Visible == [i \in Items |-> FileUnder(row[i], about[i])]

(* What a request may still do to an item, or tell a client about it.      *)
Pending(q) ==
    LET task(does, file) == [does |-> does, item |-> q.item, file |-> file] IN
    CASE q.at \in {"save", "update"} ->
            task("upload", [edition |-> None, title |-> q.content, content |-> q.content])
      [] q.at = "clear" -> task("remove", [edition |-> None, title |-> None, content |-> None])
      [] q.at = "read" -> task("fetch", FileUnder(q.prior, q.content))
      [] OTHER -> [does |-> "nothing", item |-> None,
                   file |-> [edition |-> None, title |-> None, content |-> None]]

Tasks == [r \in Requests |-> Pending(request[r])]

Promise == INSTANCE AttachmentPromise WITH
    Editions <- Keys, Nothing <- None, shown <- Visible, task <- Tasks

(* Whatever requests overlap, fail or die, each item shows one whole file, *)
(* changed in single steps by uploads and removals, and a download gets    *)
(* the file it began with or nothing (replaceFile, attachment).            *)
SlotsAreWhole == Promise!Spec
=============================================================================
