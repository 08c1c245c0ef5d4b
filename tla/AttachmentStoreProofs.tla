----------------------- MODULE AttachmentStoreProofs -----------------------
(* Theorems about AttachmentStore, for every value of its constants.       *)
EXTENDS AttachmentStore, TLAPS

LEMMA KeyFacts == /\ MaxKeys \in Nat
                  /\ MaxFaults \in Nat
                  /\ None \notin Keys
                  /\ None \notin Contents
                  /\ \A k \in Keys : k \in Nat /\ k >= 1 /\ k <= MaxKeys
                  /\ \A k \in Nat : k >= 1 /\ k <= MaxKeys => k \in Keys
                  /\ None = 0
  BY BoundsAssumption, ContentsAssumption DEF Keys, None

LEMMA IdleType == Idle \in RequestState
  BY DEF Idle, RequestState, Stages

(* The types without the pairing of row and about, which needs more.       *)
Types ==
    /\ row \in [Items -> Keys \cup {None}]
    /\ about \in [Items -> Contents \cup {None}]
    /\ disk \subseteq Keys
    /\ stored \in [Keys -> Contents \cup {None}]
    /\ drawn \in 0..MaxKeys
    /\ request \in [Requests -> RequestState]
    /\ leaked \subseteq Keys
    /\ faults \in 0..MaxFaults

(* A request that is past its first read works on an item; one that has    *)
(* saved a file knows its key and its content.                             *)
Formed ==
    \A r \in Requests :
        /\ request[r].at # "idle" => request[r].item \in Items
        /\ request[r].at \in {"save", "update"} => request[r].content \in Contents
        /\ request[r].at \in {"update", "undo"} => request[r].new \in Keys

(* A key that was drawn by a request and is not yet in its row is known to *)
(* that request alone.                                                     *)
Private ==
    \A r \in Requests : request[r].at \in {"update", "undo"} =>
        /\ \A i \in Items : row[i] # request[r].new
        /\ \A q \in Requests : request[q].prior # request[r].new
        /\ \A q \in Requests \ {r} : request[q].at \in {"update", "undo"} =>
                                        request[q].new # request[r].new

(* A key a request may still remove can only be in the row it was read     *)
(* from, and is in no row once the request has overwritten that row.       *)
Priors ==
    \A r \in Requests : request[r].prior # None => \A i \in Items :
        /\ row[i] = request[r].prior => i = request[r].item
        /\ request[r].at = "removePrior" => row[i] # request[r].prior

(* Every key anyone knows has been drawn.                                  *)
DrawnOnly ==
    /\ \A i \in Items : row[i] <= drawn
    /\ \A r \in Requests : request[r].prior <= drawn /\ request[r].new <= drawn

(* What is written under a key never changes, and both a row and a request *)
(* describe what is written under the key they hold.                       *)
Described ==
    /\ \A i \in Items : row[i] # None => row[i] \in disk /\ stored[row[i]] = about[i]
    /\ \A r \in Requests :
         /\ request[r].at = "update" =>
              request[r].new \in disk /\ stored[request[r].new] = request[r].content
         /\ request[r].at = "read" =>
              request[r].prior \in Keys /\ stored[request[r].prior] = request[r].content

Distinct == \A i, j \in Items : row[i] = row[j] /\ row[i] # None => i = j

IInv == Types /\ Formed /\ Private /\ Priors /\ DrawnOnly /\ Described /\ Distinct

-----------------------------------------------------------------------------
(* What each request holds has its type, field by field.                   *)
LEMMA RequestFields ==
  ASSUME Types, NEW r \in Requests
  PROVE  /\ request[r].at \in Stages
         /\ request[r].item \in Items \cup {None}
         /\ request[r].prior \in Keys \cup {None}
         /\ request[r].new \in Keys \cup {None}
         /\ request[r].content \in Contents \cup {None}
  BY DEF Types, RequestState

(* A request ends, and at most removes a file no row names and no other    *)
(* request is about to publish; a key may have been drawn in vain.         *)
LEMMA FinishKeeps ==
  ASSUME IInv, NEW r \in Requests, Finish(r),
         UNCHANGED <<row, about, stored>>,
         drawn' \in Nat, drawn <= drawn', drawn' <= MaxKeys,
         disk' \subseteq Keys, leaked' \subseteq Keys, faults' \in 0..MaxFaults,
         \A k \in disk \ disk' :
             /\ \A i \in Items : row[i] # k
             /\ \A q \in Requests \ {r} : request[q].at = "update" => request[q].new # k
  PROVE  IInv'
<1>. USE DEF IInv
<1>1. /\ request' \in [Requests -> RequestState]
      /\ \A q \in Requests : q # r => request'[q] = request[q]
      /\ request'[r] = Idle
  BY IdleType DEF Finish, Types
<1>2. /\ request'[r].at = "idle"
      /\ request'[r].prior = None
      /\ request'[r].new = None
  BY <1>1 DEF Idle
<1>3. Types'
  BY <1>1, KeyFacts DEF Types
<1>4. Formed'
  BY <1>1, <1>2 DEF Formed
<1>5. Private'
  BY <1>1, <1>2, KeyFacts, RequestFields DEF Private, Formed
<1>6. Priors'
  BY <1>1, <1>2 DEF Priors
<1>7. DrawnOnly'
  <2>1. \A i \in Items : row[i] \in Nat
    BY KeyFacts DEF Types
  <2>. QED BY <1>1, <1>2, <2>1, KeyFacts, RequestFields DEF DrawnOnly, Types
<1>8. Described'
  BY <1>1, <1>2 DEF Described
<1>9. Distinct'
  BY DEF Distinct
<1>. QED BY <1>3, <1>4, <1>5, <1>6, <1>7, <1>8, <1>9

(* A request begins: it takes the key its item's row holds.                *)
LEMMA BeginKeeps ==
  ASSUME IInv, NEW r \in Requests, NEW i \in Items, NEW stage \in {"save", "clear", "read"},
         NEW c \in Contents \cup {None},
         stage = "save" => c \in Contents,
         stage = "read" => row[i] # None /\ c = about[i],
         request' = [request EXCEPT ![r] =
            [at |-> stage, item |-> i, prior |-> row[i], new |-> None, content |-> c]],
         UNCHANGED <<row, about, disk, stored, drawn, leaked, faults>>
  PROVE  IInv'
<1>. USE DEF IInv
<1>0. row[i] \in Keys \cup {None}
  BY DEF Types
<1>1. /\ request' \in [Requests -> RequestState]
      /\ \A q \in Requests : q # r => request'[q] = request[q]
  BY <1>0 DEF Types, RequestState, Stages
<1>2. /\ request'[r].at = stage
      /\ request'[r].item = i
      /\ request'[r].prior = row[i]
      /\ request'[r].new = None
      /\ request'[r].content = c
  BY DEF Types
<1>3. Types'
  BY <1>1 DEF Types
<1>4. Formed'
  BY <1>1, <1>2 DEF Formed
<1>5. Private'
  BY <1>1, <1>2 DEF Private
<1>6. Priors'
  BY <1>1, <1>2 DEF Priors, Distinct
<1>7. DrawnOnly'
  BY <1>1, <1>2, KeyFacts DEF DrawnOnly, Types
<1>8. Described'
  BY <1>0, <1>1, <1>2 DEF Described
<1>9. Distinct'
  BY DEF Distinct
<1>. QED BY <1>3, <1>4, <1>5, <1>6, <1>7, <1>8, <1>9

(* save: the drawn key is new to everyone.                                 *)
LEMMA SaveKeeps == ASSUME IInv, NEW r \in Requests, SaveFile(r) PROVE IInv'
<1>. USE DEF IInv
<1>. DEFINE k == drawn + 1
<1>0. /\ k \in Keys /\ k > drawn /\ drawn \in Nat
      /\ request[r].content \in Contents
      /\ request[r].item \in Items
  BY KeyFacts DEF SaveFile, Types, Formed
<1>1. /\ drawn' = k
      /\ disk' = disk \cup {k}
      /\ stored' \in [Keys -> Contents \cup {None}]
      /\ \A j \in Keys \ {k} : stored'[j] = stored[j]
      /\ stored'[k] = request[r].content
      /\ UNCHANGED <<row, about, leaked, faults>>
  BY <1>0 DEF SaveFile, Types
<1>2. /\ request' \in [Requests -> RequestState]
      /\ \A q \in Requests : q # r => request'[q] = request[q]
      /\ request'[r].at = "update"
      /\ request'[r].item = request[r].item
      /\ request'[r].prior = request[r].prior
      /\ request'[r].new = k
      /\ request'[r].content = request[r].content
  BY <1>0 DEF SaveFile, Types, RequestState, Stages
<1>. HIDE DEF k
<1>3. /\ \A i \in Items : row[i] # k
      /\ \A q \in Requests : request[q].prior # k /\ request[q].new # k
  <2>1. \A i \in Items : row[i] \in Nat
    BY KeyFacts DEF Types
  <2>2. \A q \in Requests : request[q].prior \in Nat /\ request[q].new \in Nat
    BY KeyFacts, RequestFields
  <2>. QED BY <1>0, <2>1, <2>2, KeyFacts DEF DrawnOnly
<1>4. Types'
  BY <1>0, <1>1, <1>2, KeyFacts DEF Types
<1>5. Formed'
  BY <1>0, <1>2 DEF Formed
<1>6. Private'
  BY <1>1, <1>2, <1>3 DEF Private
<1>7. Priors'
  BY <1>1, <1>2 DEF Priors
<1>8. DrawnOnly'
  <2>1. \A i \in Items : row[i] \in Nat
    BY KeyFacts DEF Types
  <2>2. \A q \in Requests : request[q].prior \in Nat /\ request[q].new \in Nat
    BY KeyFacts, RequestFields
  <2>3. k \in Nat
    BY <1>0, KeyFacts
  <2>. QED BY <1>0, <1>1, <1>2, <2>1, <2>2, <2>3 DEF DrawnOnly
<1>9. Described'
  <2>1. \A i \in Items : row[i] # None => row'[i] \in disk' /\ stored'[row[i]] = about'[i]
    BY <1>1, <1>3 DEF Described, Types
  <2>2. ASSUME NEW q \in Requests
        PROVE  /\ request'[q].at = "update" =>
                    request'[q].new \in disk' /\ stored'[request'[q].new] = request'[q].content
               /\ request'[q].at = "read" =>
                    request'[q].prior \in Keys /\ stored'[request'[q].prior] = request'[q].content
    <3>1. CASE q = r
      BY <1>1, <1>2, <3>1
    <3>2. CASE q # r
      BY <1>1, <1>2, <1>3, <3>2, RequestFields DEF Described, Formed
    <3>. QED BY <3>1, <3>2
  <2>. QED BY <1>1, <2>1, <2>2 DEF Described
<1>10. Distinct'
  BY <1>1 DEF Distinct
<1>. QED BY <1>4, <1>5, <1>6, <1>7, <1>8, <1>9, <1>10

(* The row is pointed at the saved file, which is private until now.       *)
LEMMA UpdateKeeps == ASSUME IInv, NEW r \in Requests, UpdateRow(r) PROVE IInv'
<1>. USE DEF IInv
<1>. DEFINE k == request[r].new
            i == request[r].item
<1>0. /\ k \in Keys /\ i \in Items /\ k # None
      /\ request[r].content \in Contents
      /\ k \in disk /\ stored[k] = request[r].content
      /\ request[r].at = "update"
  BY KeyFacts DEF UpdateRow, Formed, Described
<1>1. /\ row' \in [Items -> Keys \cup {None}]
      /\ row'[i] = k
      /\ \A j \in Items \ {i} : row'[j] = row[j]
      /\ about' \in [Items -> Contents \cup {None}]
      /\ about'[i] = request[r].content
      /\ \A j \in Items \ {i} : about'[j] = about[j]
      /\ UNCHANGED <<disk, stored, drawn, faults>>
  BY <1>0 DEF UpdateRow, Types
<1>2. /\ request' \in [Requests -> RequestState]
      /\ \A q \in Requests : q # r => request'[q] = request[q]
      /\ request'[r].at = "removePrior"
      /\ request'[r].item = i
      /\ request'[r].prior = request[r].prior
      /\ request'[r].new = k
  BY DEF UpdateRow, Types, RequestState, Stages
<1>3. /\ \A j \in Items : row[j] # k
      /\ \A q \in Requests : request[q].prior # k
      /\ \A q \in Requests \ {r} : request[q].at \in {"update", "undo"} => request[q].new # k
  BY <1>0 DEF Private
<1>4. leaked' \subseteq Keys
  BY <1>0 DEF UpdateRow, Types
<1>. HIDE DEF k, i
<1>5. Types'
  BY <1>1, <1>2, <1>4 DEF Types
<1>6. Formed'
  BY <1>0, <1>2 DEF Formed
<1>7. Private'
  BY <1>0, <1>1, <1>2, <1>3 DEF Private
<1>8. Priors'
  BY <1>0, <1>1, <1>2, <1>3 DEF Priors, k, i
<1>9. DrawnOnly'
  BY <1>0, <1>1, <1>2 DEF DrawnOnly, k
<1>10. Described'
  BY <1>0, <1>1, <1>2 DEF Described
<1>11. Distinct'
  BY <1>0, <1>1, <1>3 DEF Distinct
<1>. QED BY <1>5, <1>6, <1>7, <1>8, <1>9, <1>10, <1>11

LEMMA ClearKeeps == ASSUME IInv, NEW r \in Requests, ClearRow(r) PROVE IInv'
<1>. USE DEF IInv
<1>. DEFINE i == request[r].item
<1>0. i \in Items /\ request[r].at = "clear"
  BY DEF ClearRow, Formed
<1>1. /\ row' \in [Items -> Keys \cup {None}]
      /\ row'[i] = None
      /\ \A j \in Items \ {i} : row'[j] = row[j]
      /\ about' \in [Items -> Contents \cup {None}]
      /\ about'[i] = None
      /\ \A j \in Items \ {i} : about'[j] = about[j]
      /\ UNCHANGED <<disk, stored, drawn, faults>>
  BY <1>0 DEF ClearRow, Types
<1>2. /\ request' \in [Requests -> RequestState]
      /\ \A q \in Requests : q # r => request'[q] = request[q]
      /\ request'[r].at = "removePrior"
      /\ request'[r].item = i
      /\ request'[r].prior = request[r].prior
      /\ request'[r].new = request[r].new
  BY DEF ClearRow, Types, RequestState, Stages
<1>3. leaked' \subseteq Keys
  BY <1>0 DEF ClearRow, Types
<1>. HIDE DEF i
<1>4. Types'
  BY <1>1, <1>2, <1>3 DEF Types
<1>5. Formed'
  BY <1>0, <1>2 DEF Formed
<1>6. Private'
  BY <1>1, <1>2, KeyFacts DEF Private, Formed
<1>7. Priors'
  BY <1>0, <1>1, <1>2 DEF Priors, i
<1>8. DrawnOnly'
  BY <1>1, <1>2, KeyFacts DEF DrawnOnly, Types
<1>9. Described'
  BY <1>1, <1>2 DEF Described
<1>10. Distinct'
  BY <1>1 DEF Distinct
<1>. QED BY <1>4, <1>5, <1>6, <1>7, <1>8, <1>9, <1>10

LEMMA UpdateFailsKeeps == ASSUME IInv, NEW r \in Requests, UpdateFails(r) PROVE IInv'
<1>. USE DEF IInv
<1>1. /\ request' \in [Requests -> RequestState]
      /\ \A q \in Requests : q # r => request'[q] = request[q]
      /\ request'[r].at = "undo"
      /\ request'[r].item = request[r].item
      /\ request'[r].prior = request[r].prior
      /\ request'[r].new = request[r].new
      /\ request[r].at = "update"
      /\ UNCHANGED <<row, about, disk, stored, drawn, leaked>>
  BY DEF UpdateFails, Types, RequestState, Stages
<1>2. Types'
  BY <1>1, KeyFacts DEF Types, UpdateFails, Fault
<1>3. Formed'
  BY <1>1 DEF Formed
<1>4. Private'
  BY <1>1 DEF Private
<1>5. Priors' /\ DrawnOnly' /\ Described' /\ Distinct'
  BY <1>1 DEF Priors, DrawnOnly, Described, Distinct
<1>. QED BY <1>2, <1>3, <1>4, <1>5

LEMMA Inductive == IInv /\ [Next]_vars => IInv'
<1>. SUFFICES ASSUME IInv, [Next]_vars PROVE IInv'
  OBVIOUS
<1>1. ASSUME NEW r \in Requests, NEW i \in Items, NEW c \in Contents, BeginUpload(r, i, c)
      PROVE  IInv'
  BY <1>1, BeginKeeps DEF BeginUpload
<1>2. ASSUME NEW r \in Requests, NEW i \in Items, BeginRemoval(r, i) PROVE IInv'
  BY <1>2, BeginKeeps DEF BeginRemoval
<1>3. ASSUME NEW r \in Requests, NEW i \in Items, BeginDownload(r, i) PROVE IInv'
  <2>1. about[i] \in Contents \cup {None}
    BY DEF IInv, Types
  <2>. QED BY <1>3, <2>1, BeginKeeps DEF BeginDownload
<1>4. ASSUME NEW r \in Requests, SaveFails(r) PROVE IInv'
  <2>1. drawn + 1 \in Keys /\ drawn \in Nat
    BY <1>4, KeyFacts DEF SaveFails, IInv, Types
  <2>. QED BY <1>4, <2>1, FinishKeeps, KeyFacts DEF SaveFails, Fault, IInv, Types
<1>5. ASSUME NEW r \in Requests, UndoSave(r) PROVE IInv'
  <2>1. /\ \A i \in Items : row[i] # request[r].new
        /\ \A q \in Requests \ {r} : request[q].at = "update" => request[q].new # request[r].new
    BY <1>5 DEF UndoSave, IInv, Private
  <2>. QED BY <1>5, <2>1, FinishKeeps, KeyFacts DEF UndoSave, IInv, Types
<1>6. ASSUME NEW r \in Requests, RemovePrior(r) PROVE IInv'
  <2>1. ASSUME request[r].prior \in disk
        PROVE  /\ \A i \in Items : row[i] # request[r].prior
               /\ \A q \in Requests : request[q].at = "update" => request[q].new # request[r].prior
    BY <1>6, <2>1, KeyFacts DEF RemovePrior, IInv, Private, Priors, Types
  <2>. QED BY <1>6, <2>1, FinishKeeps, KeyFacts DEF RemovePrior, IInv, Types
<1>7. ASSUME NEW r \in Requests, EndDownload(r) PROVE IInv'
  BY <1>7, FinishKeeps, KeyFacts DEF EndDownload, IInv, Types
<1>8. ASSUME NEW r \in Requests, Die(r) PROVE IInv'
  <2>1. leaked' \subseteq Keys
    BY <1>8, RequestFields, KeyFacts DEF Die, IInv, Types, Formed
  <2>. QED BY <1>8, <2>1, FinishKeeps, KeyFacts DEF Die, Fault, IInv, Types
<1>9. CASE UNCHANGED vars
  BY <1>9 DEF vars, IInv, Types, Formed, Private, Priors, DrawnOnly, Described, Distinct
<1>. QED
  BY <1>1, <1>2, <1>3, <1>4, <1>5, <1>6, <1>7, <1>8, <1>9,
     SaveKeeps, UpdateKeeps, ClearKeeps, UpdateFailsKeeps DEF Next

LEMMA Starts == Init => IInv
<1>. SUFFICES ASSUME Init PROVE IInv
  OBVIOUS
<1>1. /\ \A r \in Requests : request[r] = Idle
      /\ \A i \in Items : row[i] = None
  BY DEF Init
<1>2. Types
  BY IdleType, KeyFacts DEF Init, Types
<1>. QED
  BY <1>1, <1>2, KeyFacts
     DEF Init, IInv, Formed, Private, Priors, DrawnOnly, Described, Distinct, Idle

LEMMA Invariant == Spec => []IInv
  BY Starts, Inductive, PTL DEF Spec

(* A row never names a missing file or one with other contents, however    *)
(* uploads, removals and downloads overlap, fail or die.                   *)
THEOREM NoDanglingHolds == Spec => []NoDangling
<1>1. IInv => NoDangling
  BY DEF IInv, Described, NoDangling
<1>. QED BY <1>1, Invariant, PTL

(* A download never serves contents other than those it announces.         *)
THEOREM DownloadIsWholeHolds == Spec => []DownloadIsWhole
<1>1. IInv => DownloadIsWhole
  BY DEF IInv, Described, DownloadIsWhole
<1>. QED BY <1>1, Invariant, PTL

(* Types, and a row has a key exactly when it has a name, type and size.   *)
THEOREM TypeCorrect == Spec => []TypeOK
<1>1. IInv => Types
  BY DEF IInv
<1>2. Init => \A i \in Items : row[i] = None <=> about[i] = None
  BY DEF Init
<1>3. /\ IInv
      /\ \A i \in Items : row[i] = None <=> about[i] = None
      /\ [Next]_vars
      => (\A i \in Items : row[i] = None <=> about[i] = None)'
  <2>. SUFFICES ASSUME IInv, \A i \in Items : row[i] = None <=> about[i] = None, [Next]_vars
                PROVE  (\A i \in Items : row[i] = None <=> about[i] = None)'
    OBVIOUS
  <2>1. CASE UNCHANGED <<row, about>>
    BY <2>1
  <2>2. ASSUME NEW r \in Requests, UpdateRow(r)
        PROVE  (\A i \in Items : row[i] = None <=> about[i] = None)'
    BY <2>2, KeyFacts DEF UpdateRow, IInv, Types, Formed
  <2>3. ASSUME NEW r \in Requests, ClearRow(r)
        PROVE  (\A i \in Items : row[i] = None <=> about[i] = None)'
    BY <2>3, KeyFacts DEF ClearRow, IInv, Types, Formed
  <2>. QED
    BY <2>1, <2>2, <2>3
       DEF Next, vars, BeginUpload, BeginRemoval, BeginDownload, SaveFile, SaveFails,
           UpdateFails, UndoSave, RemovePrior, EndDownload, Die
<1>4. Types /\ (\A i \in Items : row[i] = None <=> about[i] = None) => TypeOK
  BY DEF Types, TypeOK
<1>. QED BY <1>1, <1>2, <1>3, <1>4, Invariant, PTL DEF Spec

-----------------------------------------------------------------------------
(* Files are accounted for.  Being held is not enough to carry on with: a  *)
(* download holds a key and does nothing about it.  A file no row names    *)
(* and nobody leaked is one a request has yet to publish or to remove.     *)
Tends(r, k) ==
    \/ request[r].at \in {"update", "undo"} /\ request[r].new = k
    \/ request[r].at = "removePrior" /\ request[r].prior = k

Tended == \A k \in disk : k \in leaked \/ (\E i \in Items : row[i] = k) \/ \E r \in Requests : Tends(r, k)

(* What a request does about its own key must not lose it.                 *)
LEMMA TendedStep ==
  ASSUME Types, Tended, NEW r \in Requests, NEW q, request' = [request EXCEPT ![r] = q],
         leaked \subseteq leaked', disk' \subseteq disk \cup {drawn + 1},
         \A k \in disk' : \/ k \in leaked' \/ (\E i \in Items : row'[i] = k) \/ Tends(r, k)'
                         \/ /\ k \in disk /\ ~Tends(r, k)
                            /\ \A i \in Items : row[i] = k => row'[i] = k
  PROVE  Tended'
<1>1. \A x \in Requests \ {r} : request'[x] = request[x]
  BY DEF Types
<1>2. ASSUME NEW k \in disk'
      PROVE  k \in leaked' \/ (\E i \in Items : row'[i] = k) \/ \E x \in Requests : Tends(x, k)'
  <2>1. CASE \/ k \in leaked' \/ (\E i \in Items : row'[i] = k) \/ Tends(r, k)'
    BY <2>1
  <2>2. CASE /\ k \in disk /\ ~Tends(r, k)
             /\ \A i \in Items : row[i] = k => row'[i] = k
    <3>1. CASE \E x \in Requests \ {r} : Tends(x, k)
      BY <1>1, <3>1 DEF Tends
    <3>2. CASE k \in leaked \/ \E i \in Items : row[i] = k
      BY <2>2, <3>2
    <3>. QED BY <2>2, <3>1, <3>2 DEF Tended
  <2>. QED BY <2>1, <2>2
<1>. QED BY <1>2 DEF Tended

LEMMA TendedInductive == IInv /\ Tended /\ [Next]_vars => Tended'
<1>. SUFFICES ASSUME IInv, Tended, [Next]_vars PROVE Tended'
  OBVIOUS
<1>. USE DEF IInv
<1>1. ASSUME NEW r \in Requests,
             \/ \E i \in Items, c \in Contents : BeginUpload(r, i, c)
             \/ \E i \in Items : BeginRemoval(r, i) \/ BeginDownload(r, i)
             \/ EndDownload(r)
      PROVE  Tended'
  <2>1. PICK q : request' = [request EXCEPT ![r] = q]
    BY <1>1 DEF BeginUpload, BeginRemoval, BeginDownload, EndDownload, Finish
  <2>2. request[r].at \in {"idle", "read"} /\ UNCHANGED <<row, disk, leaked, drawn>>
    BY <1>1 DEF BeginUpload, BeginRemoval, BeginDownload, EndDownload
  <2>3. \A k : ~Tends(r, k)
    BY <2>2 DEF Tends
  <2>. QED BY <2>1, <2>2, <2>3, TendedStep
<1>2. ASSUME NEW r \in Requests, SaveFile(r) PROVE Tended'
  <2> DEFINE q == [request[r] EXCEPT !.at = "update", !.new = drawn']
  <2>1. /\ request' = [request EXCEPT ![r] = q]
        /\ request[r].at = "save" /\ drawn' = drawn + 1 /\ disk' = disk \cup {drawn'}
        /\ UNCHANGED <<row, leaked>>
    BY <1>2 DEF SaveFile
  <2>2. \A k : k = drawn' => Tends(r, k)'
    BY <2>1 DEF Types, RequestState, Tends
  <2>3. \A k : ~Tends(r, k)
    BY <2>1 DEF Tends
  <2> HIDE DEF q
  <2>. QED BY <2>1, <2>2, <2>3, TendedStep
<1>3. ASSUME NEW r \in Requests, SaveFails(r) PROVE Tended'
  <2>1. /\ request' = [request EXCEPT ![r] = Idle]
        /\ request[r].at = "save" /\ disk' \subseteq disk \cup {drawn + 1}
        /\ leaked' = leaked \cup {drawn + 1} /\ UNCHANGED row
    BY <1>3 DEF SaveFails, Finish
  <2>2. \A k : ~Tends(r, k)
    BY <2>1 DEF Tends
  <2>. QED BY <2>1, <2>2, TendedStep
<1>4. ASSUME NEW r \in Requests, UpdateRow(r) \/ ClearRow(r) PROVE Tended'
  <2> DEFINE q == [request[r] EXCEPT !.at = "removePrior"]
             i == request[r].item
  <2>1. /\ request' = [request EXCEPT ![r] = q] /\ disk' = disk
        /\ request[r].at \in {"update", "clear"}
        /\ row' = [row EXCEPT ![i] = IF request[r].at = "update" THEN request[r].new ELSE None]
        /\ leaked' = IF row[i] \in {request[r].prior, None} THEN leaked ELSE leaked \cup {row[i]}
    BY <1>4 DEF UpdateRow, ClearRow
  <2>2. i \in Items /\ None \notin disk
    BY <2>1, KeyFacts DEF Formed, Types
  <2>3. \A k : k = request[r].prior => Tends(r, k)'
    BY <2>1 DEF Types, RequestState, Tends
  <2>4. ASSUME NEW k \in disk
        PROVE  \/ k \in leaked' \/ (\E j \in Items : row'[j] = k) \/ Tends(r, k)'
               \/ ~Tends(r, k) /\ \A j \in Items : row[j] = k => row'[j] = k
    <3>1. CASE Tends(r, k)
      BY <2>1, <2>2, <3>1 DEF Types, Tends
    <3>2. CASE row[i] = k
      BY <2>1, <2>2, <2>3, <3>2
    <3>3. CASE row[i] # k /\ ~Tends(r, k)
      BY <2>1, <2>2, <3>3 DEF Types
    <3>. QED BY <3>1, <3>2, <3>3
  <2> HIDE DEF q, i
  <2>. QED BY <2>1, <2>4, TendedStep
<1>5. ASSUME NEW r \in Requests, UpdateFails(r) PROVE Tended'
  <2> DEFINE q == [request[r] EXCEPT !.at = "undo"]
  <2>1. /\ request' = [request EXCEPT ![r] = q] /\ UNCHANGED <<row, disk, leaked>>
        /\ request[r].at = "update"
    BY <1>5 DEF UpdateFails
  <2>2. \A k : Tends(r, k) => Tends(r, k)'
    BY <2>1 DEF Types, RequestState, Tends
  <2> HIDE DEF q
  <2>. QED BY <2>1, <2>2, TendedStep
<1>6. ASSUME NEW r \in Requests, UndoSave(r) \/ RemovePrior(r) PROVE Tended'
  <2>1. /\ request' = [request EXCEPT ![r] = Idle] /\ UNCHANGED <<row, leaked>>
        /\ disk' \subseteq disk /\ \A k \in disk' : ~Tends(r, k)
    BY <1>6 DEF UndoSave, RemovePrior, Finish, Tends
  <2>. QED BY <2>1, TendedStep
<1>7. ASSUME NEW r \in Requests, Die(r) PROVE Tended'
  <2>1. /\ request' = [request EXCEPT ![r] = Idle] /\ UNCHANGED <<row, disk>>
        /\ leaked \subseteq leaked' /\ \A k \in disk : Tends(r, k) => k \in leaked'
    BY <1>7, KeyFacts DEF Die, Finish, Tends, Types
  <2>. QED BY <2>1, TendedStep
<1>8. CASE UNCHANGED vars
  BY <1>8 DEF vars, Tended, Tends
<1>. QED BY <1>1, <1>2, <1>3, <1>4, <1>5, <1>6, <1>7, <1>8 DEF Next

LEMMA TendedStarts == Init => Tended
  BY DEF Init, Tended

LEMMA FilesMeans == IInv /\ Tended => NoDangling /\ DownloadIsWhole /\ FilesAccountedFor
<1>1. IInv => NoDangling /\ DownloadIsWhole
  BY DEF IInv, Described, NoDangling, DownloadIsWhole
<1>2. IInv /\ Tended => FilesAccountedFor
  BY KeyFacts DEF IInv, Types, Tended, Tends, FilesAccountedFor, Referenced, Held
<1>. QED BY <1>1, <1>2

(* Every file on the disk is named by a row, in the hands of a request, or *)
(* was leaked by a fault or by a row overwritten after it was read.        *)
THEOREM FilesAccountedForHolds == Spec => []FilesAccountedFor
<1>. QED BY Invariant, TendedStarts, TendedInductive, FilesMeans, PTL DEF Spec

-----------------------------------------------------------------------------
(* The promise.  A row and its description are cleared together, and then  *)
(* what an item shows is what its row says, whatever the disk does.        *)
Paired == \A i \in Items : row[i] = None <=> about[i] = None

LEMMA PairedAlways == Spec => []Paired
<1>1. TypeOK => Paired
  BY DEF TypeOK, Paired
<1>. QED BY <1>1, TypeCorrect, PTL

Whole(k, c) == [edition |-> k, title |-> c, content |-> c]

LEMMA VisibleIs ==
  ASSUME IInv, Paired
  PROVE  Visible = [i \in Items |-> Whole(row[i], about[i])]
<1>1. ASSUME NEW i \in Items PROVE FileUnder(row[i], about[i]) = Whole(row[i], about[i])
  <2>1. CASE row[i] = None
    BY <2>1, KeyFacts DEF IInv, Types, Paired, FileUnder, Whole
  <2>2. CASE row[i] # None
    BY <2>2 DEF IInv, Described, FileUnder, Whole
  <2>. QED BY <2>1, <2>2
<1>. QED BY <1>1 DEF Visible

LEMMA VisibleNext ==
  ASSUME IInv', Paired'
  PROVE  Visible' = [i \in Items |-> Whole(row'[i], about'[i])]
<1>1. ASSUME NEW i \in Items PROVE FileUnder(row[i], about[i])' = Whole(row'[i], about'[i])
  <2>1. CASE row'[i] = None
    BY <2>1, KeyFacts DEF IInv, Types, Paired, FileUnder, Whole
  <2>2. CASE row'[i] # None
    BY <2>2 DEF IInv, Described, FileUnder, Whole
  <2>. QED BY <2>1, <2>2
<1>. QED BY <1>1 DEF Visible

LEMMA VisibleSame ==
  ASSUME IInv, Paired, IInv', Paired', UNCHANGED <<row, about>>
  PROVE  UNCHANGED Visible
<1>1. [i \in Items |-> Whole(row'[i], about'[i])] = [i \in Items |-> Whole(row[i], about[i])]
  OBVIOUS
<1>. QED BY <1>1, VisibleIs, VisibleNext

(* What a request may still do, stage by stage, before and after a step.   *)
Upload(q) == [does |-> "upload", item |-> q.item, file |-> Whole(None, q.content)]
Removal(q) == [does |-> "remove", item |-> q.item, file |-> Whole(None, None)]

LEMMA TaskIs ==
  ASSUME NEW r \in Requests
  PROVE  /\ request[r].at \in {"idle", "undo", "removePrior"} => Tasks[r] = Promise!NoTask
         /\ request[r].at \in {"save", "update"} => Tasks[r] = Upload(request[r])
         /\ request[r].at = "clear" => Tasks[r] = Removal(request[r])
         /\ request[r].at = "read" =>
               Tasks[r] = [does |-> "fetch", item |-> request[r].item,
                           file |-> FileUnder(request[r].prior, request[r].content)]
  BY DEF Tasks, Pending, Upload, Removal, Whole, Promise!NoTask, Promise!NoFile, Promise!File

LEMMA TaskNext ==
  ASSUME NEW r \in Requests
  PROVE  /\ request'[r].at \in {"idle", "undo", "removePrior"} => Tasks'[r] = Promise!NoTask
         /\ request'[r].at \in {"save", "update"} => Tasks'[r] = Upload(request'[r])
         /\ request'[r].at = "clear" => Tasks'[r] = Removal(request'[r])
         /\ request'[r].at = "read" =>
               Tasks'[r] = [does |-> "fetch", item |-> request'[r].item,
                            file |-> FileUnder(request[r].prior, request[r].content)']
  BY DEF Tasks, Pending, Upload, Removal, Whole, Promise!NoTask, Promise!NoFile, Promise!File

(* Only a download has an edition to lose.                                 *)
LEMMA EditionOf ==
  ASSUME Types, NEW r \in Requests
  PROVE  Tasks[r].file.edition = IF request[r].at = "read" THEN request[r].prior ELSE None
<1>1. CASE request[r].at = "read"
  <2>1. Tasks[r] = [does |-> "fetch", item |-> request[r].item,
                    file |-> FileUnder(request[r].prior, request[r].content)]
    BY <1>1, TaskIs
  <2>. QED BY <1>1, <2>1 DEF FileUnder
<1>2. CASE request[r].at \in {"save", "update"}
  <2>1. Tasks[r] = Upload(request[r])
    BY <1>2, TaskIs
  <2>. QED BY <1>2, <2>1 DEF Upload, Whole
<1>3. CASE request[r].at = "clear"
  <2>1. Tasks[r] = Removal(request[r])
    BY <1>3, TaskIs
  <2>. QED BY <1>3, <2>1 DEF Removal, Whole
<1>4. CASE request[r].at \in {"idle", "undo", "removePrior"}
  <2>1. Tasks[r] = Promise!NoTask
    BY <1>4, TaskIs
  <2>. QED BY <1>4, <2>1 DEF Promise!NoTask, Promise!NoFile, Promise!File
<1>. QED BY <1>1, <1>2, <1>3, <1>4, RequestFields DEF Stages

(* The tasks of the others stay while the files their downloads want do.   *)
LEMMA OthersTasks ==
  ASSUME NEW r \in Requests, \A q \in Requests \ {r} : request'[q] = request[q],
         \A q \in Requests \ {r} : request[q].at = "read" =>
             /\ request[q].prior \in disk <=> request[q].prior \in disk'
             /\ request[q].prior \in disk => stored'[request[q].prior] = stored[request[q].prior]
  PROVE  Tasks' = [Tasks EXCEPT ![r] = Tasks'[r]]
<1>1. ASSUME NEW q \in Requests \ {r} PROVE Tasks'[q] = Tasks[q]
  <2>1. CASE request[q].at = "read"
    <3>1. FileUnder(request[q].prior, request[q].content)'
            = FileUnder(request[q].prior, request[q].content)
      BY <2>1 DEF FileUnder
    <3>2. Tasks[q] = [does |-> "fetch", item |-> request[q].item,
                      file |-> FileUnder(request[q].prior, request[q].content)]
      BY <2>1, TaskIs
    <3>3. Tasks'[q] = [does |-> "fetch", item |-> request[q].item,
                       file |-> FileUnder(request[q].prior, request[q].content)']
      BY <2>1, TaskNext
    <3>. QED BY <3>1, <3>2, <3>3
  <2>2. CASE request[q].at # "read"
    BY <2>2 DEF Tasks, Pending
  <2>. QED BY <2>1, <2>2
<1>. QED BY <1>1 DEF Tasks

(* A step of request r that leaves the rows alone, and the files that      *)
(* others download: its task ends or goes on.                              *)
LEMMA QuietStep ==
  ASSUME IInv, Paired, IInv', Paired', NEW r \in Requests,
         UNCHANGED <<row, about>>,
         \A q \in Requests \ {r} : request'[q] = request[q],
         \A q \in Requests \ {r} : request[q].at = "read" =>
             /\ request[q].prior \in disk <=> request[q].prior \in disk'
             /\ request[q].prior \in disk => stored'[request[q].prior] = stored[request[q].prior],
         \/ Tasks'[r] = Tasks[r]
         \/ Tasks[r] # Promise!NoTask /\ Tasks'[r] = Promise!NoTask
  PROVE  [Promise!Next]_(Promise!promiseVars)
<1>1. UNCHANGED Visible
  BY VisibleSame
<1>2. Tasks' = [Tasks EXCEPT ![r] = Tasks'[r]]
  BY OthersTasks
<1>3. CASE Tasks'[r] = Tasks[r]
  <2>1. Tasks' = Tasks
    BY <1>2, <1>3 DEF Tasks
  <2>. QED BY <1>1, <2>1 DEF Promise!promiseVars
<1>4. CASE Tasks[r] # Promise!NoTask /\ Tasks'[r] = Promise!NoTask
  BY <1>1, <1>2, <1>4 DEF Promise!Next, Promise!End
<1>. QED BY <1>3, <1>4

(* A request begins on an idle client's behalf.                            *)
LEMMA BeginsTask ==
  ASSUME IInv, Paired, IInv', Paired', NEW r \in Requests, request[r].at = "idle",
         UNCHANGED <<row, about, disk, stored>>,
         \A q \in Requests \ {r} : request'[q] = request[q],
         \/ \E i \in Items, c \in Contents :
               /\ request'[r].at = "save" /\ request'[r].item = i /\ request'[r].content = c
         \/ \E i \in Items :
               /\ row[i] # None /\ request'[r].item = i /\ request'[r].prior = row[i]
               /\ \/ request'[r].at = "clear"
                  \/ request'[r].at = "read" /\ request'[r].content = about[i]
  PROVE  [Promise!Next]_(Promise!promiseVars)
<1>1. /\ Tasks[r] = Promise!NoTask
      /\ UNCHANGED Visible
      /\ Tasks' = [Tasks EXCEPT ![r] = Tasks'[r]]
  BY TaskIs, VisibleSame, OthersTasks
<1>2. ASSUME NEW i \in Items, NEW c \in Contents,
             request'[r].at = "save", request'[r].item = i, request'[r].content = c
      PROVE  Promise!AskUpload(r, i, c)
  <2>1. Tasks'[r] = Upload(request'[r])
    BY <1>2, TaskNext
  <2>2. Tasks'[r] = [does |-> "upload", item |-> i, file |-> Promise!File(None, c)]
    BY <1>2, <2>1 DEF Upload, Whole, Promise!File
  <2>. QED BY <1>1, <2>2 DEF Promise!AskUpload, Promise!Begin
<1>3. ASSUME NEW i \in Items, row[i] # None PROVE Visible[i] # Promise!NoFile
  BY <1>3, VisibleIs DEF Whole, Promise!NoFile, Promise!File
<1>4. ASSUME NEW i \in Items, row[i] # None, request'[r].item = i, request'[r].at = "clear"
      PROVE  Promise!AskRemoval(r, i)
  <2>1. Tasks'[r] = Removal(request'[r])
    BY <1>4, TaskNext
  <2>2. Tasks'[r] = [does |-> "remove", item |-> i, file |-> Promise!NoFile]
    BY <1>4, <2>1 DEF Removal, Whole, Promise!NoFile, Promise!File
  <2>. QED BY <1>1, <1>3, <1>4, <2>2 DEF Promise!AskRemoval, Promise!Begin
<1>5. ASSUME NEW i \in Items, row[i] # None, request'[r].item = i, request'[r].at = "read",
             request'[r].prior = row[i], request'[r].content = about[i]
      PROVE  Promise!Fetch(r, i)
  <2>1. FileUnder(request[r].prior, request[r].content)' = FileUnder(row[i], about[i])
    BY <1>5 DEF FileUnder
  <2>2. Tasks'[r] = [does |-> "fetch", item |-> i, file |-> Visible[i]]
    BY <1>5, <2>1, TaskNext DEF Visible
  <2>. QED BY <1>1, <1>3, <1>5, <2>2 DEF Promise!Fetch, Promise!Begin
<1>6. \/ \E i \in Items, c \in Contents : Promise!AskUpload(r, i, c)
      \/ \E i \in Items : Promise!AskRemoval(r, i) \/ Promise!Fetch(r, i)
  BY <1>2, <1>4, <1>5
<1>. QED BY <1>6 DEF Promise!Next

(* The rows change: the task of the request takes effect.                  *)
LEMMA UploadsFile ==
  ASSUME IInv, Paired, IInv', Paired', NEW r \in Requests, UpdateRow(r)
  PROVE  [Promise!Next]_(Promise!promiseVars)
<1>. DEFINE e == request[r].new
            i == request[r].item
            c == request[r].content
<1>1. /\ e \in Keys /\ i \in Items /\ request[r].at = "update" /\ request'[r].at = "removePrior"
      /\ \A q \in Requests \ {r} : request'[q] = request[q]
      /\ row' = [row EXCEPT ![i] = e] /\ about' = [about EXCEPT ![i] = c]
      /\ UNCHANGED <<disk, stored>>
  BY DEF UpdateRow, IInv, Formed, Types
<1>2. /\ Tasks[r] = Upload(request[r])
      /\ Tasks' = [Tasks EXCEPT ![r] = Promise!NoTask]
  BY <1>1, TaskIs, TaskNext, OthersTasks
<1>3. /\ Tasks[r].does = "upload" /\ Tasks[r].item = i /\ Tasks[r].file.content = c
  BY <1>2 DEF Upload, Whole
<1>4. Visible' = [Visible EXCEPT ![i] = Promise!File(e, c)]
  <2>1. Visible' = [j \in Items |-> Whole(row'[j], about'[j])]
    BY VisibleNext
  <2>2. Visible = [j \in Items |-> Whole(row[j], about[j])]
    BY VisibleIs
  <2>3. ASSUME NEW j \in Items
        PROVE  Whole(row'[j], about'[j])
                 = IF j = i THEN Whole(e, c) ELSE Whole(row[j], about[j])
    BY <1>1 DEF IInv, Types
  <2>4. Whole(e, c) = Promise!File(e, c)
    BY DEF Whole, Promise!File
  <2>. HIDE DEF e, i, c
  <2>. QED BY <1>1, <2>1, <2>2, <2>3, <2>4
<1>5. Promise!Unseen(e)
  <2>1. \A j \in Items : Visible[j].edition # e
    BY <1>1, VisibleIs DEF IInv, Private, Whole
  <2>2. \A q \in Requests : Tasks[q].file.edition # e
    BY <1>1, EditionOf, KeyFacts DEF IInv, Private
  <2>. QED BY <2>1, <2>2 DEF Promise!Unseen
<1>. HIDE DEF e, i, c
<1>6. Promise!Upload(r, e)
  BY <1>2, <1>3, <1>4, <1>5 DEF Promise!Upload, Promise!Finish
<1>. QED BY <1>1, <1>6 DEF Promise!Next

LEMMA RemovesFile ==
  ASSUME IInv, Paired, IInv', Paired', NEW r \in Requests, ClearRow(r)
  PROVE  [Promise!Next]_(Promise!promiseVars)
<1>. DEFINE i == request[r].item
<1>1. /\ i \in Items /\ request[r].at = "clear" /\ request'[r].at = "removePrior"
      /\ \A q \in Requests \ {r} : request'[q] = request[q]
      /\ row' = [row EXCEPT ![i] = None] /\ about' = [about EXCEPT ![i] = None]
      /\ UNCHANGED <<disk, stored>>
  BY DEF ClearRow, IInv, Formed, Types
<1>2. /\ Tasks[r] = Removal(request[r])
      /\ Tasks' = [Tasks EXCEPT ![r] = Promise!NoTask]
  BY <1>1, TaskIs, TaskNext, OthersTasks
<1>3. Tasks[r].does = "remove" /\ Tasks[r].item = i
  BY <1>2 DEF Removal
<1>4. Visible' = [Visible EXCEPT ![i] = Promise!NoFile]
  <2>1. Visible' = [j \in Items |-> Whole(row'[j], about'[j])]
    BY VisibleNext
  <2>2. Visible = [j \in Items |-> Whole(row[j], about[j])]
    BY VisibleIs
  <2>3. ASSUME NEW j \in Items
        PROVE  Whole(row'[j], about'[j])
                 = IF j = i THEN Promise!NoFile ELSE Whole(row[j], about[j])
    BY <1>1 DEF IInv, Types, Whole, Promise!NoFile, Promise!File
  <2>. HIDE DEF i
  <2>. QED BY <1>1, <2>1, <2>2, <2>3
<1>. HIDE DEF i
<1>5. Promise!Remove(r)
  BY <1>2, <1>3, <1>4 DEF Promise!Remove, Promise!Finish
<1>. QED BY <1>5 DEF Promise!Next

(* A prior file no row names is destroyed under those who download it.     *)
LEMMA DestroysFile ==
  ASSUME IInv, Paired, IInv', Paired', NEW r \in Requests, RemovePrior(r)
  PROVE  [Promise!Next]_(Promise!promiseVars)
<1>. DEFINE e == request[r].prior
<1>1. /\ request[r].at = "removePrior" /\ request'[r].at = "idle"
      /\ \A q \in Requests \ {r} : request'[q] = request[q]
      /\ disk' = disk \ {e}
      /\ e \in Keys \cup {None}
      /\ UNCHANGED <<row, about, stored>>
  BY RequestFields DEF RemovePrior, Finish, Idle, IInv, Types
<1>2. Tasks[r] = Promise!NoTask /\ Tasks'[r] = Promise!NoTask
  BY <1>1, TaskIs, TaskNext
<1>3. CASE e \notin disk
  <2>1. disk' = disk
    BY <1>1, <1>3
  <2>. QED BY <1>1, <1>2, <2>1, QuietStep
<1>4. CASE e \in disk
  <2>1. e \in Keys /\ e # None
    BY <1>1, <1>4, KeyFacts DEF IInv, Types
  <2>2. \A i \in Items : Visible[i].edition # e
    BY <1>1, <2>1, VisibleIs DEF IInv, Priors, Whole
  <2>3. UNCHANGED Visible
    BY <1>1, VisibleSame
  <2>4. ASSUME NEW q \in Requests
        PROVE  Tasks'[q] = IF Tasks[q].file.edition = e
                           THEN [Tasks[q] EXCEPT !.file.content = None]
                           ELSE Tasks[q]
    <3>1. CASE q = r
      BY <1>1, <1>2, <2>1, <3>1, EditionOf DEF IInv
    <3>2. CASE q # r /\ request[q].at # "read"
      <4>1. Tasks[q].file.edition = None
        BY <3>2, EditionOf DEF IInv
      <4>2. Tasks'[q] = Tasks[q]
        BY <1>1, <3>2 DEF Tasks, Pending
      <4>. QED BY <2>1, <4>1, <4>2
    <3>3. CASE q # r /\ request[q].at = "read"
      <4>1. Tasks[q] = [does |-> "fetch", item |-> request[q].item,
                        file |-> FileUnder(request[q].prior, request[q].content)]
        BY <3>3, TaskIs
      <4>2. /\ request'[q] = request[q]
            /\ Tasks'[q] = [does |-> "fetch", item |-> request[q].item,
                            file |-> FileUnder(request[q].prior, request[q].content)']
        BY <1>1, <3>3, TaskNext
      <4>3. FileUnder(request[q].prior, request[q].content)'
              = IF request[q].prior = e
                THEN [FileUnder(request[q].prior, request[q].content) EXCEPT !.content = None]
                ELSE FileUnder(request[q].prior, request[q].content)
        BY <1>1, <4>2 DEF FileUnder
      <4>4. Tasks[q].file.edition = request[q].prior
        BY <3>3, EditionOf DEF IInv
      <4>. QED BY <4>1, <4>2, <4>3, <4>4
    <3>. QED BY <3>1, <3>2, <3>3
  <2>5. Promise!Destroy(e)
    BY <2>2, <2>3, <2>4 DEF Promise!Destroy, Tasks
  <2>. QED BY <2>1, <2>5 DEF Promise!Next
<1>. QED BY <1>3, <1>4

LEMMA PromiseSteps ==
  IInv /\ Paired /\ IInv' /\ Paired' /\ [Next]_vars => [Promise!Next]_(Promise!promiseVars)
<1>. SUFFICES ASSUME IInv, Paired, IInv', Paired', [Next]_vars
              PROVE  [Promise!Next]_(Promise!promiseVars)
  OBVIOUS
<1>. USE DEF IInv
<1>1. ASSUME NEW r \in Requests,
             \/ \E i \in Items, c \in Contents : BeginUpload(r, i, c)
             \/ \E i \in Items : BeginRemoval(r, i) \/ BeginDownload(r, i)
      PROVE  [Promise!Next]_(Promise!promiseVars)
  BY <1>1, BeginsTask DEF BeginUpload, BeginRemoval, BeginDownload, Types
<1>2. ASSUME NEW r \in Requests, SaveFile(r) PROVE [Promise!Next]_(Promise!promiseVars)
  <2>1. /\ request[r].at = "save" /\ request'[r].at = "update"
        /\ request'[r].item = request[r].item /\ request'[r].content = request[r].content
        /\ \A q \in Requests \ {r} : request'[q] = request[q]
        /\ disk' = disk \cup {drawn + 1} /\ stored' = [stored EXCEPT ![drawn + 1] = request[r].content]
        /\ UNCHANGED <<row, about>>
    BY <1>2 DEF SaveFile, Types, RequestState
  <2>2. \A q \in Requests : request[q].prior # drawn + 1
    BY RequestFields, KeyFacts DEF DrawnOnly, Types
  <2>3. Tasks'[r] = Tasks[r]
    BY <2>1, TaskIs, TaskNext DEF Upload
  <2>. QED BY <2>1, <2>2, <2>3, QuietStep DEF Types
<1>3. ASSUME NEW r \in Requests, \/ SaveFails(r) \/ UpdateFails(r) \/ UndoSave(r)
                                 \/ EndDownload(r) \/ Die(r)
      PROVE  [Promise!Next]_(Promise!promiseVars)
  <2>1. /\ request'[r].at \in {"undo", "idle"}
        /\ \A q \in Requests \ {r} : request'[q] = request[q]
        /\ UNCHANGED <<row, about, stored>>
    BY <1>3 DEF SaveFails, UpdateFails, UndoSave, EndDownload, Die, Finish, Idle, Types, RequestState
  <2>2. ASSUME NEW q \in Requests \ {r}
        PROVE  request[q].prior \in disk <=> request[q].prior \in disk'
    <3>1. CASE UNCHANGED disk
      BY <3>1
    <3>2. CASE SaveFails(r)
      <4>1. request[q].prior # drawn + 1
        BY RequestFields, KeyFacts DEF DrawnOnly, Types
      <4>. QED BY <3>2, <4>1 DEF SaveFails
    <3>3. CASE UndoSave(r)
      BY <3>3 DEF UndoSave, Private
    <3>. QED BY <1>3, <3>1, <3>2, <3>3 DEF UpdateFails, EndDownload, Die
  <2>3. Tasks'[r] = Promise!NoTask
    BY <2>1, TaskNext
  <2>4. Tasks'[r] = Tasks[r] \/ Tasks[r] # Promise!NoTask
    BY <2>3
  <2>. QED BY <2>1, <2>2, <2>3, <2>4, QuietStep
<1>4. CASE UNCHANGED vars
  <2>1. UNCHANGED <<Visible, Tasks>>
    BY <1>4 DEF vars, Visible, Tasks, Pending, FileUnder
  <2>. QED BY <2>1 DEF Promise!promiseVars
<1>. QED BY <1>1, <1>2, <1>3, <1>4, UploadsFile, RemovesFile, DestroysFile DEF Next

LEMMA PromiseStarts == Init => Promise!Init
<1>. SUFFICES ASSUME Init PROVE Promise!Init
  OBVIOUS
<1>1. Visible = [i \in Items |-> Promise!NoFile]
  BY KeyFacts DEF Init, Visible, FileUnder, Promise!NoFile, Promise!File
<1>2. Tasks = [r \in Requests |-> Promise!NoTask]
  BY DEF Init, Idle, Tasks, Pending, Promise!NoTask, Promise!NoFile, Promise!File
<1>. QED BY <1>1, <1>2 DEF Promise!Init

(* The store of rows and files implements the atomic one: however uploads, *)
(* removals and downloads overlap, fail or die, an item shows one file,    *)
(* title and content together, each upload or removal takes effect in one  *)
(* step or not at all, and no download serves another file than the one it *)
(* began with (replaceFile, attachment).                                   *)
THEOREM SlotsAreWholeHolds == Spec => SlotsAreWhole
<1>1. Init => Promise!Init
  BY PromiseStarts
<1>2. IInv /\ Paired /\ IInv' /\ Paired' /\ [Next]_vars => [Promise!Next]_(Promise!promiseVars)
  BY PromiseSteps
<1>. QED BY <1>1, <1>2, Invariant, PairedAlways, PTL DEF Spec, SlotsAreWhole, Promise!Spec
=============================================================================
