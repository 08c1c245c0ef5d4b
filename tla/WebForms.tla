------------------------------ MODULE WebForms ------------------------------
(***************************************************************************)
(* The pages of the web client that list rows of the API and have forms    *)
(* and buttons that change them.  A handler clears messages, sends its     *)
(* requests one after the other, says so and loads the list again; no      *)
(* button is disabled meanwhile, so several handlers are in progress       *)
(* together, and requests and answers overtake each other.                 *)
(***************************************************************************)
EXTENDS Naturals, Sequences

CONSTANT MaxHandlers   \* bound: handlers called on a page, its first load included

ASSUME WebFormsBound == MaxHandlers \in Nat \ {0}

(* What a handler does.  Of the messages shown it takes away those in      *)
(* clears.  It sends one to `requests' requests.  Then it says that it is  *)
(* done, if says; resets the form, where throws means that it asks for     *)
(* event.currentTarget, which is null after an await, so that a TypeError  *)
(* ends it here; and then loads the list, patches the row in the list, or  *)
(* does nothing.  It catches failures of the network or it does not.       *)
Handler == [clears |-> {}, requests |-> 1, says |-> TRUE, throws |-> FALSE,
            then |-> "load", catches |-> TRUE]

Both == {"error", "message"}

\* submit; invite, which throws before it shows the code; setAccountStatus.
StructureHandlers ==
    {[Handler EXCEPT !.clears = Both, !.throws = TRUE],
     [Handler EXCEPT !.clears = {"error"}, !.says = FALSE, !.throws = TRUE, !.then = "nothing"],
     [Handler EXCEPT !.clears = {"error"}]}

AssignmentHandlers_NotLoaded ==
    {[Handler EXCEPT !.clears = Both], [Handler EXCEPT !.clears = Both, !.requests = 2],
     [Handler EXCEPT !.clears = {"error"}], [Handler EXCEPT !.clears = {"error"}, !.requests = 2],
     [Handler EXCEPT !.then = "nothing"]}

\* submit and saveAssignment, each without and with a file; publish,
\* removeAssignmentAttachment and saveFeedback.
AssignmentHandlers ==
    {[Handler EXCEPT !.clears = Both], [Handler EXCEPT !.clears = Both, !.requests = 2],
     [Handler EXCEPT !.clears = {"error"}], [Handler EXCEPT !.clears = {"error"}, !.requests = 2],
     Handler}

\* createAnnouncement, which also publishes; createEvent; action.
CommunicationHandlers ==
    {[Handler EXCEPT !.requests = 2, !.throws = TRUE],
     [Handler EXCEPT !.throws = TRUE],
     [Handler EXCEPT !.says = FALSE, !.then = "patch", !.catches = FALSE]}

\* send, createConversation and action.
MessageHandlers == {[Handler EXCEPT !.says = FALSE, !.catches = FALSE]}

\* create and acknowledge.
ProgressHandlers ==
    {[Handler EXCEPT !.clears = Both, !.catches = FALSE],
     [Handler EXCEPT !.says = FALSE, !.then = "patch", !.catches = FALSE]}

SafetyHandlers == {[Handler EXCEPT !.clears = Both, !.catches = FALSE]}    \* submit
IntakeHandlers == {[Handler EXCEPT !.clears = Both, !.catches = FALSE]}    \* update
CaseHandlers == {[Handler EXCEPT !.catches = FALSE]}                       \* create

\* filter, and saveSchool and toggle.
DashboardHandlers ==
    {[Handler EXCEPT !.clears = {"error"}, !.requests = 0, !.says = FALSE], Handler}

HandlersOf ==
    [structure |-> StructureHandlers, assignments |-> AssignmentHandlers,
     communications |-> CommunicationHandlers, messages |-> MessageHandlers,
     progress |-> ProgressHandlers, safety |-> SafetyHandlers, intake |-> IntakeHandlers,
     cases |-> CaseHandlers, dashboard |-> DashboardHandlers]

\* What becomes of a load that is refused, and of one that gets no answer.
LoadRefused(p) ==
    CASE p \in {"progress", "communications"} -> "empty" [] p = "safety" -> "silent" [] OTHER -> "error"
LoadLost(p) == IF p \in {"safety", "intake", "cases"} THEN "silent" ELSE "error"

VARIABLES
    tab,          \* the page: its name, the list, error and message shown
    handling,     \* handlers called on it, in order
    saved,       \* server: <<handler, request>> committed
    overlap,      \* history: a handler was called while another was in progress
    unseen        \* history: something failed and the page showed nothing

formVars == <<tab, handling, saved, overlap, unseen>>

InProgress(h) == handling[h].at # "done"
Moves(h, where) == handling' = [handling EXCEPT ![h].at = where]
Shows(shown) == tab' = shown /\ UNCHANGED <<saved, overlap>>

Fresh(form) == [form |-> form, sent |-> 0, read |-> {},
                at |-> IF form.requests = 0 THEN "load" ELSE "request"]

WebFormsInit ==
    /\ tab \in [name : DOMAIN HandlersOf, list : {{}}, error : {FALSE}, said : {0}]
    /\ handling = <<Fresh([Handler EXCEPT !.requests = 0])>>   \* the mount effect
    /\ saved = {} /\ overlap = FALSE /\ unseen = FALSE

SubmitForm(form) ==
    /\ Len(handling) < MaxHandlers
    /\ handling' = Append(handling, Fresh(form))
    /\ tab' = [tab EXCEPT !.error = @ /\ "error" \notin form.clears,
                          !.said = IF "message" \in form.clears THEN 0 ELSE @]
    /\ overlap' = (overlap \/ \E h \in DOMAIN handling : InProgress(h))
    /\ UNCHANGED <<saved, unseen>>

(* A request of the handler is committed or refused, and then answered,    *)
(* unless the network fails before or after.                               *)

Serve(h) ==
    /\ handling[h].at = "request"
    /\ \/ /\ saved' = saved \cup {<<h, handling[h].sent + 1>>}
          /\ handling' = [handling EXCEPT ![h].at = "answer", ![h].sent = @ + 1]
       \/ Moves(h, "refused") /\ UNCHANGED saved
    /\ UNCHANGED <<tab, overlap, unseen>>

Answer_SaysFirst(h) ==
    LET form == handling[h].form  last == handling[h].sent = form.requests IN
    /\ handling[h].at = "answer"
    /\ Shows([tab EXCEPT !.said = IF form.says THEN h ELSE @, !.error = @ \/ (last /\ form.throws),
                         !.list = IF last /\ form.then = "patch" THEN @ \cup {<<h, 1>>} ELSE @])
    /\ Moves(h, IF ~last THEN "request" ELSE IF form.throws \/ form.then # "load" THEN "done" ELSE "load")
    /\ UNCHANGED unseen

Answer(h) ==
    LET form == handling[h].form IN
    /\ handling[h].at = "answer"
    /\ IF handling[h].sent < form.requests
       THEN Moves(h, "request") /\ Shows(tab)
       ELSE /\ Shows([tab EXCEPT !.said = IF form.says THEN h ELSE @,
                                 !.error = @ \/ form.throws,
                                 !.list = IF form.then = "patch" THEN @ \cup {<<h, 1>>} ELSE @])
            /\ Moves(h, IF form.throws \/ form.then # "load" THEN "done" ELSE "load")
    /\ UNCHANGED unseen

Refused(h) ==
    /\ handling[h].at = "refused" /\ Moves(h, "done")
    /\ Shows([tab EXCEPT !.error = TRUE]) /\ UNCHANGED unseen

NoAnswer_NeverCaught(h) ==
    /\ handling[h].at \in {"request", "answer", "refused"} /\ Moves(h, "done")
    /\ Shows(tab) /\ UNCHANGED unseen

NoAnswer(h) ==
    LET catches == handling[h].form.catches IN
    /\ handling[h].at \in {"request", "answer", "refused"} /\ Moves(h, "done")
    /\ Shows([tab EXCEPT !.error = @ \/ catches]) /\ unseen' = (unseen \/ ~catches)

(* The list is read at some moment and shown when it arrives, whatever has *)
(* been shown since.                                                       *)

Read(h) ==
    /\ handling[h].at = "load"
    /\ handling' = [handling EXCEPT ![h].at = "loaded", ![h].read = saved]
    /\ UNCHANGED <<tab, saved, overlap, unseen>>

Loaded(h) ==
    /\ handling[h].at = "loaded" /\ Moves(h, "done")
    /\ Shows([tab EXCEPT !.list = handling[h].read]) /\ UNCHANGED unseen

LoadFails(h) ==
    /\ handling[h].at \in {"load", "loaded"} /\ Moves(h, "done")
    /\ \E how \in {LoadRefused(tab.name), LoadLost(tab.name)} :
          /\ Shows([tab EXCEPT !.error = @ \/ how = "error", !.list = IF how = "empty" THEN {} ELSE @])
          /\ unseen' = (unseen \/ how # "error")

WebFormsNext ==
    \/ \E form \in HandlersOf[tab.name] : SubmitForm(form)
    \/ \E h \in DOMAIN handling :
          \/ Serve(h) \/ Answer(h) \/ Refused(h) \/ NoAnswer(h)
          \/ Read(h) \/ Loaded(h) \/ LoadFails(h)

-----------------------------------------------------------------------------
Complete(h) == {h} \X (1..handling[h].form.requests) \subseteq saved

(* "Saved" is said of a submission all of whose requests are committed, in *)
(* whatever order answers come.  Once nothing is in progress an error is   *)
(* shown if the last submission is not complete, and, when no two handlers *)
(* overlapped, if the list is not what the server has, unless a failure    *)
(* passed unseen on a page that does not look for it (every submit and     *)
(* load function of the pages).                                            *)
SaysWhatIsSaved ==
    LET last == Len(handling) IN
    /\ tab.said # 0 => Complete(tab.said)
    /\ (\A h \in DOMAIN handling : ~InProgress(h)) /\ ~unseen /\ ~tab.error =>
          /\ Complete(last)
          /\ overlap \/ tab.list = saved
=============================================================================
