--------------------------- MODULE AttendancePage ---------------------------
(***************************************************************************)
(* A teacher's attendance page in a browser (attendance/page.tsx).  Every  *)
(* handler is an async function of the render in which it was called: it   *)
(* keeps the class and the date of that render while requests of several   *)
(* handlers are on their way, and whatever answer comes writes the page.   *)
(***************************************************************************)
EXTENDS Naturals, FiniteSets

CONSTANTS
    Classes,      \* the teacher's classes
    Days,         \* dates that may be picked
    FirstDay,     \* the date the page opens with
    MaxCalls      \* bound: handlers called on one page

ASSUME AttendancePageBounds == FirstDay \in Days /\ MaxCalls \in Nat /\ "" \notin Classes

NoClass == ""     \* the option "Select a class"
NoSheet == <<>>   \* nothing has been loaded

VARIABLES
    page,         \* what is shown: the class and the date, the class and the day
                  \* the rows and the recorded entries are of, an error
    calls,        \* handlers in progress
    begun,        \* handlers called so far
    taken,        \* server: <<class, day>> with recorded attendance
    alone         \* history: no handler was called while another was in progress,
                  \* since the last time one was called when none was

pageVars == <<page, calls, begun, taken, alone>>

NotRead == [of |-> NoSheet, some |-> FALSE]

Call == [at |-> "classes", class |-> NoClass, date |-> FirstDay, rows |-> NoSheet,
         recorded |-> NotRead]

\* The mount effect knows the roles, has shown the form and asks for the classes.
AttendancePageInit ==
    /\ page = [options |-> {NoClass}, class |-> NoClass, date |-> FirstDay,
               rows |-> NoSheet, recorded |-> NotRead, error |-> FALSE]
    /\ calls = {Call} /\ begun = 1 /\ alone = TRUE
    /\ taken \in {{}} \cup {{sheet} : sheet \in Classes \X Days}

\* A handler is called; shown is what it sets at once.
Handle(call, shown) ==
    /\ begun < MaxCalls
    /\ begun' = begun + 1 /\ alone' = (calls = {})
    /\ calls' = calls \cup {call} /\ page' = shown
    /\ UNCHANGED taken

Goes(call, to) == calls' = (calls \ {call}) \cup {to}
Ends(call) == calls' = calls \ {call}

\* selectClass sets the class and asks for the class and for its entries.
Loading(call, class) ==
    [call EXCEPT !.at = "load", !.class = class, !.rows = NoSheet, !.recorded = NotRead]

-----------------------------------------------------------------------------
(* What the teacher does.                                                  *)

SelectClass(class) ==
    /\ class \in page.options
    /\ Handle(Loading([Call EXCEPT !.date = page.date], class), [page EXCEPT !.class = class])

SelectDate_NotLoaded(day) ==
    /\ begun < MaxCalls /\ begun' = begun + 1 /\ alone' = (calls = {})
    /\ page' = [page EXCEPT !.date = day] /\ UNCHANGED <<calls, taken>>

SelectDate(day) ==
    IF page.class # NoClass
    THEN Handle(Loading([Call EXCEPT !.date = day], page.class), [page EXCEPT !.date = day])
    ELSE /\ begun < MaxCalls /\ begun' = begun + 1 /\ alone' = (calls = {})
         /\ page' = [page EXCEPT !.date = day] /\ UNCHANGED <<calls, taken>>

\* The button is enabled when there are rows and nothing recorded is shown.
SubmitSheet ==
    /\ page.rows # NoSheet /\ ~page.recorded.some
    /\ Handle([Call EXCEPT !.at = "post", !.class = page.class, !.date = page.date, !.rows = page.rows],
              [page EXCEPT !.error = FALSE])

Correct ==
    /\ page.recorded.some
    /\ Handle([Call EXCEPT !.at = "patch", !.class = page.class, !.date = page.date], page)

-----------------------------------------------------------------------------
(* Requests at the server, in any order, and their answers, in any order.  *)

\* recordDaily refuses pupils of another class and a sheet taken before.
Post(call) ==
    /\ call.at = "post"
    /\ LET sheet == <<call.class, call.date>> IN
       IF call.class # NoClass /\ call.rows[1] = call.class /\ sheet \notin taken
       THEN taken' = taken \cup {sheet} /\ Goes(call, [call EXCEPT !.at = "posted"])
       ELSE UNCHANGED taken /\ Goes(call, [call EXCEPT !.at = "refused"])
    /\ UNCHANGED <<page, begun, alone>>

Patch(call) ==
    /\ call.at = "patch"
    /\ \E to \in {"patched", "refused"} : Goes(call, [call EXCEPT !.at = to])
    /\ UNCHANGED <<page, begun, taken, alone>>

\* The two requests of selectClass.
ReadClass(call) ==
    /\ call.at = "load" /\ call.rows = NoSheet /\ call.class # NoClass
    /\ Goes(call, [call EXCEPT !.rows = <<call.class, call.date>>])
    /\ UNCHANGED <<page, begun, taken, alone>>

ReadEntries(call) ==
    /\ call.at = "load" /\ call.recorded.of = NoSheet /\ call.class # NoClass
    /\ LET sheet == <<call.class, call.date>> IN
       Goes(call, [call EXCEPT !.recorded = [of |-> sheet, some |-> sheet \in taken]])
    /\ UNCHANGED <<page, begun, taken, alone>>

\* The mount effect selects the first class with the date the page opened with.
FirstClass(call, class) ==
    /\ call.at = "classes"
    /\ Goes(call, Loading(call, class))
    /\ page' = [page EXCEPT !.options = @ \cup Classes, !.class = class]
    /\ UNCHANGED <<begun, taken, alone>>

AfterWrite_NotLoaded(call) ==
    /\ call.at \in {"posted", "patched"} /\ Ends(call)
    /\ UNCHANGED <<page, begun, taken, alone>>

AfterWrite(call) ==
    /\ call.at \in {"posted", "patched"}
    /\ page' = [page EXCEPT !.class = call.class]
    /\ Goes(call, Loading(call, call.class))
    /\ UNCHANGED <<begun, taken, alone>>

\* Promise.all: the rows and the recorded entries are set together.
Show_Separately(call) ==
    /\ call.at = "load" /\ call.rows # NoSheet
    /\ page' = [page EXCEPT !.rows = call.rows,
                            !.recorded = IF call.recorded.of # NoSheet THEN call.recorded ELSE @]
    /\ (IF call.recorded.of # NoSheet THEN Ends(call) ELSE UNCHANGED calls)
    /\ UNCHANGED <<begun, taken, alone>>

Show(call) ==
    /\ call.at = "load" /\ call.rows # NoSheet /\ call.recorded.of # NoSheet
    /\ page' = [page EXCEPT !.rows = call.rows, !.recorded = call.recorded]
    /\ Ends(call) /\ UNCHANGED <<begun, taken, alone>>

\* A request is refused, or its answer never comes: a catch block shows an error,
\* and only SubmitSheet takes one away.
Fails_Silently(call) ==
    /\ page' = [page EXCEPT !.error = call.at # "load"]
    /\ Ends(call) /\ UNCHANGED <<begun, taken, alone>>

Fails(call) ==
    /\ page' = [page EXCEPT !.error = TRUE]
    /\ Ends(call) /\ UNCHANGED <<begun, taken, alone>>

AttendancePageNext ==
    \/ \E class \in Classes \cup {NoClass} : SelectClass(class)
    \/ \E day \in Days : SelectDate(day)
    \/ SubmitSheet
    \/ Correct
    \/ \E call \in calls :
          \/ Post(call) \/ Patch(call) \/ ReadClass(call) \/ ReadEntries(call)
          \/ \E class \in Classes : FirstClass(call, class)
          \/ AfterWrite(call) \/ Show(call) \/ Fails(call)

-----------------------------------------------------------------------------
(* The rows, which Save sends and Correct is offered for, and the recorded *)
(* entries, which decide which of the two there is, are always of one      *)
(* class and one day.  When no handler was called while another was in     *)
(* progress, they are in the end those of the class and the day that are   *)
(* shown, with the attendance the school has, or an error is shown         *)
(* (selectClass, submit, correct, the mount effect).                       *)
SheetIsOfChoice ==
    /\ page.rows = page.recorded.of
    /\ alone /\ calls = {} /\ ~page.error =>
          \/ page.class = NoClass /\ page.rows = NoSheet
          \/ /\ page.rows = <<page.class, page.date>>
             /\ page.recorded.some <=> page.rows \in taken
=============================================================================
