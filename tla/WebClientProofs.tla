--------------------------- MODULE WebClientProofs ---------------------------
(***************************************************************************)
(* The parts of the web client keep what they promise, for any classes,    *)
(* days, assignments, roles and deployed versions, and any number of       *)
(* handlers, saves, sessions, installations and shutdowns.  Each part has  *)
(* an invariant of its own that its steps preserve; they share no state.   *)
(* At the end the announcements join them.                                 *)
(***************************************************************************)
EXTENDS Noticeboard, AnnouncementsProofs, TLAPS

-----------------------------------------------------------------------------
(* The texts of the assignments page.                                      *)
Rows == Works \cup {New}
Editors == [id : Rows, draft : Rows]
TextSteps == {"sent", "stored"}

Saves == [what : {"assignment"}, value : Editors, number : Nat, at : TextSteps]
Submissions == [what : {"response"}, value : Nat, number : Nat, at : TextSteps]

(* Types of what the page and the requests hold.                           *)
TextHolds ==
    /\ editor \in Editors /\ typed \in Nat /\ texts \in Nat
    /\ sending \subseteq Saves \cup Submissions /\ begunSaves \in Nat
    /\ recorded \in Nat /\ newest \in Nat
    /\ crossed \in BOOLEAN /\ blind \in BOOLEAN

(* The editor and every save on its way hold a text begun from the row     *)
(* they name.                                                              *)
Paired ==
    /\ editor.id = editor.draft
    /\ \A s \in sending \cap Saves : s.value.id = s.value.draft

(* What is typed is the newest text or nothing; without overlap there is   *)
(* one submission at a time, and if none was blind it is not older than    *)
(* anything recorded.                                                      *)
InOrder ==
    /\ typed \in {NoText, texts} /\ newest <= texts
    /\ \A s \in sending \cap Submissions :
          /\ s.value <= texts
          /\ ~crossed /\ ~blind => newest <= s.value
    /\ ~crossed => \A s, t \in sending \cap Submissions : s = t

TextInv == TextHolds /\ Paired /\ InOrder /\ TextStaysWithItsRow

LEMMA TextKinds == \A s \in Saves \cup Submissions :
                  /\ s.what = "assignment" <=> s \in Saves
                  /\ s.what = "response" <=> s \in Submissions
  BY DEF Saves, Submissions

(* A request that has been stored is the same but for that.                *)
LEMMA TextStored ==
  ASSUME NEW s \in Saves \cup Submissions, NEW t, t = [s EXCEPT !.at = "stored"]
  PROVE  /\ t.value = s.value
         /\ s \in Saves => t \in Saves
         /\ s \in Submissions => t \in Submissions
  BY DEF Saves, Submissions, TextSteps

LEMMA TextStarts == WorkEditorsInit => TextInv
<1> SUFFICES ASSUME WorkEditorsInit PROVE TextInv
  OBVIOUS
<1> USE DEF WorkEditorsInit
<1>1. editor \in Editors /\ editor.id = editor.draft
  BY DEF Blank, New, Editors, Rows
<1>2. TextHolds
  BY <1>1, Zenon DEF TextHolds, NoText
<1>3. Paired /\ TextStaysWithItsRow
  BY <1>1 DEF Paired, TextStaysWithItsRow
<1>4. InOrder
  BY DEF InOrder, NoText
<1> QED  BY <1>2, <1>3, <1>4 DEF TextInv

LEMMA TextEdits == ASSUME TextInv, NEW w \in Works, Edit(w) PROVE TextInv'
  BY DEF TextInv, TextHolds, Paired, InOrder, TextStaysWithItsRow, Edit, seen, Editors, Rows

LEMMA TextResets == ASSUME TextInv, CancelEdit \/ OpenPage PROVE TextInv'
  BY DEF TextInv, TextHolds, Paired, InOrder, TextStaysWithItsRow, CancelEdit, ResetEditor, OpenPage, seen,
         Blank, New, NoText, Editors, Rows

LEMMA TextTypes == ASSUME TextInv, Type PROVE TextInv'
<1>1. TextHolds'
  BY DEF TextInv, TextHolds, Type, seen
<1>2. Paired' /\ TextStaysWithItsRow'
  BY DEF TextInv, Paired, TextStaysWithItsRow, Type, seen
<1>3. InOrder'
  BY DEF TextInv, TextHolds, InOrder, Type, seen, Submissions
<1> QED  BY <1>1, <1>2, <1>3 DEF TextInv

LEMMA TextSaves == ASSUME TextInv, SaveAssignment PROVE TextInv'
<1> DEFINE new == [what |-> "assignment", value |-> editor, number |-> begunSaves, at |-> "sent"]
<1>1. new \in Saves /\ new \notin Submissions /\ new.value = editor
  BY DEF TextInv, TextHolds, Saves, Submissions, TextSteps
<1>2. sending' = sending \cup {new} /\ begunSaves' = begunSaves + 1
      /\ UNCHANGED <<editor, typed, texts, written, recorded, newest, crossed, blind>>
  BY DEF SaveAssignment, Sends, seen
<1> HIDE DEF new
<1>3. TextHolds'
  BY <1>1, <1>2 DEF TextInv, TextHolds
<1>4. Paired'
  BY <1>1, <1>2 DEF TextInv, Paired
<1>5. InOrder' /\ TextStaysWithItsRow'
  BY <1>1, <1>2 DEF TextInv, InOrder, TextStaysWithItsRow
<1> QED  BY <1>3, <1>4, <1>5 DEF TextInv

LEMMA TextSubmits == ASSUME TextInv, SubmitWork PROVE TextInv'
<1> DEFINE new == [what |-> "response", value |-> typed, number |-> begunSaves, at |-> "sent"]
<1>1. new \in Submissions /\ new \notin Saves /\ new.value = typed
  BY DEF TextInv, TextHolds, Saves, Submissions, TextSteps
<1>2. /\ sending' = sending \cup {new} /\ begunSaves' = begunSaves + 1
      /\ blind' = (blind \/ typed = NoText)
      /\ UNCHANGED <<editor, typed, texts, written, recorded, newest>>
  BY DEF SubmitWork, Sends
<1>3. crossed' = (crossed \/ \E s \in sending : s.what = "response")
  BY DEF SubmitWork
<1> HIDE DEF new
<1>4. crossed' = (crossed \/ sending \cap Submissions # {})
  BY <1>3, TextKinds DEF TextInv, TextHolds
<1>5. TextHolds'
  BY <1>1, <1>2, <1>3 DEF TextInv, TextHolds
<1>6. Paired' /\ TextStaysWithItsRow'
  BY <1>1, <1>2, <1>3 DEF TextInv, Paired, TextStaysWithItsRow
<1>7. InOrder'
  <2>1. typed \in Nat /\ texts \in Nat /\ newest \in Nat /\ typed <= texts /\ newest <= texts
    BY DEF TextInv, TextHolds, InOrder, NoText
  <2>2. ~blind' => typed = texts
    BY <1>2 DEF TextInv, InOrder
  <2>3. ASSUME NEW s \in (sending \cap Submissions)'
        PROVE  s.value <= texts' /\ (~crossed' /\ ~blind' => newest' <= s.value)
    BY <1>1, <1>2, <1>4, <2>1, <2>2 DEF TextInv, InOrder
  <2>4. ~crossed' => \A s, t \in (sending \cap Submissions)' : s = t
    BY <1>1, <1>2, <1>4 DEF InOrder
  <2> QED  BY <1>2, <2>1, <2>3, <2>4 DEF TextInv, InOrder
<1> QED  BY <1>5, <1>6, <1>7 DEF TextInv

LEMMA TextStores == ASSUME TextInv, NEW s \in sending, StoreAssignment(s) PROVE TextInv'
<1> DEFINE t == [s EXCEPT !.at = "stored"]
<1>1. s \in Saves /\ s \notin Submissions
  BY TextKinds DEF TextInv, TextHolds, StoreAssignment, Saves, Submissions
<1>2. t \in Saves /\ t \notin Submissions /\ t.value = s.value
  BY <1>1, TextStored, TextKinds DEF Saves, Submissions
<1>3. /\ sending' = (sending \ {s}) \cup {t}
      /\ written' = written \cup {<<s.value.id, s.value.draft>>}
      /\ UNCHANGED <<editor, typed, texts, begunSaves, recorded, newest, crossed, blind>>
  BY DEF StoreAssignment, Stored, seen
<1> HIDE DEF t
<1>4. TextHolds'
  BY <1>2, <1>3 DEF TextInv, TextHolds
<1>5. Paired'
  BY <1>1, <1>2, <1>3 DEF TextInv, Paired
<1>6. InOrder'
  BY <1>1, <1>2, <1>3 DEF TextInv, InOrder
<1>7. TextStaysWithItsRow'
  <2>1. s.value.id = s.value.draft
    BY <1>1 DEF TextInv, Paired
  <2> QED  BY <1>3, <2>1 DEF TextInv, TextStaysWithItsRow
<1> QED  BY <1>4, <1>5, <1>6, <1>7 DEF TextInv

LEMMA TextEnds == ASSUME TextInv, NEW s \in sending, AssignmentSaved(s) \/ SendEnds(s) PROVE TextInv'
<1>1. /\ sending' = sending \ {s} /\ editor' \in {editor, Blank}
      /\ UNCHANGED <<typed, texts, begunSaves, written, recorded, newest, crossed, blind>>
  BY DEF AssignmentSaved, SendEnds, ResetEditor, seen
<1>2. Blank \in Editors /\ Blank.id = Blank.draft
  BY DEF Blank, Editors, Rows
<1> QED  BY <1>1, <1>2 DEF TextInv, TextHolds, Paired, InOrder, TextStaysWithItsRow

LEMMA TextRecords == ASSUME TextInv, NEW s \in sending, RecordWork(s) PROVE TextInv'
<1> DEFINE t == [s EXCEPT !.at = "stored"]
<1>1. s \in Submissions /\ s \notin Saves /\ s.value \in Nat
  BY TextKinds DEF TextInv, TextHolds, RecordWork, Saves, Submissions
<1>2. t \in Submissions /\ t \notin Saves /\ t.value = s.value
  BY <1>1, TextStored, TextKinds DEF Saves, Submissions
<1>3. /\ sending' = (sending \ {s}) \cup {t}
      /\ recorded' = s.value /\ newest' = IF s.value > newest THEN s.value ELSE newest
      /\ UNCHANGED <<editor, typed, texts, begunSaves, written, crossed, blind>>
  BY DEF RecordWork, Stored
<1>4. s.value <= texts /\ (~crossed /\ ~blind => newest' = s.value)
  BY <1>1, <1>3 DEF TextInv, TextHolds, InOrder
<1> HIDE DEF t
<1>5. TextHolds'
  BY <1>1, <1>2, <1>3 DEF TextInv, TextHolds
<1>6. Paired'
  BY <1>2, <1>3 DEF TextInv, Paired
<1>7. InOrder'
  <2>1. typed' \in {NoText, texts'} /\ newest' <= texts'
    BY <1>3, <1>4 DEF TextInv, TextHolds, InOrder
  <2>2. ~crossed => (sending \cap Submissions)' = {t}
    BY <1>1, <1>2, <1>3 DEF TextInv, InOrder
  <2>3. ASSUME NEW u \in (sending \cap Submissions)'
        PROVE  u.value <= texts' /\ (~crossed' /\ ~blind' => newest' <= u.value)
    <3>1. u.value <= texts'
      BY <1>2, <1>3, <1>4 DEF TextInv, InOrder
    <3>2. ~crossed' /\ ~blind' => u = t
      BY <1>3, <2>2
    <3> QED  BY <1>1, <1>2, <1>3, <1>4, <3>1, <3>2
  <2> QED  BY <1>3, <2>1, <2>2, <2>3 DEF InOrder
<1>8. TextStaysWithItsRow'
  BY <1>3, <1>4 DEF TextInv, TextStaysWithItsRow
<1> QED  BY <1>5, <1>6, <1>7, <1>8 DEF TextInv

LEMMA TextInductive == TextInv /\ WorkEditorsNext => TextInv'
<1> SUFFICES ASSUME TextInv, WorkEditorsNext PROVE TextInv'
  OBVIOUS
<1>1. CASE \E w \in Works : Edit(w)  BY <1>1, TextEdits
<1>2. CASE CancelEdit \/ OpenPage  BY <1>2, TextResets
<1>3. CASE SaveAssignment  BY <1>3, TextSaves
<1>4. CASE Type  BY <1>4, TextTypes
<1>5. CASE SubmitWork  BY <1>5, TextSubmits
<1>6. CASE \E s \in sending : StoreAssignment(s)  BY <1>6, TextStores
<1>7. CASE \E s \in sending : AssignmentSaved(s) \/ SendEnds(s)  BY <1>7, TextEnds
<1>8. CASE \E s \in sending : RecordWork(s)  BY <1>8, TextRecords
<1> QED  BY <1>1, <1>2, <1>3, <1>4, <1>5, <1>6, <1>7, <1>8 DEF WorkEditorsNext

-----------------------------------------------------------------------------
(* The attendance page.                                                    *)
Chosen == Classes \cup {NoClass}
Sheet == Chosen \X Days
SheetRead == [of : Sheet \cup {NoSheet}, some : BOOLEAN]
PageCall == [at : {"classes", "load", "post", "patch", "posted", "patched", "refused"},
             class : Chosen, date : Days,
             rows : Sheet \cup {NoSheet}, recorded : SheetRead]
Page == [options : SUBSET Chosen, class : Chosen, date : Days,
         rows : Sheet \cup {NoSheet}, recorded : SheetRead,
         error : BOOLEAN]

(* A load holds nothing but what is of the class and the date it was asked *)
(* for.                                                                    *)
Loads(c) ==
    /\ c.at = "load" => /\ c.rows \in {NoSheet, <<c.class, c.date>>}
                        /\ c.recorded.of \in {NoSheet, <<c.class, c.date>>}
                        /\ c.class = NoClass => c.rows = NoSheet
    /\ c.at = "classes" => c.class = NoClass

PageTypes ==
    /\ page \in Page /\ calls \subseteq PageCall /\ \A c \in calls : Loads(c)
    /\ begun \in Nat /\ taken \subseteq Sheet /\ alone \in BOOLEAN

Whole ==
    /\ page.rows = page.recorded.of
    /\ page.recorded.some => page.rows # NoSheet

(* A handler that asks for no class can only fail; where no class is       *)
(* chosen there is one, or an error is shown, or nothing has happened yet. *)
Doomed(c) == c.at # "classes" /\ c.class = NoClass
NoneChosen ==
    page.class = NoClass /\ ~page.error =>
        \/ \E c \in calls : Doomed(c)
        \/ page.rows = NoSheet /\ \A c \in calls : c.at = "classes"

(* The handler that is alone on the page.                                  *)
Follows(c) ==
    /\ c.date = page.date
    /\ c.at # "classes" => c.class = page.class
    /\ c.at = "load" /\ c.recorded.of # NoSheet => (c.recorded.some <=> <<c.class, c.date>> \in taken)

Alone ==
    alone => /\ \A c, d \in calls : c = d
             /\ \A c \in calls : Follows(c)
             /\ calls = {} /\ ~page.error /\ page.class # NoClass =>
                   /\ page.rows = <<page.class, page.date>>
                   /\ page.recorded.some <=> page.rows \in taken

PageInv == PageTypes /\ Whole /\ NoneChosen /\ Alone

LEMMA PageTuples == \A a, b : <<a, b>> # NoSheet
  BY DEF NoSheet

LEMMA PageNothing ==
  NotRead \in SheetRead /\ NotRead.of = NoSheet /\ ~NotRead.some /\ NoSheet \in Sheet \cup {NoSheet}
  BY DEF NotRead, SheetRead

LEMMA PageFresh ==
  /\ Call \in PageCall /\ Call.at = "classes" /\ Call.class = NoClass /\ Call.date = FirstDay
  /\ Call.rows = NoSheet /\ Call.recorded = NotRead
<1>1. NotRead \in SheetRead /\ FirstDay \in Days /\ NoClass \in Chosen
  BY PageNothing, AttendancePageBounds DEF Chosen
<1> QED  BY <1>1 DEF Call, PageCall

LEMMA PageStarts == AttendancePageInit => PageInv
<1> SUFFICES ASSUME AttendancePageInit PROVE PageInv
  OBVIOUS
<1>1. page = [options |-> {NoClass}, class |-> NoClass, date |-> FirstDay,
              rows |-> NoSheet, recorded |-> NotRead, error |-> FALSE]
      /\ calls = {Call} /\ begun = 1 /\ alone = TRUE /\ taken \subseteq Sheet
  BY DEF AttendancePageInit, Sheet, Chosen
<1>2. page \in Page
  BY <1>1, PageNothing, AttendancePageBounds DEF Page, Chosen
<1>3. /\ page.class = NoClass /\ page.date = FirstDay /\ page.rows = NoSheet /\ page.recorded = NotRead
      /\ ~page.error
  BY <1>1
<1>4. PageTypes
  BY <1>1, <1>2, PageFresh DEF PageTypes, Loads
<1>5. Whole /\ NoneChosen /\ Alone
  BY <1>1, <1>3, PageFresh, PageNothing DEF Whole, NoneChosen, Alone, Follows
<1> QED  BY <1>4, <1>5 DEF PageInv

(* What is called: a load of the class and the date it is called with.     *)
LEMMA PageLoading ==
  ASSUME NEW c \in PageCall, NEW class \in Chosen, NEW new, new = Loading(c, class)
  PROVE  /\ new \in PageCall /\ new.at = "load" /\ new.class = class /\ new.date = c.date
         /\ new.rows = NoSheet /\ new.recorded = NotRead /\ Loads(new)
<1>1. new \in PageCall
  BY PageNothing DEF Loading, PageCall
<1>2. new.at = "load" /\ new.class = class /\ new.date = c.date /\ new.rows = NoSheet /\ new.recorded = NotRead
  BY DEF Loading, PageCall
<1> QED  BY <1>1, <1>2, PageNothing DEF Loads

(* A handler is called.                                                    *)
LEMMA PageHandles ==
  ASSUME PageInv, NEW c \in PageCall, NEW shown \in Page, Handle(c, shown),
         Loads(c), c.at # "classes", c.class = shown.class, c.date = shown.date,
         c.at = "load" => c.recorded = NotRead,
         shown.rows = page.rows, shown.recorded = page.recorded,
         shown.class = NoClass => c.class = NoClass
  PROVE  PageInv'
<1>1. /\ calls' = calls \cup {c} /\ page' = shown /\ taken' = taken /\ begun' = begun + 1
      /\ alone' = (calls = {})
  BY DEF Handle
<1>2. PageTypes'
  BY <1>1 DEF PageInv, PageTypes
<1>3. Whole'
  BY <1>1 DEF PageInv, Whole
<1>4. NoneChosen'
  BY <1>1 DEF NoneChosen, Doomed
<1>5. Alone'
  <2>1. Follows(c)'
    BY <1>1, PageNothing DEF Follows
  <2> QED  BY <1>1, <2>1 DEF Alone
<1> QED  BY <1>2, <1>3, <1>4, <1>5 DEF PageInv

LEMMA PageSelects == ASSUME PageInv, NEW class \in Chosen, SelectClass(class) PROVE PageInv'
<1>1. PICK shown : shown = [page EXCEPT !.class = class]
  OBVIOUS
<1>2. PICK from : from = [Call EXCEPT !.date = page.date]
  OBVIOUS
<1>3. PICK c : c = Loading(from, class)
  OBVIOUS
<1>4. page \in Page
  BY DEF PageInv, PageTypes
<1>5. /\ shown \in Page /\ shown.class = class /\ shown.date = page.date /\ shown.rows = page.rows
      /\ shown.recorded = page.recorded
  BY <1>1, <1>4 DEF Page
<1>6. from \in PageCall /\ from.date = page.date
  BY <1>2, <1>4, PageFresh DEF Page, PageCall
<1>7. /\ c \in PageCall /\ Loads(c) /\ c.at = "load" /\ c.class = class /\ c.date = page.date
      /\ c.recorded = NotRead
  BY <1>3, <1>6, PageLoading
<1>8. Handle(c, shown)
  BY <1>1, <1>2, <1>3 DEF SelectClass
<1> QED  BY <1>5, <1>7, <1>8, PageHandles

LEMMA PageDates == ASSUME PageInv, NEW day \in Days, SelectDate(day) PROVE PageInv'
<1>1. PICK shown : shown = [page EXCEPT !.date = day]
  OBVIOUS
<1>2. page \in Page
  BY DEF PageInv, PageTypes
<1>3. /\ shown \in Page /\ shown.class = page.class /\ shown.date = day /\ shown.rows = page.rows
      /\ shown.recorded = page.recorded /\ shown.error = page.error
  BY <1>1, <1>2 DEF Page
<1>4. CASE page.class # NoClass
  <2>1. PICK from : from = [Call EXCEPT !.date = day]
    OBVIOUS
  <2>2. PICK c : c = Loading(from, page.class)
    OBVIOUS
  <2>3. from \in PageCall /\ from.date = day /\ page.class \in Chosen
    BY <1>2, <2>1, PageFresh DEF Page, PageCall
  <2>4. /\ c \in PageCall /\ Loads(c) /\ c.at = "load" /\ c.class = page.class /\ c.date = day
        /\ c.recorded = NotRead
    BY <2>2, <2>3, PageLoading
  <2>5. Handle(c, shown)
    BY <1>1, <1>4, <2>1, <2>2 DEF SelectDate
  <2> QED  BY <1>3, <1>4, <2>4, <2>5, PageHandles
<1>5. CASE page.class = NoClass
  <2>1. /\ page' = shown /\ begun' = begun + 1 /\ alone' = (calls = {}) /\ UNCHANGED <<calls, taken>>
    BY <1>1, <1>5 DEF SelectDate
  <2>2. PageTypes'
    BY <1>3, <2>1 DEF PageInv, PageTypes
  <2>3. Whole' /\ NoneChosen'
    BY <1>3, <2>1 DEF PageInv, Whole, NoneChosen
  <2>4. Alone'
    BY <1>3, <1>5, <2>1 DEF Alone
  <2> QED  BY <2>2, <2>3, <2>4 DEF PageInv
<1> QED  BY <1>4, <1>5

LEMMA PageWrites == ASSUME PageInv, SubmitSheet \/ Correct PROVE PageInv'
<1>1. page \in Page
  BY DEF PageInv, PageTypes
<1>2. CASE SubmitSheet
  <2>1. PICK shown : shown = [page EXCEPT !.error = FALSE]
    OBVIOUS
  <2>2. PICK c : c = [Call EXCEPT !.at = "post", !.class = page.class, !.date = page.date, !.rows = page.rows]
    OBVIOUS
  <2>3. /\ shown \in Page /\ shown.class = page.class /\ shown.date = page.date /\ shown.rows = page.rows
        /\ shown.recorded = page.recorded
    BY <1>1, <2>1 DEF Page
  <2>4. c \in PageCall /\ c.at = "post" /\ c.class = page.class /\ c.date = page.date
    BY <1>1, <2>2, PageFresh DEF Page, PageCall
  <2>5. Handle(c, shown)
    BY <1>2, <2>1, <2>2 DEF SubmitSheet
  <2>6. Loads(c)
    BY <2>4 DEF Loads
  <2> QED  BY <2>3, <2>4, <2>5, <2>6, PageHandles
<1>3. CASE Correct
  <2>1. PICK c : c = [Call EXCEPT !.at = "patch", !.class = page.class, !.date = page.date]
    OBVIOUS
  <2>2. c \in PageCall /\ c.at = "patch" /\ c.class = page.class /\ c.date = page.date
    BY <1>1, <2>1, PageFresh DEF Page, PageCall
  <2>3. Handle(c, page)
    BY <1>3, <2>1 DEF Correct
  <2>4. Loads(c)
    BY <2>2 DEF Loads
  <2> QED  BY <1>1, <2>2, <2>3, <2>4, PageHandles
<1> QED  BY <1>2, <1>3

(* A handler goes on, leaving the page as it is.                           *)
LEMMA PageGoes ==
  ASSUME PageInv, NEW c \in calls, NEW to \in PageCall, Goes(c, to), UNCHANGED <<page, begun, alone>>,
         Loads(to), to.at # "classes", c.at # "classes", to.class = c.class, to.date = c.date,
         taken \subseteq taken', taken' \subseteq Sheet,
         taken' = taken \/ to.at # "load",
         to.at = "load" /\ to.recorded.of # NoSheet =>
            \/ to.recorded = c.recorded /\ c.at = "load"
            \/ to.recorded.some <=> <<c.class, c.date>> \in taken
  PROVE  PageInv'
<1>1. calls' = (calls \ {c}) \cup {to}
  BY DEF Goes
<1>2. PageTypes'
  BY <1>1 DEF PageInv, PageTypes
<1>3. Whole'
  BY DEF PageInv, Whole
<1>4. NoneChosen'
  BY <1>1 DEF PageInv, NoneChosen, Doomed
<1>5. Alone'
  <2>1. ASSUME alone
        PROVE  calls' = {to} /\ Follows(to)'
    <3>1. Follows(c) /\ calls = {c}
      BY <2>1 DEF PageInv, Alone
    <3> QED  BY <1>1, <3>1 DEF Follows
  <2> QED  BY <2>1 DEF Alone
<1> QED  BY <1>2, <1>3, <1>4, <1>5 DEF PageInv

LEMMA PageServed == ASSUME PageInv, NEW c \in calls, Post(c) \/ Patch(c) PROVE PageInv'
<1>1. c \in PageCall
  BY DEF PageInv, PageTypes
<1>2. ASSUME NEW at \in {"posted", "patched", "refused"}, NEW to, to = [c EXCEPT !.at = at]
      PROVE  to \in PageCall /\ to.at = at /\ to.class = c.class /\ to.date = c.date /\ Loads(to)
  <2>1. to \in PageCall /\ to.at = at /\ to.class = c.class /\ to.date = c.date
    BY <1>1, <1>2 DEF PageCall
  <2> QED  BY <2>1 DEF Loads
<1>3. CASE Post(c)
  <2>1. PICK to : \E at \in {"posted", "refused"} : to = [c EXCEPT !.at = at] /\ Goes(c, to)
    BY <1>3 DEF Post
  <2>2. /\ taken' \in {taken, taken \cup {<<c.class, c.date>>}} /\ c.at = "post"
        /\ UNCHANGED <<page, begun, alone>>
    BY <1>3 DEF Post
  <2>3. taken \subseteq taken' /\ taken' \subseteq Sheet
    BY <1>1, <2>2 DEF PageInv, PageTypes, PageCall, Sheet
  <2>4. /\ to \in PageCall /\ to.at \in {"posted", "refused"} /\ to.class = c.class /\ to.date = c.date
        /\ Loads(to)
    BY <1>2, <2>1
  <2> QED  BY <2>1, <2>2, <2>3, <2>4, PageGoes
<1>4. CASE Patch(c)
  <2>1. PICK to : \E at \in {"patched", "refused"} : to = [c EXCEPT !.at = at] /\ Goes(c, to)
    BY <1>4 DEF Patch
  <2>2. taken' = taken /\ c.at = "patch" /\ UNCHANGED <<page, begun, alone>> /\ taken' \subseteq Sheet
    BY <1>4 DEF Patch, PageInv, PageTypes
  <2>3. /\ to \in PageCall /\ to.at \in {"patched", "refused"} /\ to.class = c.class /\ to.date = c.date
        /\ Loads(to)
    BY <1>2, <2>1
  <2> QED  BY <2>1, <2>2, <2>3, PageGoes
<1> QED  BY <1>3, <1>4

LEMMA PageReads == ASSUME PageInv, NEW c \in calls, ReadClass(c) \/ ReadEntries(c) PROVE PageInv'
<1>1. c \in PageCall /\ Loads(c) /\ <<c.class, c.date>> \in Sheet /\ c.at = "load" /\ taken \subseteq Sheet
      /\ UNCHANGED <<page, begun, taken, alone>>
  BY DEF PageInv, PageTypes, PageCall, Sheet, ReadClass, ReadEntries
<1>2. CASE ReadClass(c)
  <2>1. PICK to : to = [c EXCEPT !.rows = <<c.class, c.date>>]
    OBVIOUS
  <2>2. /\ to \in PageCall /\ to.at = "load" /\ to.class = c.class /\ to.date = c.date
        /\ to.recorded = c.recorded /\ to.rows = <<c.class, c.date>>
    BY <1>1, <2>1 DEF PageCall
  <2>3. Goes(c, to)
    BY <1>2, <2>1 DEF ReadClass
  <2>4. Loads(to)
    BY <1>1, <1>2, <2>2 DEF Loads, ReadClass
  <2> QED  BY <1>1, <2>2, <2>3, <2>4, PageGoes
<1>3. CASE ReadEntries(c)
  <2>1. PICK read : read = [of |-> <<c.class, c.date>>, some |-> <<c.class, c.date>> \in taken]
    OBVIOUS
  <2>2. PICK to : to = [c EXCEPT !.recorded = read]
    OBVIOUS
  <2>3. read.of = <<c.class, c.date>> /\ (read.some <=> <<c.class, c.date>> \in taken)
    BY <2>1
  <2>4. read \in SheetRead
    <3>1. CASE <<c.class, c.date>> \in taken
      <4>1. (<<c.class, c.date>> \in taken) = TRUE
        BY <3>1
      <4>2. read = [of |-> <<c.class, c.date>>, some |-> TRUE]
        BY <2>1, <4>1
      <4> QED  BY <1>1, <4>2 DEF SheetRead
    <3>2. CASE <<c.class, c.date>> \notin taken
      <4>1. (<<c.class, c.date>> \in taken) = FALSE
        BY <3>2
      <4>2. read = [of |-> <<c.class, c.date>>, some |-> FALSE]
        BY <2>1, <4>1
      <4> QED  BY <1>1, <4>2 DEF SheetRead
    <3> QED  BY <3>1, <3>2
  <2>5. /\ to \in PageCall /\ to.at = "load" /\ to.class = c.class /\ to.date = c.date
        /\ to.recorded = read /\ to.rows = c.rows
    BY <1>1, <2>2, <2>4 DEF PageCall
  <2>6. Goes(c, to)
    BY <1>3, <2>1, <2>2 DEF ReadEntries
  <2>7. Loads(to)
    BY <1>1, <2>3, <2>5 DEF Loads
  <2> QED  BY <1>1, <2>3, <2>5, <2>6, <2>7, PageGoes
<1> QED  BY <1>2, <1>3

LEMMA PageFirst == ASSUME PageInv, NEW c \in calls, NEW class \in Classes, FirstClass(c, class) PROVE PageInv'
<1>1. c \in PageCall /\ page \in Page /\ class \in Chosen /\ class # NoClass
  BY AttendancePageBounds DEF PageInv, PageTypes, Chosen, NoClass
<1>2. PICK shown : shown = [page EXCEPT !.options = @ \cup Classes, !.class = class]
  OBVIOUS
<1>3. PICK to : to = Loading(c, class)
  OBVIOUS
<1>4. /\ shown \in Page /\ shown.class = class /\ shown.date = page.date /\ shown.rows = page.rows
      /\ shown.recorded = page.recorded
  BY <1>1, <1>2 DEF Page, Chosen
<1>5. /\ to \in PageCall /\ to.at = "load" /\ to.class = class /\ to.date = c.date
      /\ to.rows = NoSheet /\ to.recorded = NotRead /\ Loads(to)
  BY <1>1, <1>3, PageLoading
<1>6. /\ calls' = (calls \ {c}) \cup {to} /\ page' = shown /\ UNCHANGED <<begun, taken, alone>>
  BY <1>2, <1>3 DEF FirstClass, Goes
<1>7. PageTypes'
  BY <1>4, <1>5, <1>6 DEF PageInv, PageTypes
<1>8. Whole' /\ NoneChosen'
  BY <1>1, <1>4, <1>6 DEF PageInv, Whole, NoneChosen
<1>9. Alone'
  <2>1. ASSUME alone
        PROVE  calls' = {to} /\ Follows(to)'
    <3>1. Follows(c) /\ calls = {c}
      BY <2>1 DEF PageInv, Alone
    <3> QED  BY <1>4, <1>5, <1>6, <3>1, PageNothing DEF Follows
  <2> QED  BY <1>6, <2>1 DEF Alone
<1> QED  BY <1>7, <1>8, <1>9 DEF PageInv

LEMMA PageLoadsAgain == ASSUME PageInv, NEW c \in calls, AfterWrite(c) PROVE PageInv'
<1>1. c \in PageCall /\ page \in Page /\ c.class \in Chosen /\ c.at \in {"posted", "patched"}
  BY DEF PageInv, PageTypes, PageCall, AfterWrite
<1>2. PICK shown : shown = [page EXCEPT !.class = c.class]
  OBVIOUS
<1>3. PICK to : to = Loading(c, c.class)
  OBVIOUS
<1>4. /\ shown \in Page /\ shown.class = c.class /\ shown.date = page.date /\ shown.rows = page.rows
      /\ shown.recorded = page.recorded
  BY <1>1, <1>2 DEF Page
<1>5. /\ to \in PageCall /\ to.at = "load" /\ to.class = c.class /\ to.date = c.date
      /\ to.rows = NoSheet /\ to.recorded = NotRead /\ Loads(to)
  BY <1>1, <1>3, PageLoading
<1>6. /\ calls' = (calls \ {c}) \cup {to} /\ page' = shown /\ UNCHANGED <<begun, taken, alone>>
  BY <1>2, <1>3 DEF AfterWrite, Goes
<1>7. PageTypes'
  BY <1>4, <1>5, <1>6 DEF PageInv, PageTypes
<1>8. Whole' /\ NoneChosen'
  BY <1>1, <1>4, <1>5, <1>6 DEF PageInv, Whole, NoneChosen, Doomed
<1>9. Alone'
  <2>1. ASSUME alone
        PROVE  calls' = {to} /\ Follows(to)'
    <3>1. Follows(c) /\ calls = {c}
      BY <2>1 DEF PageInv, Alone
    <3> QED  BY <1>1, <1>4, <1>5, <1>6, <3>1, PageNothing DEF Follows
  <2> QED  BY <1>6, <2>1 DEF Alone
<1> QED  BY <1>7, <1>8, <1>9 DEF PageInv

LEMMA PageShows == ASSUME PageInv, NEW c \in calls, Show(c) PROVE PageInv'
<1>1. /\ c \in PageCall /\ page \in Page /\ c.at = "load" /\ c.rows = <<c.class, c.date>>
      /\ c.recorded.of = <<c.class, c.date>> /\ c.class # NoClass
  BY DEF PageInv, PageTypes, Loads, Show
<1>2. PICK shown : shown = [page EXCEPT !.rows = c.rows, !.recorded = c.recorded]
  OBVIOUS
<1>3. /\ shown \in Page /\ shown.class = page.class /\ shown.date = page.date /\ shown.rows = c.rows
      /\ shown.recorded = c.recorded /\ shown.error = page.error
  BY <1>1, <1>2 DEF Page, PageCall
<1>4. calls' = calls \ {c} /\ page' = shown /\ UNCHANGED <<begun, taken, alone>>
  BY <1>2 DEF Show, Ends
<1>5. PageTypes'
  BY <1>3, <1>4 DEF PageInv, PageTypes
<1>6. Whole'
  BY <1>1, <1>3, <1>4, PageTuples DEF Whole
<1>7. NoneChosen'
  BY <1>1, <1>3, <1>4 DEF PageInv, NoneChosen, Doomed
<1>8. Alone'
  <2>1. ASSUME alone
        PROVE  calls' = {} /\ Follows(c)
    BY <1>4, <2>1 DEF PageInv, Alone
  <2> QED  BY <1>1, <1>3, <1>4, <2>1, PageTuples DEF Alone, Follows
<1> QED  BY <1>5, <1>6, <1>7, <1>8 DEF PageInv

LEMMA PageFails == ASSUME PageInv, NEW c \in calls, Fails(c) PROVE PageInv'
<1>1. page \in Page
  BY DEF PageInv, PageTypes
<1>2. PICK shown : shown = [page EXCEPT !.error = TRUE]
  OBVIOUS
<1>3. /\ shown \in Page /\ shown.class = page.class /\ shown.date = page.date /\ shown.rows = page.rows
      /\ shown.recorded = page.recorded /\ shown.error
  BY <1>1, <1>2 DEF Page
<1>4. calls' = calls \ {c} /\ page' = shown /\ UNCHANGED <<begun, taken, alone>>
  BY <1>2 DEF Fails, Ends
<1>5. PageTypes'
  BY <1>3, <1>4 DEF PageInv, PageTypes
<1>6. Whole' /\ NoneChosen'
  BY <1>3, <1>4 DEF PageInv, Whole, NoneChosen
<1>7. Alone'
  BY <1>3, <1>4 DEF PageInv, Alone
<1> QED  BY <1>5, <1>6, <1>7 DEF PageInv

LEMMA PageInductive == PageInv /\ AttendancePageNext => PageInv'
<1> SUFFICES ASSUME PageInv, AttendancePageNext PROVE PageInv'
  OBVIOUS
<1>1. CASE \/ \E class \in Classes \cup {NoClass} : SelectClass(class)
           \/ \E day \in Days : SelectDate(day)
           \/ SubmitSheet \/ Correct
  BY <1>1, PageSelects, PageDates, PageWrites DEF Chosen
<1>2. CASE \E c \in calls : \/ Post(c) \/ Patch(c) \/ ReadClass(c) \/ ReadEntries(c)
                            \/ \E class \in Classes : FirstClass(c, class)
                            \/ AfterWrite(c) \/ Show(c) \/ Fails(c)
  BY <1>2, PageServed, PageReads, PageFirst, PageLoadsAgain, PageShows, PageFails
<1> QED  BY <1>1, <1>2 DEF AttendancePageNext

LEMMA PageMeans == PageInv => SheetIsOfChoice
  BY DEF PageInv, Whole, NoneChosen, Alone, SheetIsOfChoice

-----------------------------------------------------------------------------
(* The pages with forms.                                                   *)
Form == [clears : SUBSET Both, requests : 0..2, says : BOOLEAN, throws : BOOLEAN,
         then : {"load", "patch", "nothing"}, catches : BOOLEAN]

(* A handler that does nothing at the end throws, and one that patches the *)
(* list changes one row and leaves the error that is shown.                *)
Ending(form) ==
    /\ form.then = "nothing" => form.throws
    /\ form.then = "patch" => form.requests = 1 /\ form.clears = {}

FormCall == [form : Form, sent : 0..2, read : SUBSET (Nat \X Nat),
             at : {"request", "answer", "refused", "load", "loaded", "done"}]
Tab == [name : DOMAIN HandlersOf, list : SUBSET (Nat \X Nat), error : BOOLEAN, said : Nat]

(* What has been sent is saved, and nothing is loaded before all is.       *)
SentSoFar(c, h) ==
    /\ c.sent <= c.form.requests /\ Ending(c.form)
    /\ \A r \in 1..c.sent : <<h, r>> \in saved
    /\ c.at = "request" => c.sent < c.form.requests
    /\ c.at = "answer" => c.sent > 0
    /\ c.at \in {"load", "loaded"} => c.sent = c.form.requests

FormTypes ==
    /\ tab \in Tab /\ handling \in Seq(FormCall) /\ Len(handling) # 0 /\ saved \subseteq Nat \X Nat
    /\ \A h \in DOMAIN handling : SentSoFar(handling[h], h)

Said ==
    tab.said # 0 => /\ tab.said \in DOMAIN handling
                    /\ handling[tab.said].sent = handling[tab.said].form.requests

(* The list, while the last handler is the only one in progress.           *)
Lists(c, h) ==
    /\ c.at = "done" => tab.list = saved
    /\ c.at = "loaded" => c.read = saved
    /\ c.form.then = "patch" /\ c.at = "request" => tab.list = saved
    /\ c.form.then = "patch" /\ c.at = "answer" => saved = tab.list \cup {<<h, 1>>}

LastOne ==
    LET last == Len(handling) IN
    /\ handling[last].at = "done" /\ handling[last].sent < handling[last].form.requests => tab.error \/ unseen
    /\ ~overlap => /\ \A h \in DOMAIN handling : h # last => handling[h].at = "done"
                   /\ ~unseen /\ ~tab.error => Lists(handling[last], last)

FormInv == FormTypes /\ Said /\ LastOne

LEMMA FormHandler ==
  /\ Handler \in Form /\ Handler.clears = {} /\ Handler.requests = 1 /\ ~Handler.throws /\ Handler.then = "load"
  /\ {"error"} \in SUBSET Both
  BY DEF Handler, Form, Both

LEMMA FormAsks ==
  ASSUME NEW f \in Form, NEW n \in 0..2, NEW g, g = [f EXCEPT !.requests = n]
  PROVE  /\ g \in Form /\ g.requests = n /\ g.then = f.then /\ g.throws = f.throws /\ g.clears = f.clears
  BY DEF Form

LEMMA FormTable == \A name \in DOMAIN HandlersOf : \A form \in HandlersOf[name] : form \in Form /\ Ending(form)
<1>1. \A form \in StructureHandlers : form \in Form /\ Ending(form)
  BY FormHandler DEF StructureHandlers, Form, Ending
<1>2. \A form \in AssignmentHandlers : form \in Form /\ Ending(form)
  <2>1. /\ [Handler EXCEPT !.clears = Both] \in Form
        /\ Ending([Handler EXCEPT !.clears = Both])
    BY FormHandler DEF Form, Ending
  <2>2. /\ [Handler EXCEPT !.clears = Both, !.requests = 2] \in Form
        /\ Ending([Handler EXCEPT !.clears = Both, !.requests = 2])
    <3>1. PICK f : f = [Handler EXCEPT !.clears = Both]
      OBVIOUS
    <3>2. f \in Form /\ f.then = "load"
      BY <3>1, FormHandler DEF Form
    <3>3. PICK g : g = [f EXCEPT !.requests = 2]
      OBVIOUS
    <3>4. g \in Form /\ g.then = "load"
      BY <3>2, <3>3, FormAsks
    <3> QED  BY <3>1, <3>3, <3>4 DEF Ending
  <2>3. /\ [Handler EXCEPT !.clears = {"error"}] \in Form
        /\ Ending([Handler EXCEPT !.clears = {"error"}])
    BY FormHandler DEF Form, Ending
  <2>4. /\ [Handler EXCEPT !.clears = {"error"}, !.requests = 2] \in Form
        /\ Ending([Handler EXCEPT !.clears = {"error"}, !.requests = 2])
    <3>1. PICK f : f = [Handler EXCEPT !.clears = {"error"}]
      OBVIOUS
    <3>2. f \in Form /\ f.then = "load"
      BY <3>1, FormHandler DEF Form
    <3>3. PICK g : g = [f EXCEPT !.requests = 2]
      OBVIOUS
    <3>4. g \in Form /\ g.then = "load"
      BY <3>2, <3>3, FormAsks
    <3> QED  BY <3>1, <3>3, <3>4 DEF Ending
  <2> QED  BY FormHandler, <2>1, <2>2, <2>3, <2>4 DEF AssignmentHandlers, Ending
<1>3. \A form \in CommunicationHandlers : form \in Form /\ Ending(form)
  <2>1. /\ [Handler EXCEPT !.requests = 2, !.throws = TRUE] \in Form
        /\ Ending([Handler EXCEPT !.requests = 2, !.throws = TRUE])
    <3>1. PICK f : f = Handler
      OBVIOUS
    <3>2. f \in Form /\ f.then = "load"
      BY <3>1, FormHandler DEF Form
    <3>3. PICK g : g = [f EXCEPT !.requests = 2]
      OBVIOUS
    <3>4. g \in Form /\ g.then = "load"
      BY <3>2, <3>3, FormAsks
    <3>5. PICK h : h = [g EXCEPT !.throws = TRUE]
      OBVIOUS
    <3>6. h \in Form /\ h.then = "load"
      BY <3>4, <3>5 DEF Form
    <3> QED  BY <3>1, <3>3, <3>5, <3>6 DEF Ending
  <2>2. /\ [Handler EXCEPT !.throws = TRUE] \in Form
        /\ Ending([Handler EXCEPT !.throws = TRUE])
    BY FormHandler DEF Form, Ending
  <2>3. /\ [Handler EXCEPT !.says = FALSE, !.then = "patch", !.catches = FALSE] \in Form
        /\ Ending([Handler EXCEPT !.says = FALSE, !.then = "patch", !.catches = FALSE])
    BY FormHandler DEF Form, Ending
  <2> QED  BY FormHandler, <2>1, <2>2, <2>3 DEF CommunicationHandlers, Ending
<1>4. \A form \in MessageHandlers \cup CaseHandlers : form \in Form /\ Ending(form)
  BY FormHandler DEF MessageHandlers, CaseHandlers, Form, Ending
<1>5. \A form \in ProgressHandlers : form \in Form /\ Ending(form)
  BY FormHandler DEF ProgressHandlers, Form, Ending
<1>6. \A form \in SafetyHandlers \cup IntakeHandlers : form \in Form /\ Ending(form)
  BY FormHandler DEF SafetyHandlers, IntakeHandlers, Form, Ending
<1>7. \A form \in DashboardHandlers : form \in Form /\ Ending(form)
  <2>1. /\ [Handler EXCEPT !.clears = {"error"}, !.requests = 0, !.says = FALSE] \in Form
        /\ Ending([Handler EXCEPT !.clears = {"error"}, !.requests = 0, !.says = FALSE])
    <3>1. PICK f : f = [Handler EXCEPT !.clears = {"error"}]
      OBVIOUS
    <3>2. f \in Form /\ f.then = "load"
      BY <3>1, FormHandler DEF Form
    <3>3. PICK g : g = [f EXCEPT !.requests = 0]
      OBVIOUS
    <3>4. g \in Form /\ g.then = "load"
      BY <3>2, <3>3, FormAsks
    <3>5. PICK h : h = [g EXCEPT !.says = FALSE]
      OBVIOUS
    <3>6. h \in Form /\ h.then = "load"
      BY <3>4, <3>5 DEF Form
    <3> QED  BY <3>1, <3>3, <3>5, <3>6 DEF Ending
  <2> QED  BY FormHandler, <2>1 DEF DashboardHandlers, Ending
<1> QED  BY <1>1, <1>2, <1>3, <1>4, <1>5, <1>6, <1>7 DEF HandlersOf

LEMMA FormFresh ==
  ASSUME NEW form \in Form, NEW c, c = Fresh(form)
  PROVE  /\ c \in FormCall /\ c.form = form /\ c.sent = 0
         /\ c.at = IF form.requests = 0 THEN "load" ELSE "request"
<1>1. CASE form.requests = 0
  BY <1>1 DEF Fresh, FormCall
<1>2. CASE form.requests # 0
  BY <1>2 DEF Fresh, FormCall
<1> QED  BY <1>1, <1>2

LEMMA FormDomain ==
  ASSUME FormInv
  PROVE  /\ DOMAIN handling = 1..Len(handling) /\ Len(handling) \in Nat \ {0}
         /\ \A h \in DOMAIN handling : handling[h] \in FormCall /\ h \in Nat \ {0}
         /\ tab \in Tab /\ tab.list \subseteq Nat \X Nat /\ tab.said \in Nat /\ tab.error \in BOOLEAN
<1>1. handling \in Seq(FormCall) /\ Len(handling) # 0 /\ tab \in Tab
  BY DEF FormInv, FormTypes
<1>2. DOMAIN handling = 1..Len(handling) /\ Len(handling) \in Nat \ {0}
  BY <1>1
<1>3. \A h \in DOMAIN handling : handling[h] \in FormCall /\ h \in Nat \ {0}
  BY <1>1, <1>2
<1>4. tab.list \subseteq Nat \X Nat /\ tab.said \in Nat /\ tab.error \in BOOLEAN
  BY <1>1 DEF Tab
<1> QED  BY <1>1, <1>2, <1>3, <1>4

LEMMA FormStarts == WebFormsInit => FormInv
<1> SUFFICES ASSUME WebFormsInit PROVE FormInv
  OBVIOUS
<1>1. PICK form : form = [Handler EXCEPT !.requests = 0]
  OBVIOUS
<1>2. PICK c : c = Fresh(form)
  OBVIOUS
<1>3. form \in Form /\ Ending(form) /\ form.requests = 0 /\ form.then = "load"
  BY <1>1, FormHandler DEF Form, Ending
<1>4. c \in FormCall /\ c.form = form /\ c.sent = 0 /\ c.at = "load"
  BY <1>2, <1>3, FormFresh
<1>5. handling = <<c>> /\ saved = {} /\ overlap = FALSE /\ unseen = FALSE
  BY <1>1, <1>2 DEF WebFormsInit
<1>6. tab \in Tab /\ tab.said = 0
  <2>1. {} \in SUBSET (Nat \X Nat) /\ FALSE \in BOOLEAN /\ 0 \in Nat
    OBVIOUS
  <2>2. tab \in [name : DOMAIN HandlersOf, list : {{}}, error : {FALSE}, said : {0}]
    BY DEF WebFormsInit
  <2> QED  BY <2>1, <2>2 DEF Tab
<1>7. handling \in Seq(FormCall) /\ Len(handling) = 1 /\ DOMAIN handling = {1} /\ handling[1] = c
  BY <1>4, <1>5
<1>8. SentSoFar(c, 1)
  BY <1>3, <1>4, <1>5 DEF SentSoFar
<1>9. FormTypes /\ Said
  BY <1>5, <1>6, <1>7, <1>8 DEF FormTypes, Said
<1>10. LastOne
  BY <1>3, <1>4, <1>7 DEF LastOne, Lists
<1> QED  BY <1>9, <1>10 DEF FormInv

(* A handler is called: it becomes the last one.                           *)
LEMMA FormSubmits == ASSUME FormInv, NEW form \in HandlersOf[tab.name], SubmitForm(form) PROVE FormInv'
<1>1. form \in Form /\ Ending(form)
  BY FormTable, FormDomain DEF Tab
<1>2. PICK c : c = Fresh(form)
  OBVIOUS
<1>3. /\ c \in FormCall /\ c.form = form /\ c.sent = 0
      /\ c.at = IF form.requests = 0 THEN "load" ELSE "request"
  BY <1>1, <1>2, FormFresh
<1>4. PICK n \in Nat \ {0} : n = Len(handling)
  BY FormDomain
<1>5. /\ handling' = Append(handling, c) /\ saved' = saved /\ unseen' = unseen
      /\ overlap' = (overlap \/ \E h \in DOMAIN handling : InProgress(h))
  BY <1>2 DEF SubmitForm
<1>6. /\ handling' \in Seq(FormCall) /\ Len(handling') = n + 1 /\ DOMAIN handling' = 1..(n + 1)
      /\ handling'[n + 1] = c /\ \A h \in 1..n : handling'[h] = handling[h]
  BY <1>3, <1>4, <1>5 DEF FormInv, FormTypes
<1>7. PICK error : error = (tab.error /\ "error" \notin form.clears)
  OBVIOUS
<1>8. PICK said : said = IF "message" \in form.clears THEN 0 ELSE tab.said
  OBVIOUS
<1>9. error \in BOOLEAN
  BY <1>7, Zenon
<1>10. said \in Nat
  BY <1>8, FormDomain
<1>11. tab' = [tab EXCEPT !.error = error, !.said = said, !.list = tab.list]
  BY <1>7, <1>8, FormDomain DEF SubmitForm, Tab
<1>12. tab' \in Tab /\ tab'.error = error /\ tab'.said = said /\ tab'.list = tab.list
  <2>1. tab \in Tab /\ tab.list \in SUBSET (Nat \X Nat)
    BY FormDomain
  <2>2. PICK shown : shown = tab'
    OBVIOUS
  <2>3. /\ shown \in Tab /\ shown.error = error /\ shown.said = said /\ shown.list = tab.list
    BY <1>9, <1>10, <1>11, <2>1, <2>2 DEF Tab
  <2> QED  BY <2>2, <2>3
<1>13. SentSoFar(c, n + 1)'
  BY <1>1, <1>3, <1>5 DEF SentSoFar, Form
<1>14. \A h \in 1..n : SentSoFar(handling[h], h)
  BY <1>4, FormDomain DEF FormInv, FormTypes
<1>15. ASSUME NEW h \in 1..(n + 1)
       PROVE  SentSoFar(handling[h], h)'
  <2>1. CASE h = n + 1
    BY <1>6, <1>13, <2>1 DEF SentSoFar
  <2>2. CASE h \in 1..n
    BY <1>5, <1>6, <1>14, <2>2 DEF SentSoFar
  <2> QED  BY <2>1, <2>2
<1>16. FormTypes'
  BY <1>4, <1>5, <1>6, <1>12, <1>15 DEF FormInv, FormTypes
<1>17. Said'
  BY <1>4, <1>6, <1>8, <1>12, FormDomain DEF FormInv, Said
<1>18. LastOne'
  <2>1. c.at # "done" /\ c.at # "loaded" /\ c.at # "answer"
    BY <1>3
  <2>2. ASSUME ~overlap'
        PROVE  ~overlap /\ \A h \in 1..n : handling[h].at = "done"
    BY <1>4, <1>5, <2>2, FormDomain DEF InProgress
  <2>3. ASSUME ~overlap', ~unseen', ~tab'.error
        PROVE  Lists(c, n + 1)'
    <3>1. CASE form.then = "patch"
      <4>1. ~tab.error
        BY <1>1, <1>7, <1>12, <2>3, <3>1 DEF Ending
      <4>2. Lists(handling[n], n)
        BY <1>4, <1>5, <2>2, <2>3, <4>1 DEF FormInv, LastOne
      <4>3. tab.list = saved
        BY <2>2, <2>3, <4>2 DEF Lists
      <4> QED  BY <1>5, <1>12, <2>1, <4>3 DEF Lists
    <3>2. CASE form.then # "patch"
      BY <1>3, <2>1, <3>2 DEF Lists
    <3> QED  BY <3>1, <3>2
  <2> QED  BY <1>6, <2>1, <2>2, <2>3 DEF LastOne
<1> QED  BY <1>16, <1>17, <1>18 DEF FormInv

(* A handler in progress goes on.                                          *)
LEMMA FormGoes ==
  ASSUME FormInv, NEW h \in DOMAIN handling, NEW c, c = handling[h], c.at # "done", NEW to \in FormCall,
         handling' = [handling EXCEPT ![h] = to], to.form = c.form, c.sent <= to.sent,
         saved \subseteq saved', saved' \subseteq Nat \X Nat, overlap' = overlap,
         tab' \in Tab, SentSoFar(to, h)',
         tab'.said = tab.said \/ (tab'.said = h /\ to.sent = to.form.requests),
         tab.error => tab'.error, unseen => unseen',
         to.at = "done" /\ to.sent < to.form.requests => tab'.error \/ unseen',
         h = Len(handling) /\ ~overlap /\ ~tab'.error /\ ~unseen' => Lists(to, h)'
  PROVE  FormInv'
<1>1. PICK n \in Nat \ {0} : n = Len(handling)
  BY FormDomain
<1>2. DOMAIN handling = 1..n /\ h \in 1..n
  BY <1>1, FormDomain
<1>3. /\ handling' \in Seq(FormCall) /\ Len(handling') = n /\ DOMAIN handling' = 1..n
      /\ handling'[h] = to /\ \A i \in 1..n : i # h => handling'[i] = handling[i]
  BY <1>1, <1>2 DEF FormInv, FormTypes
<1>4. ASSUME NEW i \in 1..n
      PROVE  SentSoFar(handling[i], i)'
  <2>1. CASE i = h
    BY <1>3, <2>1 DEF SentSoFar
  <2>2. CASE i # h
    <3>1. SentSoFar(handling[i], i)
      BY <1>2 DEF FormInv, FormTypes
    <3> QED  BY <1>3, <2>2, <3>1 DEF SentSoFar
  <2> QED  BY <2>1, <2>2
<1>5. FormTypes'
  BY <1>3, <1>4 DEF FormTypes
<1>6. Said'
  <2>1. ASSUME tab'.said # 0, tab'.said = tab.said
        PROVE  tab'.said \in 1..n /\ handling'[tab'.said].sent = handling'[tab'.said].form.requests
    <3>1. PICK s \in 1..n : s = tab.said /\ handling[s].sent = handling[s].form.requests
      BY <1>2, <2>1 DEF FormInv, Said
    <3>2. CASE s # h
      BY <1>3, <2>1, <3>1, <3>2
    <3>3. CASE s = h
      <4>1. c.sent = c.form.requests /\ to.form.requests = c.form.requests
        BY <3>1, <3>3
      <4>2. to.sent <= to.form.requests /\ to.form.requests \in Nat /\ to.sent \in Nat
        BY DEF SentSoFar, FormCall, Form
      <4>3. to.sent = to.form.requests
        BY <4>1, <4>2
      <4> QED  BY <1>3, <2>1, <3>1, <3>3, <4>3
    <3> QED  BY <3>2, <3>3
  <2> QED  BY <1>2, <1>3, <2>1 DEF Said
<1>7. LastOne'
  <2>1. CASE h = n
    <3>1. ASSUME ~overlap
          PROVE  \A i \in 1..n : i # n => handling'[i].at = "done"
      BY <1>1, <1>2, <1>3, <2>1, <3>1 DEF FormInv, LastOne
    <3> QED  BY <1>1, <1>3, <2>1, <3>1 DEF LastOne
  <2>2. CASE h # n
    <3>1. overlap
      BY <1>1, <2>2 DEF FormInv, LastOne
    <3>2. handling'[n] = handling[n]
      BY <1>1, <1>3, <2>2
    <3> QED  BY <1>1, <1>3, <3>1, <3>2 DEF FormInv, LastOne
  <2> QED  BY <2>1, <2>2
<1> QED  BY <1>5, <1>6, <1>7 DEF FormInv

(* Where a handler in progress is.                                         *)
LEMMA FormWhere ==
  ASSUME NEW c \in FormCall, NEW where \in {"request", "answer", "refused", "load", "loaded", "done"},
         NEW to, to = [c EXCEPT !.at = where]
  PROVE  to \in FormCall /\ to.at = where /\ to.form = c.form /\ to.sent = c.sent /\ to.read = c.read
  BY DEF FormCall

LEMMA FormMoves ==
  ASSUME FormInv, NEW h \in DOMAIN handling,
         NEW where \in {"request", "answer", "refused", "load", "loaded", "done"},
         Moves(h, where)
  PROVE  \E to \in FormCall : /\ handling' = [handling EXCEPT ![h] = to] /\ to.at = where
                              /\ to.form = handling[h].form /\ to.sent = handling[h].sent
                              /\ to.read = handling[h].read
<1>1. PICK c \in FormCall : c = handling[h]
  BY FormDomain
<1>2. PICK to : to = [c EXCEPT !.at = where]
  OBVIOUS
<1>3. handling' = [handling EXCEPT ![h] = to]
  BY <1>1, <1>2 DEF Moves
<1>4. to \in FormCall /\ to.at = where /\ to.form = c.form /\ to.sent = c.sent /\ to.read = c.read
  BY <1>2, FormWhere
<1> QED  BY <1>1, <1>3, <1>4

(* A handler that fails is not followed further: an error is shown, or the *)
(* failure is unseen.                                                      *)
LEMMA FormFails ==
  ASSUME FormInv, NEW h \in DOMAIN handling, handling[h].at # "done", Moves(h, "done"),
         UNCHANGED <<saved, overlap>>, tab' \in Tab, tab'.said = tab.said,
         tab.error => tab'.error, unseen => unseen', tab'.error \/ unseen'
  PROVE  FormInv'
<1>1. PICK c \in FormCall : c = handling[h] /\ SentSoFar(c, h) /\ c.at # "done"
  BY FormDomain DEF FormInv, FormTypes
<1>2. PICK to \in FormCall : /\ handling' = [handling EXCEPT ![h] = to] /\ to.at = "done"
                             /\ to.form = c.form /\ to.sent = c.sent
  BY <1>1, FormMoves
<1>3. SentSoFar(to, h)'
  BY <1>1, <1>2 DEF SentSoFar
<1>4. c.sent <= to.sent
  BY <1>2 DEF FormCall
<1>5. saved \subseteq saved' /\ saved' \subseteq Nat \X Nat
  BY DEF FormInv, FormTypes
<1> QED  BY <1>1, <1>2, <1>3, <1>4, <1>5, FormGoes

LEMMA FormServes == ASSUME FormInv, NEW h \in DOMAIN handling, Serve(h) PROVE FormInv'
<1>1. PICK c \in FormCall : c = handling[h] /\ SentSoFar(c, h) /\ c.at = "request"
  BY FormDomain DEF FormInv, FormTypes, Serve
<1>2. UNCHANGED <<tab, overlap, unseen>> /\ tab' \in Tab /\ h \in Nat /\ saved \subseteq Nat \X Nat
  BY FormDomain DEF Serve, FormInv, FormTypes
<1>3. c.sent \in 0..2 /\ c.form \in Form /\ c.form.requests \in 0..2 /\ c.sent < c.form.requests
  BY <1>1 DEF FormCall, Form, SentSoFar
<1>4. CASE Moves(h, "refused") /\ UNCHANGED saved
  <2>1. PICK to \in FormCall : /\ handling' = [handling EXCEPT ![h] = to] /\ to.at = "refused"
                               /\ to.form = c.form /\ to.sent = c.sent
    BY <1>1, <1>4, FormMoves
  <2>2. SentSoFar(to, h)' /\ c.sent <= to.sent
    BY <1>1, <1>3, <1>4, <2>1 DEF SentSoFar
  <2>3. Lists(to, h)'
    BY <2>1 DEF Lists
  <2>4. saved \subseteq saved' /\ saved' \subseteq Nat \X Nat
    BY <1>2, <1>4
  <2> QED  BY <1>1, <1>2, <2>1, <2>2, <2>3, <2>4, FormGoes
<1>5. CASE /\ saved' = saved \cup {<<h, handling[h].sent + 1>>}
           /\ handling' = [handling EXCEPT ![h].at = "answer", ![h].sent = @ + 1]
  <2>1. PICK to : to = [c EXCEPT !.at = "answer", !.sent = c.sent + 1]
    OBVIOUS
  <2>2. handling' = [handling EXCEPT ![h] = to]
    <3>1. handling \in Seq(FormCall)
      BY DEF FormInv, FormTypes
    <3> QED  BY <1>1, <1>5, <2>1, <3>1, FormDomain
  <2>3. c.sent + 1 \in 0..2 /\ c.sent <= c.sent + 1 /\ c.sent + 1 <= c.form.requests /\ c.sent + 1 > 0
    BY <1>3
  <2>4. to \in FormCall /\ to.at = "answer" /\ to.form = c.form /\ to.sent = c.sent + 1
    BY <2>1, <2>3 DEF FormCall
  <2>5. saved' = saved \cup {<<h, c.sent + 1>>}
    BY <1>1, <1>5
  <2>6. saved \subseteq saved' /\ saved' \subseteq Nat \X Nat
    BY <1>2, <1>3, <2>5
  <2>7. SentSoFar(to, h)'
    <3>1. \A r \in 1..(c.sent + 1) : <<h, r>> \in saved'
      BY <1>1, <1>3, <2>5 DEF SentSoFar
    <3> QED  BY <1>1, <2>3, <2>4, <3>1 DEF SentSoFar
  <2>8. ASSUME h = Len(handling), ~overlap, ~tab'.error, ~unseen'
        PROVE  Lists(to, h)'
    <3>1. Lists(c, h)
      BY <1>1, <1>2, <2>8 DEF FormInv, LastOne
    <3>2. ASSUME c.form.then = "patch"
          PROVE  saved' = tab.list \cup {<<h, 1>>}
      <4>1. c.sent + 1 = 1
        BY <1>1, <1>3, <3>2 DEF SentSoFar, Ending
      <4> QED  BY <1>1, <2>5, <3>1, <3>2, <4>1 DEF Lists
    <3> QED  BY <1>2, <2>4, <3>2 DEF Lists
  <2> QED  BY <1>1, <1>2, <2>2, <2>3, <2>4, <2>6, <2>7, <2>8, FormGoes
<1> QED  BY <1>4, <1>5 DEF Serve

LEMMA FormAnswers == ASSUME FormInv, NEW h \in DOMAIN handling, Answer(h) PROVE FormInv'
<1>1. PICK c \in FormCall : c = handling[h] /\ SentSoFar(c, h) /\ c.at = "answer"
  BY FormDomain DEF FormInv, FormTypes, Answer
<1>2. UNCHANGED <<saved, overlap, unseen>> /\ h \in Nat \ {0} /\ saved \subseteq Nat \X Nat /\ tab \in Tab
  BY FormDomain DEF Answer, Shows, FormInv, FormTypes
<1>3. c.sent \in 1..2 /\ c.form \in Form /\ c.form.requests \in 0..2 /\ c.sent <= c.form.requests
  BY <1>1 DEF FormCall, Form, SentSoFar
<1>4. saved \subseteq saved' /\ saved' \subseteq Nat \X Nat
  BY <1>2
<1>5. CASE c.sent < c.form.requests
  <2>1. Moves(h, "request") /\ tab' = tab
    BY <1>1, <1>5 DEF Answer, Shows
  <2>2. PICK to \in FormCall : /\ handling' = [handling EXCEPT ![h] = to] /\ to.at = "request"
                               /\ to.form = c.form /\ to.sent = c.sent
    BY <1>1, <2>1, FormMoves
  <2>3. SentSoFar(to, h)' /\ c.sent <= to.sent
    BY <1>1, <1>2, <1>3, <1>5, <2>2 DEF SentSoFar
  <2>4. c.form.then # "patch"
    BY <1>1, <1>3, <1>5 DEF SentSoFar, Ending
  <2>5. Lists(to, h)'
    BY <2>2, <2>4 DEF Lists
  <2> QED  BY <1>1, <1>2, <1>4, <2>1, <2>2, <2>3, <2>5, FormGoes
<1>6. CASE c.sent = c.form.requests
  <2>1. PICK said : said = IF c.form.says THEN h ELSE tab.said
    OBVIOUS
  <2>2. PICK error : error = (tab.error \/ c.form.throws)
    OBVIOUS
  <2>3. PICK list : list = IF c.form.then = "patch" THEN tab.list \cup {<<h, 1>>} ELSE tab.list
    OBVIOUS
  <2>4. PICK where : where = IF c.form.throws \/ c.form.then # "load" THEN "done" ELSE "load"
    OBVIOUS
  <2>5. /\ tab' = [tab EXCEPT !.said = said, !.error = error, !.list = list]
        /\ Moves(h, where)
    BY <1>1, <1>3, <1>6, <2>1, <2>2, <2>3, <2>4 DEF Answer, Shows
  <2>6. said \in Nat /\ list \in SUBSET (Nat \X Nat)
    BY <1>2, <2>1, <2>3, FormDomain
  <2>7. error \in BOOLEAN
    BY <2>2, Zenon
  <2>8. tab' \in Tab /\ tab'.said = said /\ tab'.list = list /\ tab'.error = error
    BY <1>2, <2>5, <2>6, <2>7 DEF Tab
  <2>9. PICK to \in FormCall : /\ handling' = [handling EXCEPT ![h] = to] /\ to.at = where
                               /\ to.form = c.form /\ to.sent = c.sent
    BY <1>1, <2>4, <2>5, FormMoves
  <2>10. SentSoFar(to, h)' /\ c.sent <= to.sent
    BY <1>1, <1>2, <1>3, <1>6, <2>4, <2>9 DEF SentSoFar
  <2>11. tab.error => tab'.error
    BY <2>2, <2>8
  <2>12. tab'.said = tab.said \/ (tab'.said = h /\ to.sent = to.form.requests)
    BY <1>6, <2>1, <2>8, <2>9
  <2>13. ASSUME h = Len(handling), ~overlap, ~tab'.error, ~unseen'
         PROVE  Lists(to, h)'
    <3>1. ~tab.error /\ ~c.form.throws
      BY <2>2, <2>8, <2>13
    <3>2. Lists(c, h)
      BY <1>1, <1>2, <2>13, <3>1 DEF FormInv, LastOne
    <3>3. CASE c.form.then = "load"
      BY <2>4, <2>9, <3>1, <3>3 DEF Lists
    <3>4. CASE c.form.then = "patch"
      <4>1. saved = tab.list \cup {<<h, 1>>}
        BY <1>1, <3>2, <3>4 DEF Lists
      <4> QED  BY <1>2, <2>3, <2>4, <2>8, <2>9, <3>4, <4>1 DEF Lists
    <3>5. c.form.then \in {"load", "patch"}
      BY <1>1, <1>3, <3>1 DEF SentSoFar, Ending, Form
    <3> QED  BY <3>3, <3>4, <3>5
  <2>14. ~(to.sent < to.form.requests)
    BY <1>3, <1>6, <2>9
  <2> QED  BY <1>1, <1>2, <1>4, <2>8, <2>9, <2>10, <2>11, <2>12, <2>13, <2>14, FormGoes
<1> QED  BY <1>3, <1>5, <1>6

LEMMA FormMisses == ASSUME FormInv, NEW h \in DOMAIN handling, Refused(h) \/ NoAnswer(h) PROVE FormInv'
<1>1. tab \in Tab
  BY FormDomain
<1>2. CASE Refused(h)
  <2>1. tab' = [tab EXCEPT !.error = TRUE]
    BY <1>2 DEF Refused, Shows
  <2>2. tab' \in Tab /\ tab'.error /\ tab'.said = tab.said
    BY <1>1, <2>1 DEF Tab
  <2> QED  BY <1>2, <2>2, FormFails DEF Refused, Shows
<1>3. CASE NoAnswer(h)
  <2>1. PICK error : error = (tab.error \/ handling[h].form.catches)
    OBVIOUS
  <2>2. error \in BOOLEAN
    BY <2>1, Zenon
  <2>3. tab' = [tab EXCEPT !.error = error] /\ unseen' = (unseen \/ ~handling[h].form.catches)
    BY <1>3, <2>1 DEF NoAnswer, Shows
  <2>4. tab' \in Tab /\ tab'.error = error /\ tab'.said = tab.said
    BY <1>1, <2>2, <2>3 DEF Tab
  <2>5. (tab.error => tab'.error) /\ (unseen => unseen') /\ (tab'.error \/ unseen')
    BY <2>1, <2>3, <2>4
  <2> QED  BY <1>3, <2>4, <2>5, FormFails DEF NoAnswer, Shows
<1> QED  BY <1>2, <1>3

LEMMA FormLoads == ASSUME FormInv, NEW h \in DOMAIN handling, Read(h) \/ Loaded(h) PROVE FormInv'
<1>1. PICK c \in FormCall : c = handling[h] /\ SentSoFar(c, h) /\ c.at \in {"load", "loaded"}
  BY FormDomain DEF FormInv, FormTypes, Read, Loaded
<1>2. UNCHANGED <<saved, overlap, unseen>> /\ saved \subseteq Nat \X Nat /\ tab \in Tab
  BY FormDomain DEF Read, Loaded, Shows, FormInv, FormTypes
<1>3. c.sent \in 0..2 /\ c.form \in Form /\ c.form.requests \in 0..2 /\ c.sent = c.form.requests
  BY <1>1 DEF FormCall, Form, SentSoFar
<1>4. saved \subseteq saved' /\ saved' \subseteq Nat \X Nat
  BY <1>2
<1>5. CASE Read(h)
  <2>1. PICK to : to = [c EXCEPT !.at = "loaded", !.read = saved]
    OBVIOUS
  <2>2. handling' = [handling EXCEPT ![h] = to]
    <3>1. handling \in Seq(FormCall)
      BY DEF FormInv, FormTypes
    <3> QED  BY <1>1, <1>5, <2>1, <3>1, FormDomain DEF Read
  <2>3. to \in FormCall /\ to.at = "loaded" /\ to.form = c.form /\ to.sent = c.sent /\ to.read = saved
    BY <1>2, <2>1 DEF FormCall
  <2>4. tab' = tab
    BY <1>5 DEF Read
  <2>5. SentSoFar(to, h)' /\ c.sent <= to.sent
    BY <1>1, <1>2, <1>3, <2>3 DEF SentSoFar
  <2>6. Lists(to, h)'
    BY <1>2, <2>3 DEF Lists
  <2> QED  BY <1>1, <1>2, <1>4, <2>2, <2>3, <2>4, <2>5, <2>6, FormGoes
<1>6. CASE Loaded(h)
  <2>1. tab' = [tab EXCEPT !.list = c.read] /\ Moves(h, "done") /\ c.at = "loaded"
    BY <1>1, <1>6 DEF Loaded, Shows
  <2>2. tab' \in Tab /\ tab'.said = tab.said /\ tab'.error = tab.error /\ tab'.list = c.read
    BY <1>2, <2>1 DEF Tab, FormCall
  <2>3. PICK to \in FormCall : /\ handling' = [handling EXCEPT ![h] = to] /\ to.at = "done"
                               /\ to.form = c.form /\ to.sent = c.sent
    BY <1>1, <2>1, FormMoves
  <2>4. SentSoFar(to, h)' /\ c.sent <= to.sent
    BY <1>1, <1>2, <1>3, <2>3 DEF SentSoFar
  <2>5. ASSUME h = Len(handling), ~overlap, ~tab'.error, ~unseen'
        PROVE  Lists(to, h)'
    <3>1. Lists(c, h)
      BY <1>1, <1>2, <2>2, <2>5 DEF FormInv, LastOne
    <3> QED  BY <1>2, <2>1, <2>2, <2>3, <3>1 DEF Lists
  <2>6. ~(to.sent < to.form.requests)
    BY <1>3, <2>3
  <2> QED  BY <1>1, <1>2, <1>4, <2>2, <2>3, <2>4, <2>5, <2>6, FormGoes
<1> QED  BY <1>5, <1>6

LEMMA FormLoses == ASSUME FormInv, NEW h \in DOMAIN handling, LoadFails(h) PROVE FormInv'
<1>1. tab \in Tab /\ tab.list \in SUBSET (Nat \X Nat)
  BY FormDomain
<1>2. PICK how : /\ Shows([tab EXCEPT !.error = @ \/ how = "error", !.list = IF how = "empty" THEN {} ELSE @])
                 /\ unseen' = (unseen \/ how # "error")
  BY DEF LoadFails
<1>3. PICK error : error = (tab.error \/ how = "error")
  OBVIOUS
<1>4. PICK list : list = IF how = "empty" THEN {} ELSE tab.list
  OBVIOUS
<1>5. error \in BOOLEAN
  BY <1>3, Zenon
<1>6. tab' = [tab EXCEPT !.error = error, !.list = list] /\ list \in SUBSET (Nat \X Nat)
  BY <1>1, <1>2, <1>3, <1>4 DEF Shows
<1>7. tab' \in Tab /\ tab'.error = error /\ tab'.said = tab.said
  BY <1>1, <1>5, <1>6 DEF Tab
<1>8. (tab.error => tab'.error) /\ (unseen => unseen') /\ (tab'.error \/ unseen')
  BY <1>2, <1>3, <1>7
<1> QED  BY <1>2, <1>7, <1>8, FormFails DEF LoadFails, Shows

LEMMA FormInductive == FormInv /\ WebFormsNext => FormInv'
<1> SUFFICES ASSUME FormInv, WebFormsNext PROVE FormInv'
  OBVIOUS
<1>1. CASE \E form \in HandlersOf[tab.name] : SubmitForm(form)
  BY <1>1, FormSubmits
<1>2. CASE \E h \in DOMAIN handling : \/ Serve(h) \/ Answer(h) \/ Refused(h) \/ NoAnswer(h)
                                      \/ Read(h) \/ Loaded(h) \/ LoadFails(h)
  BY <1>2, FormServes, FormAnswers, FormMisses, FormLoads, FormLoses
<1> QED  BY <1>1, <1>2 DEF WebFormsNext

LEMMA FormMeans == FormInv => SaysWhatIsSaved
<1> SUFFICES ASSUME FormInv PROVE SaysWhatIsSaved
  OBVIOUS
<1>1. \A h \in DOMAIN handling : handling[h].sent = handling[h].form.requests => Complete(h)
  BY DEF FormInv, FormTypes, SentSoFar, Complete
<1>2. tab.said # 0 => Complete(tab.said)
  BY <1>1 DEF FormInv, Said
<1>3. PICK n \in Nat \ {0} : n = Len(handling) /\ n \in DOMAIN handling /\ handling[n] \in FormCall
  <2>1. DOMAIN handling = 1..Len(handling) /\ Len(handling) \in Nat \ {0}
    BY FormDomain
  <2>2. Len(handling) \in DOMAIN handling
    BY <2>1
  <2> QED  BY <2>1, <2>2, FormDomain
<1>4. ASSUME \A h \in DOMAIN handling : ~InProgress(h), ~unseen, ~tab.error
      PROVE  Complete(n) /\ (overlap \/ tab.list = saved)
  <2>1. handling[n].at = "done"
    BY <1>3, <1>4 DEF InProgress
  <2>2. ~(handling[n].sent < handling[n].form.requests)
    BY <1>3, <1>4, <2>1 DEF FormInv, LastOne
  <2>3. /\ handling[n].sent <= handling[n].form.requests /\ handling[n].sent \in 0..2
        /\ handling[n].form.requests \in 0..2
    BY <1>3 DEF FormInv, FormTypes, SentSoFar, FormCall, Form
  <2>4. Complete(n)
    BY <1>1, <1>3, <2>2, <2>3
  <2>5. overlap \/ Lists(handling[n], n)
    BY <1>3, <1>4 DEF FormInv, LastOne
  <2> QED  BY <2>1, <2>4, <2>5 DEF Lists
<1> QED  BY <1>2, <1>3, <1>4 DEF SaysWhatIsSaved

-----------------------------------------------------------------------------
(* The menu and what the API accepts.                                      *)
Session == [roles : SUBSET UserRoles, number : Nat]
MeAnswer == [at : {"none", "asked", "answered"}, told : Session]

LEMMA NavRoles ==
  /\ Admins = {"SCHOOL_ADMIN", "PLATFORM_ADMIN"} /\ Staff = {"SCHOOL_ADMIN", "PLATFORM_ADMIN", "TEACHER"}
  /\ Learners = {"SCHOOL_ADMIN", "PLATFORM_ADMIN", "TEACHER", "STUDENT", "PARENT"}
  /\ UserRoles = {"SCHOOL_ADMIN", "PLATFORM_ADMIN", "TEACHER", "STUDENT", "PARENT", "GUIDANCE"}
  BY DEF Admins, Staff, Learners, UserRoles

(* The roles of the routes that the pages use.                             *)
LEMMA NavTable ==
  /\ \A r \in {"me", "assignments", "announcements", "events", "markAnnouncement",
             "ownReports", "submitReport"} :
        <<r, Anyone>> \in RouteRoles
  /\ \A r \in {"administrationOverview", "createRecord", "users", "userStatus", "invite", "overview",
               "schoolReport", "settings", "updateSchool", "setFeatureFlag"} : <<r, Admins>> \in RouteRoles
  /\ \A r \in {"classes", "createAssignment", "updateAssignment", "publishAssignment", "assignmentFile",
               "feedback", "recordDaily", "attendance", "correctAttendance", "manageableStudents", "createNote",
               "createAnnouncement", "publishAnnouncement", "createEvent"} : <<r, Staff>> \in RouteRoles
  /\ \A r \in {"submissions", "signFile", "evaluations"} : <<r, Learners>> \in RouteRoles
  /\ \A r \in {"conversations", "send", "markConversation", "archiveConversation",
             "report", "signMessageFile"} :
        <<r, {"PARENT", "TEACHER"}>> \in RouteRoles
  /\ \A r \in {"childrenAttendance", "acknowledgeNote", "contacts", "createConversation", "parentDashboard"} :
        <<r, {"PARENT"}>> \in RouteRoles
  /\ \A r \in {"submit", "submissionFile", "ownAttendance"} : <<r, {"STUDENT"}>> \in RouteRoles
  /\ <<"assignedClass", {"TEACHER"}>> \in RouteRoles
  /\ \A r \in {"intakeReports", "updateReport", "cases", "createCase", "updateCase"} :
        <<r, {"GUIDANCE"}>> \in RouteRoles
<1> DEFINE Has(routes, roles) == \A r \in routes : <<r, roles>> \in RouteRoles
<1>1. ASSUME NEW routes, NEW roles, To(routes, roles) \subseteq RouteRoles
      PROVE  Has(routes, roles)
  BY <1>1 DEF To
<1>2. /\ To({"me"}, Anyone) \subseteq RouteRoles /\ To({"users", "userStatus"}, Admins) \subseteq RouteRoles
      /\ To({"invite"}, Admins) \subseteq RouteRoles
  BY DEF RouteRoles, AuthRoutes, SchoolRoutes
<1>3. /\ To({"administrationOverview", "createRecord"}, Admins) \subseteq RouteRoles
      /\ To({"classes"}, Staff) \subseteq RouteRoles /\ To({"assignedClass"}, {"TEACHER"}) \subseteq RouteRoles
  BY DEF RouteRoles, StructureRoutes
<1>4. /\ To({"assignments"}, Anyone) \subseteq RouteRoles
      /\ To({"createAssignment", "updateAssignment", "publishAssignment", "assignmentFile", "feedback"}, Staff)
            \subseteq RouteRoles
      /\ To({"submit", "submissionFile"}, {"STUDENT"}) \subseteq RouteRoles
      /\ To({"submissions", "signFile"}, Learners) \subseteq RouteRoles
  BY DEF RouteRoles, AssignmentRoutes
<1>5. /\ To({"recordDaily", "attendance", "correctAttendance", "attendanceHistory"}, Staff) \subseteq RouteRoles
      /\ To({"ownAttendance"}, {"STUDENT"}) \subseteq RouteRoles
      /\ To({"childrenAttendance"}, {"PARENT"}) \subseteq RouteRoles
  BY DEF RouteRoles, AttendanceRoutes
<1>6. /\ To({"evaluations", "evaluationSummary"}, Learners) \subseteq RouteRoles
      /\ To({"manageableStudents", "createNote", "updateNote", "noteHistory"}, Staff) \subseteq RouteRoles
      /\ To({"acknowledgeNote"}, {"PARENT"}) \subseteq RouteRoles
  BY DEF RouteRoles, EvaluationRoutes
<1>7. /\ To({"conversations", "send", "markConversation", "archiveConversation", "report", "signMessageFile"},
            {"PARENT", "TEACHER"}) \subseteq RouteRoles
      /\ To({"contacts", "createConversation"}, {"PARENT"}) \subseteq RouteRoles
  BY DEF RouteRoles, MessagingRoutes
<1>8. /\ To({"announcements", "events", "markAnnouncement"}, Anyone) \subseteq RouteRoles
      /\ To({"createAnnouncement", "publishAnnouncement", "createEvent"}, Staff) \subseteq RouteRoles
  BY DEF RouteRoles, CommunicationRoutes
<1>9. /\ To({"ownReports", "submitReport"}, Anyone) \subseteq RouteRoles
      /\ To({"intakeReports", "updateReport", "signEvidence"}, {"GUIDANCE"}) \subseteq RouteRoles
      /\ To({"cases", "createCase", "updateCase"}, {"GUIDANCE"}) \subseteq RouteRoles
  BY DEF RouteRoles, SafetyRoutes, GuidanceRoutes
<1>10. /\ To({"overview", "schoolReport"}, Admins) \subseteq RouteRoles
       /\ To({"parentDashboard"}, {"PARENT"}) \subseteq RouteRoles
       /\ To({"settings", "updateSchool", "setFeatureFlag"}, Admins) \subseteq RouteRoles
  BY DEF RouteRoles, ReportRoutes, ParentRoutes, SettingsRoutes
<1>a. /\ Has({"me"}, Anyone) /\ Has({"assignments"}, Anyone)
      /\ Has({"announcements", "events", "markAnnouncement"}, Anyone)
      /\ Has({"ownReports", "submitReport"}, Anyone)
  BY <1>1, <1>2, <1>4, <1>8, <1>9
<1>b. /\ Has({"users", "userStatus"}, Admins) /\ Has({"invite"}, Admins)
      /\ Has({"overview", "schoolReport"}, Admins)
      /\ Has({"administrationOverview", "createRecord"}, Admins)
      /\ Has({"settings", "updateSchool", "setFeatureFlag"}, Admins)
  BY <1>1, <1>2, <1>3, <1>10
<1>c. /\ Has({"classes"}, Staff)
      /\ Has({"createAssignment", "updateAssignment", "publishAssignment", "assignmentFile", "feedback"}, Staff)
      /\ Has({"recordDaily", "attendance", "correctAttendance", "attendanceHistory"}, Staff)
      /\ Has({"manageableStudents", "createNote", "updateNote", "noteHistory"}, Staff)
      /\ Has({"createAnnouncement", "publishAnnouncement", "createEvent"}, Staff)
  BY <1>1, <1>3, <1>4, <1>5, <1>6, <1>8
<1>d. Has({"submissions", "signFile"}, Learners) /\ Has({"evaluations", "evaluationSummary"}, Learners)
  BY <1>1, <1>4, <1>6
<1>e. Has({"conversations", "send", "markConversation", "archiveConversation", "report", "signMessageFile"},
          {"PARENT", "TEACHER"})
  BY <1>1, <1>7
<1>f. /\ Has({"childrenAttendance"}, {"PARENT"}) /\ Has({"acknowledgeNote"}, {"PARENT"})
      /\ Has({"contacts", "createConversation"}, {"PARENT"}) /\ Has({"parentDashboard"}, {"PARENT"})
  BY <1>1, <1>5, <1>6, <1>7, <1>10
<1>g. /\ Has({"submit", "submissionFile"}, {"STUDENT"}) /\ Has({"ownAttendance"}, {"STUDENT"})
      /\ Has({"assignedClass"}, {"TEACHER"})
      /\ Has({"intakeReports", "updateReport", "signEvidence"}, {"GUIDANCE"})
      /\ Has({"cases", "createCase", "updateCase"}, {"GUIDANCE"})
  BY <1>1, <1>3, <1>4, <1>5, <1>9
<1> QED  BY <1>a, <1>b, <1>c, <1>d, <1>e, <1>f, <1>g

LEMMA NavPermits ==
  ASSUME NEW roles, NEW r, NEW set, <<r, set>> \in RouteRoles, roles # {}, set = Anyone \/ set \cap roles # {}
  PROVE  Permits(r, roles)
<1>1. PICK e \in RouteRoles : e = <<r, set>>
  OBVIOUS
<1>2. e[1] = r /\ e[2] = set
  BY <1>1
<1> QED  BY <1>1, <1>2 DEF Permits

LEMMA NavOpen ==
  ASSUME NEW roles, roles # {}
  PROVE  \A r \in {"me", "assignments", "announcements", "events", "markAnnouncement",
                 "ownReports", "submitReport"} :
            Permits(r, roles)
  BY NavTable, NavPermits
LEMMA NavAdmins ==
  ASSUME NEW roles, roles \cap Admins # {}
  PROVE  \A r \in {"administrationOverview", "createRecord", "users", "userStatus", "invite", "overview",
                   "schoolReport", "settings", "updateSchool", "setFeatureFlag"} : Permits(r, roles)
  BY NavTable, NavPermits
LEMMA NavStaff ==
  ASSUME NEW roles, roles \cap Staff # {}
  PROVE  \A r \in {"classes", "createAssignment", "updateAssignment", "publishAssignment", "assignmentFile",
                   "feedback", "recordDaily", "attendance", "correctAttendance", "manageableStudents",
                    "createNote",
                   "createAnnouncement", "publishAnnouncement", "createEvent"} : Permits(r, roles)
  BY NavTable, NavPermits
LEMMA NavLearners ==
  ASSUME NEW roles, roles \cap Learners # {}
  PROVE  \A r \in {"submissions", "signFile", "evaluations"} : Permits(r, roles)
  BY NavTable, NavPermits
LEMMA NavTalkers ==
  ASSUME NEW roles, roles \cap {"PARENT", "TEACHER"} # {}
  PROVE  \A r \in {"conversations", "send", "markConversation", "archiveConversation",
                 "report", "signMessageFile"} :
            Permits(r, roles)
  BY NavTable, NavPermits
LEMMA NavOthers ==
  ASSUME NEW roles
  PROVE  /\ "PARENT" \in roles => \A r \in {"childrenAttendance", "acknowledgeNote",
                    "contacts", "createConversation",
                                            "parentDashboard"} : Permits(r, roles)
         /\ "STUDENT" \in roles => \A r \in {"submit", "submissionFile", "ownAttendance"} : Permits(r, roles)
         /\ "TEACHER" \in roles => Permits("assignedClass", roles)
         /\ "GUIDANCE" \in roles => \A r \in {"intakeReports", "updateReport",
                    "cases", "createCase", "updateCase"} :
                                       Permits(r, roles)
<1>1. ASSUME "PARENT" \in roles
      PROVE  \A r \in {"childrenAttendance", "acknowledgeNote", "contacts", "createConversation",
                       "parentDashboard"} : Permits(r, roles)
  <2>1. roles # {} /\ {"PARENT"} \cap roles # {}
    BY <1>1
  <2> QED  BY <2>1, NavTable, NavPermits
<1>2. ASSUME "STUDENT" \in roles
      PROVE  \A r \in {"submit", "submissionFile", "ownAttendance"} : Permits(r, roles)
  <2>1. roles # {} /\ {"STUDENT"} \cap roles # {}
    BY <1>2
  <2> QED  BY <2>1, NavTable, NavPermits
<1>3. ASSUME "TEACHER" \in roles
      PROVE  Permits("assignedClass", roles)
  <2>1. roles # {} /\ {"TEACHER"} \cap roles # {}
    BY <1>3
  <2> QED  BY <2>1, NavTable, NavPermits
<1>4. ASSUME "GUIDANCE" \in roles
      PROVE  \A r \in {"intakeReports", "updateReport", "cases", "createCase", "updateCase"} : Permits(r, roles)
  <2>1. roles # {} /\ {"GUIDANCE"} \cap roles # {}
    BY <1>4
  <2> QED  BY <2>1, NavTable, NavPermits
<1> QED  BY <1>1, <1>2, <1>3, <1>4

LEMMA NavTasks == \A role \in UserRoles : \A p \in TasksOf(role) : p \in Links({role})
<1>1. \A role \in {"STUDENT", "TEACHER"} :
                    TasksOf(role) = {"assignments", "communications", "attendance", "progress"}
  BY DEF TasksOf
<1>2. /\ TasksOf("PARENT") = {"assignments", "communications", "parent", "progress"}
      /\ TasksOf("GUIDANCE") = {"communications"}
      /\ TasksOf("SCHOOL_ADMIN") = {"structure", "assignments", "communications", "attendance", "progress"}
      /\ TasksOf("PLATFORM_ADMIN") = {"structure", "assignments", "progress"}
  BY DEF TasksOf
<1>3. \A p, role : p \in DOMAIN LinkRoles /\ role \in LinkRoles[p] => p \in Links({role})
  BY DEF Links
<1>4. /\ LinkRoles.assignments = Learners /\ LinkRoles.attendance = Learners /\ LinkRoles.progress = Learners
      /\ LinkRoles.communications = UserRoles /\ LinkRoles.parent = {"PARENT"} /\ LinkRoles.structure = Admins
      /\ {"assignments", "attendance", "progress", "communications", "parent", "structure"}
          \subseteq DOMAIN LinkRoles
  BY DEF LinkRoles
<1> QED  BY <1>1, <1>2, <1>3, <1>4, NavRoles

(* A page that is linked asks for nothing that is refused, whether it has  *)
(* been told the roles or not yet.                                         *)
LEMMA NavAccepted ==
  ASSUME NEW roles \in SUBSET UserRoles, NEW p \in Links(roles), NEW known, known = {} \/ known = roles
  PROVE  \A r \in RoutesOf(p, known) : Permits(r, roles)
<1>1. p \in DOMAIN LinkRoles /\ LinkRoles[p] \cap roles # {} /\ roles # {}
  BY DEF Links
<1>2. p \in {"workspace", "assignments", "attendance", "progress", "messages", "safety", "intake", "cases",
             "parent", "communications", "structure", "admin"}
  BY <1>1 DEF LinkRoles
<1>3. Permits("me", roles)
  BY <1>1, NavOpen
<1>4. CASE p = "workspace"
  BY <1>3, <1>4 DEF RoutesOf
<1>5. CASE p = "assignments"
  <2>1. \A r \in AssignmentsPage(known) : Permits(r, roles)
    <3>1. Permits("assignments", roles)
      BY <1>1, NavOpen
    <3>2. \A r \in When(known \cap Learners # {}, {"signFile"}) : Permits(r, roles)
      BY NavLearners DEF When
    <3>3. \A r \in When(known \cap Staff # {},
                       {"classes", "createAssignment", "updateAssignment", "publishAssignment",
                        "assignmentFile", "submissions", "feedback"}) : Permits(r, roles)
      <4>1. roles \cap Staff # {} => roles \cap Learners # {}
        BY NavRoles
      <4> QED  BY <4>1, NavStaff, NavLearners DEF When
    <3>4. \A r \in When("STUDENT" \in known, {"submit", "submissionFile"}) : Permits(r, roles)
      BY NavOthers DEF When
    <3> QED  BY <3>1, <3>2, <3>3, <3>4 DEF AssignmentsPage
  <2>2. RoutesOf(p, known) = {"me"} \cup AssignmentsPage(known)
    BY <1>5 DEF RoutesOf
  <2> QED  BY <1>3, <2>1, <2>2
<1>6. CASE p = "attendance"
  <2>1. "TEACHER" \in roles => roles \cap Staff # {}
    BY NavRoles
  <2>2. \A r \in AttendanceRoutesUsed(known) : Permits(r, roles)
    BY <1>1, <2>1, NavStaff, NavOthers DEF AttendanceRoutesUsed, When
  <2>3. RoutesOf(p, known) = {"me"} \cup AttendanceRoutesUsed(known)
    BY <1>6 DEF RoutesOf
  <2> QED  BY <1>3, <2>2, <2>3
<1>7. CASE p = "progress"
  <2>1. roles \cap Learners # {}
    BY <1>1, <1>7 DEF LinkRoles
  <2>2. \A r \in ProgressPage(known) : Permits(r, roles)
    BY <1>1, <2>1, NavStaff, NavLearners, NavOthers DEF ProgressPage, When
  <2>3. RoutesOf(p, known) = {"me"} \cup ProgressPage(known)
    BY <1>7 DEF RoutesOf
  <2> QED  BY <1>3, <2>2, <2>3
<1>8. CASE p = "messages"
  <2>1. roles \cap {"PARENT", "TEACHER"} # {}
    BY <1>1, <1>8 DEF LinkRoles
  <2>2. \A r \in MessagesPage(known) : Permits(r, roles)
    BY <1>1, <2>1, NavTalkers, NavOthers DEF MessagesPage, When
  <2>3. RoutesOf(p, known) = {"me"} \cup MessagesPage(known)
    BY <1>8 DEF RoutesOf
  <2> QED  BY <1>3, <2>2, <2>3
<1>9. CASE p = "safety"
  <2>1. RoutesOf(p, known) = {"me"} \cup SafetyPage
    BY <1>9 DEF RoutesOf
  <2> QED  BY <1>1, <2>1, NavOpen DEF SafetyPage
<1>10. CASE p = "intake"
  <2>1. "GUIDANCE" \in roles
    BY <1>1, <1>10 DEF LinkRoles
  <2>2. RoutesOf(p, known) = {"me"} \cup IntakePage
    BY <1>10 DEF RoutesOf
  <2> QED  BY <1>3, <2>1, <2>2, NavOthers DEF IntakePage
<1>11. CASE p = "cases"
  <2>1. "GUIDANCE" \in roles
    BY <1>1, <1>11 DEF LinkRoles
  <2>2. RoutesOf(p, known) = {"me"} \cup CasesPage
    BY <1>11 DEF RoutesOf
  <2> QED  BY <1>3, <2>1, <2>2, NavOthers DEF CasesPage
<1>12. CASE p = "parent"
  <2>1. "PARENT" \in roles
    BY <1>1, <1>12 DEF LinkRoles
  <2>2. RoutesOf(p, known) = {"me"} \cup ParentPage
    BY <1>12 DEF RoutesOf
  <2> QED  BY <1>3, <2>1, <2>2, NavOthers DEF ParentPage
<1>13. CASE p = "communications"
  <2>1. "TEACHER" \in roles => roles \cap Staff # {}
    BY NavRoles
  <2>2. \A r \in CommunicationsPage(known) : Permits(r, roles)
    BY <1>1, <2>1, NavOpen, NavStaff, NavAdmins DEF CommunicationsPage, When
  <2>3. RoutesOf(p, known) = {"me"} \cup CommunicationsPage(known)
    BY <1>13 DEF RoutesOf
  <2> QED  BY <1>3, <2>2, <2>3
<1>14. CASE p = "structure"
  <2>1. roles \cap Admins # {}
    BY <1>1, <1>14 DEF LinkRoles
  <2>2. RoutesOf(p, known) = {"me"} \cup StructurePage
    BY <1>14 DEF RoutesOf
  <2> QED  BY <1>3, <2>1, <2>2, NavAdmins DEF StructurePage
<1>15. CASE p = "admin"
  <2>1. roles \cap Admins # {}
    BY <1>1, <1>15 DEF LinkRoles
  <2>2. RoutesOf(p, known) = {"me"} \cup AdminPage
    BY <1>15 DEF RoutesOf
  <2> QED  BY <1>3, <2>1, <2>2, NavAdmins DEF AdminPage
<1> QED  BY <1>2, <1>4, <1>5, <1>6, <1>7, <1>8, <1>9, <1>10, <1>11, <1>12, <1>13, <1>14, <1>15

(* What of a session is remembered somewhere.                              *)
Knows(s) ==
    /\ s \in Session /\ s.number <= session.number
    /\ s.number = session.number => s = session
    /\ s.number = 0 => s = Nobody

NavKnown ==
    /\ session \in Session /\ Knows(session) /\ Knows(menu) /\ Knows(learned) /\ Knows(cache)
    /\ asked \in [{"menu", "page"} -> MeAnswer] /\ \A who \in {"menu", "page"} : Knows(asked[who].told)

(* A link made for the present session is one of its menu.                 *)
NavPlace ==
    /\ place.via \in Nat /\ place.via <= session.number
    /\ place.via = session.number /\ place.via # 0 => place.page \in Links(session.roles)
    /\ place.page = "auth" => place.via = 0

(* Nothing that signing out removes comes back.                            *)
NavGone ==
    /\ ~otherwise /\ (leaving \/ place.page = "auth") => cache = Nobody
    /\ leaving => place.page # "auth"
    /\ place.page = "auth" => \A who \in {"menu", "page"} : asked[who].at = "none"

NavInv == NavKnown /\ NavPlace /\ NavGone

LEMMA NavNobody == Nobody \in Session /\ Nobody.number = 0 /\ Nobody.roles = {}
  BY DEF Nobody, Session

LEMMA NavPages == \A roles : \A p \in Links(roles) : p # "auth"
  BY DEF Links, LinkRoles

LEMMA NavSilence ==
  /\ Silence \in [{"menu", "page"} -> MeAnswer]
  /\ \A who \in {"menu", "page"} : Silence[who].at = "none" /\ Silence[who].told = Nobody
  BY NavNobody DEF Silence, MeAnswer

LEMMA NavStarts == NavigationInit => NavInv
<1> SUFFICES ASSUME NavigationInit PROVE NavInv
  OBVIOUS
<1>1. /\ session = Nobody /\ place = [page |-> "auth", via |-> 0] /\ menu = Nobody /\ learned = Nobody
      /\ cache = Nobody /\ asked = Silence /\ leaving = FALSE /\ otherwise = FALSE
  BY DEF NavigationInit
<1>2. place.page = "auth" /\ place.via = 0
  BY <1>1
<1>3. NavKnown
  BY <1>1, NavNobody, NavSilence DEF NavKnown, Knows
<1>4. NavPlace /\ NavGone
  BY <1>1, <1>2, NavNobody, NavSilence DEF NavPlace, NavGone
<1> QED  BY <1>3, <1>4 DEF NavInv

(* The session changes: what is remembered is of an older one.             *)
LEMMA NavNew ==
  ASSUME NavInv, NEW roles \in SUBSET UserRoles, NewSession(roles)
  PROVE  /\ session' \in Session /\ session'.roles = roles /\ session'.number = session.number + 1
         /\ session.number \in Nat /\ Knows(session)' /\ \A s : Knows(s) => Knows(s)'
<1>1. PICK next : next = [roles |-> roles, number |-> session.number + 1]
  OBVIOUS
<1>2. session \in Session /\ session.number \in Nat
  BY DEF NavInv, NavKnown, Session
<1>3. next \in Session /\ next.roles = roles /\ next.number = session.number + 1
  BY <1>1, <1>2 DEF Session
<1>4. session' = next
  BY <1>1 DEF NewSession
<1>5. Knows(session)'
  BY <1>2, <1>3, <1>4 DEF Knows
<1>6. ASSUME NEW s, Knows(s)
      PROVE  Knows(s)'
  BY <1>2, <1>3, <1>4, <1>6 DEF Knows, Session
<1> QED  BY <1>2, <1>3, <1>4, <1>5, <1>6

(* A page opens by a link: its menu is that of the cache, nothing is told. *)
LEMMA NavOpens ==
  ASSUME NavInv, NEW p, NEW via \in Nat, Opens(p, via), p # "auth",
         session' \in Session, Knows(session)', \A s : Knows(s) => Knows(s)', via <= session'.number,
         via = session'.number /\ via # 0 => p \in Links(session'.roles),
             UNCHANGED <<cache, leaving, otherwise>>
  PROVE  NavInv'
<1>1. PICK silent : silent = [at |-> "asked", told |-> Nobody]
  OBVIOUS
<1>2. silent \in MeAnswer /\ silent.told = Nobody
  BY <1>1, NavNobody DEF MeAnswer
<1>3. /\ place' = [page |-> p, via |-> via] /\ menu' = cache /\ learned' = Nobody
      /\ asked' = [who \in {"menu", "page"} |-> silent]
  BY <1>1 DEF Opens
<1>4. place'.page = p /\ place'.via = via
  BY <1>3
<1>5. Knows(Nobody)' /\ Knows(cache)'
  <2>1. Knows(Nobody)'
    BY NavNobody DEF Knows, Session
  <2>2. PICK c : c = cache /\ Knows(c)
    BY DEF NavInv, NavKnown
  <2> QED  BY <2>1, <2>2 DEF Knows
<1>6. NavKnown'
  BY <1>2, <1>3, <1>5 DEF NavKnown, Knows
<1>7. NavPlace'
  BY <1>4 DEF NavPlace
<1>8. NavGone'
  BY <1>4 DEF NavInv, NavGone
<1> QED  BY <1>6, <1>7, <1>8 DEF NavInv

LEMMA NavSignsIn == ASSUME NavInv, NEW roles \in RoleSets, SignIn(roles) PROVE NavInv'
<1>1. roles \in SUBSET UserRoles /\ roles # {}
  BY NavigationBounds
<1>2. "workspace" \in Links(roles)
  <2>1. "workspace" \in DOMAIN LinkRoles /\ LinkRoles["workspace"] = UserRoles
    BY DEF LinkRoles
  <2> QED  BY <1>1, <2>1 DEF Links
<1>3. PICK via : via = session.number + 1
  OBVIOUS
<1>4. NewSession(roles) /\ Opens("workspace", via) /\ UNCHANGED <<cache, leaving, otherwise>>
  BY <1>3 DEF SignIn
<1>5. /\ session' \in Session /\ session'.roles = roles /\ session'.number = via /\ via \in Nat
      /\ Knows(session)' /\ \A s : Knows(s) => Knows(s)'
  BY <1>1, <1>3, <1>4, NavNew
<1> QED  BY <1>2, <1>4, <1>5, NavOpens

LEMMA NavFollows == ASSUME NavInv, NEW p, Follow(p) PROVE NavInv'
<1>1. /\ UNCHANGED <<session, cache, leaving, otherwise>> /\ session \in Session /\ Knows(session)
      /\ Knows(menu) /\ Knows(learned)
  BY DEF Follow, NavInv, NavKnown
<1>2. PICK s : /\ Knows(s) /\ p \in Links(s.roles) /\ Opens(p, s.number)
  <2>1. CASE p \in Links(menu.roles) /\ Opens(p, menu.number)
    BY <1>1, <2>1
  <2>2. CASE (\E role \in learned.roles : p \in TasksOf(role)) /\ Opens(p, learned.number)
    <3>1. PICK role \in learned.roles : p \in TasksOf(role)
      BY <2>2
    <3>2. role \in UserRoles
      BY <1>1 DEF Knows, Session
    <3>3. p \in Links({role})
      BY <3>1, <3>2, NavTasks
    <3>4. p \in Links(learned.roles)
      BY <3>1, <3>3 DEF Links
    <3> QED  BY <1>1, <2>2, <3>4
  <2> QED  BY <2>1, <2>2 DEF Follow
<1>3. p # "auth"
  BY <1>2, NavPages
<1>4. s.number \in Nat /\ s.number <= session.number
  BY <1>2 DEF Knows, Session
<1>5. s.number = session.number => p \in Links(session.roles)
  BY <1>2 DEF Knows
<1>6. session' \in Session /\ Knows(session)' /\ session' = session
  BY <1>1 DEF Knows
<1>7. ASSUME NEW o, Knows(o)
      PROVE  Knows(o)'
  BY <1>1, <1>7 DEF Knows
<1> QED  BY <1>1, <1>2, <1>3, <1>4, <1>5, <1>6, <1>7, NavOpens

(* The session and what is shown stay; some are told something.            *)
LEMMA NavTold ==
  ASSUME NavInv, UNCHANGED <<session, place, leaving>>, NEW m, NEW l, NEW c,
         menu' = m, learned' = l, cache' = c, Knows(m), Knows(l), Knows(c),
         NEW who \in {"menu", "page"}, NEW to \in MeAnswer, asked' = [asked EXCEPT ![who] = to], Knows(to.told),
         place.page = "auth" => to.at = "none",
         ~otherwise' /\ (leaving \/ place.page = "auth") => ~otherwise /\ (c = cache \/ c = Nobody)
  PROVE  NavInv'
<1>1. asked \in [{"menu", "page"} -> MeAnswer]
  BY DEF NavInv, NavKnown
<1>2. /\ asked' \in [{"menu", "page"} -> MeAnswer] /\ asked'[who] = to
      /\ \A o \in {"menu", "page"} : o # who => asked'[o] = asked[o]
  BY <1>1
<1>3. ASSUME NEW s, Knows(s)
      PROVE  Knows(s)'
  BY <1>3 DEF Knows
<1>4. ASSUME NEW o \in {"menu", "page"}
      PROVE  Knows(asked[o].told)'
  <2>1. PICK t : t = asked'[o].told
    OBVIOUS
  <2>2. Knows(t)
    BY <1>2, <2>1 DEF NavInv, NavKnown
  <2>3. Knows(t)'
    BY <1>3, <2>2
  <2> QED  BY <2>1, <2>3 DEF Knows
<1>5. NavKnown'
  <2>1. Knows(session)' /\ Knows(m)' /\ Knows(l)' /\ Knows(c)'
    <3>1. PICK s : s = session /\ Knows(s)
      BY DEF NavInv, NavKnown
    <3>2. Knows(s)'
      BY <1>3, <3>1
    <3>3. Knows(session)'
      BY <3>1, <3>2 DEF Knows
    <3> QED  BY <1>3, <3>3
  <2> QED  BY <1>2, <1>4, <2>1 DEF NavInv, NavKnown, Knows
<1>6. NavPlace'
  BY DEF NavInv, NavPlace
<1>7. NavGone'
  BY <1>2 DEF NavInv, NavGone
<1> QED  BY <1>5, <1>6, <1>7 DEF NavInv

LEMMA NavHears ==
  ASSUME NavInv, NEW who \in {"menu", "page"}, Me(who) \/ Hear(who) \/ NotHeard(who)
  PROVE  NavInv'
<1>1. /\ Knows(session) /\ Knows(menu) /\ Knows(learned) /\ Knows(cache) /\ Knows(asked[who].told)
      /\ asked \in [{"menu", "page"} -> MeAnswer] /\ asked[who] \in MeAnswer
  BY DEF NavInv, NavKnown
<1>2. Knows(Nobody)
  <2>1. session.number \in Nat /\ (session.number = 0 => session = Nobody)
    BY DEF NavInv, NavKnown, Knows, Session
  <2> QED  BY <2>1, NavNobody DEF Knows
<1>3. PICK a \in MeAnswer : a = asked[who]
  BY <1>1
<1>4. place.page = "auth" => a.at = "none" /\ ~leaving
  BY <1>3 DEF NavInv, NavGone
<1>5. CASE Me(who)
  <2>1. PICK to : to = [at |-> "answered", told |-> session]
    OBVIOUS
  <2>2. to \in MeAnswer /\ to.told = session
    BY <1>1, <2>1 DEF MeAnswer, Knows
  <2>3. /\ asked' = [asked EXCEPT ![who] = to]
        /\ UNCHANGED <<session, place, menu, learned, cache, leaving, otherwise>>
        /\ a.at = "asked"
    BY <1>3, <1>5, <2>1 DEF Me, told
  <2>4. Knows(to.told)
    BY <1>1, <2>2
  <2> QED  BY <1>1, <1>4, <2>2, <2>3, <2>4, NavTold
<1>6. PICK none : none = [a EXCEPT !.at = "none"]
  OBVIOUS
<1>7. none \in MeAnswer /\ none.at = "none" /\ none.told = a.told /\ Knows(none.told)
  BY <1>1, <1>3, <1>6 DEF MeAnswer
<1>8. Hear(who) \/ NotHeard(who) => asked' = [asked EXCEPT ![who] = none]
  BY <1>3, <1>6 DEF Hear, NotHeard
<1>9. CASE Hear(who)
  <2>1. /\ UNCHANGED <<session, place, leaving>> /\ otherwise' = (otherwise \/ leaving) /\ a.at = "answered"
    BY <1>3, <1>9 DEF Hear
  <2>2. CASE who = "menu"
    <3>1. menu' = a.told /\ cache' = a.told /\ learned' = learned
      BY <1>3, <1>9, <2>2 DEF Hear
    <3>2. place.page # "auth"
      BY <1>4, <2>1
    <3> QED  BY <1>1, <1>3, <1>7, <1>8, <1>9, <2>1, <3>1, <3>2, NavTold
  <2>3. CASE who = "page"
    <3>1. learned' = a.told /\ menu' = menu /\ cache' = cache
      BY <1>3, <1>9, <2>3 DEF Hear
    <3> QED  BY <1>1, <1>3, <1>7, <1>8, <1>9, <2>1, <3>1, NavTold
  <2> QED  BY <2>2, <2>3
<1>10. CASE NotHeard(who)
  <2>1. UNCHANGED <<session, place, learned, leaving, otherwise>>
    BY <1>10 DEF NotHeard
  <2>2. PICK m, c : /\ menu' = m /\ cache' = c /\ (m = menu \/ m = Nobody) /\ (c = cache \/ c = Nobody)
    BY <1>10 DEF NotHeard
  <2>3. Knows(m) /\ Knows(c)
    BY <1>1, <1>2, <2>2
  <2> QED  BY <1>1, <1>7, <1>8, <1>10, <2>1, <2>2, <2>3, NavTold
<1> QED  BY <1>5, <1>9, <1>10

LEMMA NavChanges == ASSUME NavInv,
         NEW roles \in SUBSET UserRoles, SessionChanges(roles) \/ (roles = {} /\ SignOut)
                    PROVE  NavInv'
<1>1. NewSession(roles) /\ UNCHANGED <<place, menu, learned, asked, otherwise>>
  BY DEF SessionChanges, SignOut, told
<1>2. /\ session' \in Session /\ session'.number = session.number + 1 /\ session.number \in Nat
      /\ Knows(session)' /\ \A s : Knows(s) => Knows(s)'
  BY <1>1, NavNew
<1>3. cache' = cache \/ cache' = Nobody
  BY DEF SessionChanges, SignOut, told
<1>4. Knows(Nobody)'
  BY <1>2, NavNobody DEF Knows, Session
<1>5. PICK m, l, c : m = menu' /\ l = learned' /\ c = cache'
  OBVIOUS
<1>6. Knows(m)' /\ Knows(l)' /\ Knows(c)'
  BY <1>1, <1>2, <1>3, <1>4, <1>5 DEF NavInv, NavKnown
<1>7. ASSUME NEW who \in {"menu", "page"}
      PROVE  Knows(asked[who].told)'
  <2>1. PICK t : t = asked[who].told /\ Knows(t)
    BY DEF NavInv, NavKnown
  <2>2. Knows(t)'
    BY <1>2, <2>1
  <2> QED  BY <1>1, <2>1, <2>2 DEF Knows
<1>8. NavKnown'
  BY <1>1, <1>2, <1>5, <1>6, <1>7 DEF NavInv, NavKnown, Knows
<1>9. NavPlace'
  BY <1>1, <1>2 DEF NavInv, NavPlace
<1>10. NavGone'
  <2>1. CASE SessionChanges(roles)
    BY <1>1, <2>1 DEF SessionChanges, told, NavInv, NavGone
  <2>2. CASE SignOut
    BY <1>1, <2>2 DEF SignOut, NavInv, NavGone
  <2> QED  BY <2>1, <2>2
<1> QED  BY <1>8, <1>9, <1>10 DEF NavInv

LEMMA NavLeaves == ASSUME NavInv, Left \/ GoToAuth PROVE NavInv'
<1>1. /\ place' = [page |-> "auth", via |-> 0] /\ menu' = Nobody /\ learned' = Nobody /\ asked' = Silence
      /\ UNCHANGED <<session, cache>>
  BY DEF Left, GoToAuth
<1>2. place'.page = "auth" /\ place'.via = 0
  BY <1>1
<1>3. ASSUME NEW s, Knows(s)
      PROVE  Knows(s)'
  BY <1>1, <1>3 DEF Knows
<1>4. session \in Session /\ session.number \in Nat /\ (session.number = 0 => session = Nobody)
  BY DEF NavInv, NavKnown, Knows, Session
<1>5. Knows(Nobody)'
  BY <1>1, <1>4, NavNobody DEF Knows
<1>6. PICK s, c : s = session /\ c = cache /\ Knows(s) /\ Knows(c)
  BY DEF NavInv, NavKnown
<1>7. Knows(s)' /\ Knows(c)'
  BY <1>3, <1>6
<1>8. NavKnown'
  BY <1>1, <1>4, <1>5, <1>6, <1>7, NavSilence DEF NavKnown, Knows
<1>9. NavPlace'
  BY <1>1, <1>2, <1>4 DEF NavPlace
<1>10. NavGone'
  BY <1>1, <1>2, NavSilence DEF Left, GoToAuth, NavInv, NavGone
<1> QED  BY <1>8, <1>9, <1>10 DEF NavInv

LEMMA NavInductive == NavInv /\ NavigationNext => NavInv'
<1> SUFFICES ASSUME NavInv, NavigationNext PROVE NavInv'
  OBVIOUS
<1>1. CASE \E roles \in RoleSets : SignIn(roles)
  BY <1>1, NavSignsIn
<1>2. CASE \E roles \in RoleSets \cup {{}} : SessionChanges(roles)
  BY <1>2, NavChanges, NavigationBounds
<1>3. CASE \E p \in DOMAIN LinkRoles : Follow(p)
  BY <1>3, NavFollows
<1>4. CASE \E who \in {"menu", "page"} : Me(who) \/ Hear(who) \/ NotHeard(who)
  BY <1>4, NavHears
<1>5. CASE SignOut
  <2>1. {} \in SUBSET UserRoles
    OBVIOUS
  <2> QED  BY <1>5, <2>1, NavChanges
<1>6. CASE Left \/ GoToAuth
  BY <1>6, NavLeaves
<1> QED  BY <1>1, <1>2, <1>3, <1>4, <1>5, <1>6 DEF NavigationNext

LEMMA NavMeans == NavInv => OfferedIsAllowed
<1> SUFFICES ASSUME NavInv PROVE OfferedIsAllowed
  OBVIOUS
<1>1. /\ session \in Session /\ session.roles \in SUBSET UserRoles /\ session.number \in Nat /\ Knows(learned)
  BY DEF NavInv, NavKnown, Session
<1>2. ASSUME place.via = session.number, learned.number \in {0, session.number}, session.number > 0
      PROVE  \A r \in RoutesOf(place.page, learned.roles) : Permits(r, session.roles)
  <2>1. place.page \in Links(session.roles)
    BY <1>1, <1>2 DEF NavInv, NavPlace
  <2>2. learned.roles = {} \/ learned.roles = session.roles
    BY <1>1, <1>2, NavNobody DEF Knows
  <2> QED  BY <1>1, <2>1, <2>2, NavAccepted
<1>3. place.page = "auth" /\ ~otherwise => cache = Nobody
  BY DEF NavInv, NavGone
<1> QED  BY <1>2, <1>3 DEF OfferedIsAllowed

-----------------------------------------------------------------------------
(* The service worker.                                                     *)
WorkerStages == {"none", "open", "add", "added", "activating", "deleting", "active"}
Worker == [version : Versions \cup {NoVersion}, at : WorkerStages, raced : BOOLEAN, cut : BOOLEAN]
Kept == [page : BOOLEAN, files : BOOLEAN, after : SUBSET Versions]

WorkerTypes ==
    /\ deployed \in Versions
    /\ CacheNames \subseteq Versions /\ kept \in [CacheNames -> Kept]
    /\ installing \in Worker /\ active \in Worker
    /\ doomed \subseteq CacheNames /\ installs \in Nat /\ shutdowns \in Nat

(* Caches are told apart by their age.                                     *)
Aged ==
    /\ \A n \in CacheNames : kept[n].after \subseteq CacheNames \ {n}
    /\ \A m, n \in CacheNames : m # n => m \in kept[n].after \/ n \in kept[m].after

(* Only an activation deletes caches, and never the one of its version;    *)
(* a version that was not installed during an activation finds what it has *)
(* put into its cache.                                                     *)
Installs ==
    /\ installing.at \in {"none", "open", "add", "added"} /\ ~installing.cut
    /\ installing.at = "none" <=> installing = NoWorker
    /\ installing.at # "none" => installing.version # active.version /\ installing.version \in Versions
    /\ installing.at # "none" /\ ~installing.raced =>
          /\ active.at \in {"none", "active"}
          /\ installing.at \in {"add", "added"} => installing.version \in CacheNames
          /\ installing.at = "added" => kept[installing.version].page

Activates ==
    /\ active.at \in {"none", "activating", "deleting", "active"}
    /\ active.at # "none" => active.version \in Versions
    /\ doomed # {} => active.at = "deleting"
    /\ active.version \notin doomed
    /\ active.at # "none" /\ ~active.raced =>
          /\ active.version \in CacheNames /\ kept[active.version].page
          /\ active.at \in {"deleting", "active"} /\ ~active.cut =>
                kept[active.version].after \subseteq doomed

WorkerInv == WorkerTypes /\ Aged /\ Installs /\ Activates

LEMMA WorkerStarts == ServiceWorkerInit => WorkerInv
<1> SUFFICES ASSUME ServiceWorkerInit PROVE WorkerInv
  OBVIOUS
<1>1. CacheNames = {} /\ kept \in [CacheNames -> Kept]
  BY DEF ServiceWorkerInit, CacheNames
<1>2. NoWorker \in Worker /\ NoWorker.at = "none" /\ NoWorker.version = NoVersion /\ ~NoWorker.cut
  BY DEF NoWorker, Worker, WorkerStages
<1> QED  BY <1>1, <1>2 DEF ServiceWorkerInit, WorkerInv, WorkerTypes, Aged, Installs, Activates

(* A cache is opened and perhaps something is put into the one of v: the   *)
(* others stay, and their pages do.                                        *)
LEMMA WorkerOpens ==
  ASSUME WorkerInv, NEW v \in Versions
  PROVE  /\ DOMAIN Opened(v) = CacheNames \cup {v}
         /\ Opened(v) \in [CacheNames \cup {v} -> Kept]
         /\ \A n \in CacheNames : Opened(v)[n] = kept[n]
         /\ v \notin CacheNames => Opened(v)[v].after = CacheNames
<1>1. [NoCache EXCEPT !.after = CacheNames] \in Kept /\ [NoCache EXCEPT !.after = CacheNames].after = CacheNames
  BY DEF NoCache, Kept, WorkerInv, WorkerTypes
<1> QED  BY <1>1 DEF Opened, WorkerInv, WorkerTypes

(* What a step that adds to the caches must see to.                        *)
LEMMA WorkerAdds ==
  ASSUME WorkerInv, NEW v \in Versions, NEW names, names = CacheNames \/ names = CacheNames \cup {v},
         kept' \in [names -> Kept],
         \A n \in CacheNames : kept'[n].after = kept[n].after /\ (kept[n].page => kept'[n].page),
         v \notin CacheNames /\ v \in names => kept'[v].after = CacheNames
  PROVE  /\ CacheNames' = names /\ (kept \in [CacheNames -> Kept])' /\ CacheNames' \subseteq Versions
         /\ Aged'
<1>1. CacheNames' = names
  BY DEF CacheNames
<1>2. (kept \in [CacheNames -> Kept])' /\ CacheNames' \subseteq Versions
  BY <1>1 DEF WorkerInv, WorkerTypes
<1>3. Aged'
  BY <1>1 DEF WorkerInv, Aged
<1> QED  BY <1>1, <1>2, <1>3

LEMMA WorkerOpenCache == ASSUME WorkerInv, OpenCache PROVE WorkerInv'
<1>1. installing \in Worker /\ installing.version \in Versions /\ installing.at = "open"
  BY DEF WorkerInv, WorkerTypes, Installs, OpenCache
<1>2. PICK v \in Versions : v = installing.version
  BY <1>1
<1>3. PICK new : new = [installing EXCEPT !.at = "add"]
  OBVIOUS
<1>4. /\ new \in Worker /\ new.at = "add" /\ new.version = v /\ new.raced = installing.raced
      /\ new.cut = installing.cut
      /\ new # NoWorker
  BY <1>1, <1>2, <1>3 DEF Worker, WorkerStages, NoWorker
<1>5. /\ kept' = Opened(v) /\ installing' = new
      /\ UNCHANGED <<deployed, active, doomed, installs, shutdowns>>
  BY <1>2, <1>3 DEF OpenCache
<1>6. /\ CacheNames' = CacheNames \cup {v} /\ (kept \in [CacheNames -> Kept])' /\ CacheNames' \subseteq Versions
      /\ Aged' /\ \A n \in CacheNames : kept'[n] = kept[n]
  BY <1>2, <1>5, WorkerOpens, WorkerAdds
<1>7. WorkerTypes'
  BY <1>4, <1>5, <1>6 DEF WorkerInv, WorkerTypes
<1>8. Installs'
  BY <1>1, <1>2, <1>4, <1>5, <1>6 DEF WorkerInv, Installs
<1>9. Activates'
  BY <1>5, <1>6 DEF WorkerInv, Activates
<1> QED  BY <1>6, <1>7, <1>8, <1>9 DEF WorkerInv

LEMMA WorkerAddPage == ASSUME WorkerInv, AddPage PROVE WorkerInv'
<1>1. installing \in Worker /\ installing.version \in Versions /\ installing.at = "add"
  BY DEF WorkerInv, WorkerTypes, Installs, AddPage
<1>2. PICK v \in Versions : v = installing.version
  BY <1>1
<1>3. PICK new : new = [installing EXCEPT !.at = "added"]
  OBVIOUS
<1>4. /\ new \in Worker /\ new.at = "added" /\ new.version = v /\ new.raced = installing.raced
      /\ new.cut = installing.cut
      /\ new # NoWorker
  BY <1>1, <1>2, <1>3 DEF Worker, WorkerStages, NoWorker
<1>5. /\ kept' = [n \in CacheNames |-> [kept[n] EXCEPT !.page = @ \/ n = v]] /\ installing' = new
      /\ UNCHANGED <<deployed, active, doomed, installs, shutdowns>>
  BY <1>2, <1>3 DEF AddPage
<1>6. \A n \in CacheNames : kept[n] \in Kept
  BY DEF WorkerInv, WorkerTypes
<1>7. \A n \in CacheNames : /\ kept'[n] \in Kept /\ kept'[n].after = kept[n].after
                            /\ kept[n].page \/ n = v => kept'[n].page
  BY <1>5, <1>6 DEF Kept
<1>8. kept' \in [CacheNames -> Kept]
  BY <1>5, <1>7
<1>9. CacheNames' = CacheNames /\ (kept \in [CacheNames -> Kept])' /\ CacheNames' \subseteq Versions /\ Aged'
  BY <1>2, <1>7, <1>8, WorkerAdds
<1>10. WorkerTypes'
  BY <1>4, <1>5, <1>9 DEF WorkerInv, WorkerTypes
<1>11. Installs'
  BY <1>1, <1>2, <1>4, <1>5, <1>7, <1>9 DEF WorkerInv, Installs
<1>12. Activates'
  BY <1>5, <1>7, <1>9 DEF WorkerInv, Activates
<1> QED  BY <1>9, <1>10, <1>11, <1>12 DEF WorkerInv

LEMMA WorkerKeepFile == ASSUME WorkerInv, KeepFile PROVE WorkerInv'
<1>1. PICK v \in Versions : v = active.version
  BY DEF WorkerInv, Activates, KeepFile
<1>2. PICK opened : opened = Opened(v)
  OBVIOUS
<1>3. /\ kept' = [n \in DOMAIN opened |-> [opened[n] EXCEPT !.files = @ \/ n = v]]
      /\ UNCHANGED <<deployed, installing, active, doomed, installs, shutdowns>>
  BY <1>1, <1>2 DEF KeepFile
<1>4. /\ DOMAIN opened = CacheNames \cup {v} /\ opened \in [CacheNames \cup {v} -> Kept]
      /\ \A n \in CacheNames : opened[n] = kept[n]
      /\ v \notin CacheNames => opened[v].after = CacheNames
  BY <1>2, WorkerOpens
<1>5. \A n \in CacheNames \cup {v} : /\ kept'[n] \in Kept /\ kept'[n].after = opened[n].after
                                     /\ kept'[n].page = opened[n].page
  BY <1>3, <1>4 DEF Kept
<1>6. kept' \in [CacheNames \cup {v} -> Kept]
  BY <1>3, <1>4, <1>5
<1>7. /\ CacheNames' = CacheNames \cup {v} /\ (kept \in [CacheNames -> Kept])' /\ CacheNames' \subseteq Versions
      /\ Aged'
  BY <1>4, <1>5, <1>6, WorkerAdds
<1>8. WorkerTypes'
  BY <1>3, <1>7 DEF WorkerInv, WorkerTypes
<1>9. Installs'
  BY <1>3, <1>4, <1>5, <1>7 DEF WorkerInv, Installs
<1>10. Activates'
  BY <1>3, <1>4, <1>5, <1>7 DEF WorkerInv, Activates
<1> QED  BY <1>7, <1>8, <1>9, <1>10 DEF WorkerInv

LEMMA WorkerDeletes == ASSUME WorkerInv, NEW name \in doomed, DeleteCache(name) PROVE WorkerInv'
<1>1. /\ name \in CacheNames /\ name # active.version /\ active.at = "deleting" /\ doomed' = doomed \ {name}
      /\ kept' = [n \in CacheNames \ {name} |-> [kept[n] EXCEPT !.after = @ \ {name}]]
      /\ UNCHANGED <<deployed, installing, active, installs, shutdowns>>
  BY DEF WorkerInv, WorkerTypes, Activates, DeleteCache
<1>2. \A n \in CacheNames : kept[n] \in Kept
  BY DEF WorkerInv, WorkerTypes
<1>3. CacheNames' = CacheNames \ {name}
  BY <1>1 DEF CacheNames
<1>4. \A n \in CacheNames' : /\ kept'[n] \in Kept /\ kept'[n].after = kept[n].after \ {name}
                             /\ kept'[n].page = kept[n].page
  BY <1>1, <1>2, <1>3 DEF Kept
<1>5. WorkerTypes'
  BY <1>1, <1>3, <1>4 DEF WorkerInv, WorkerTypes
<1>6. Aged'
  BY <1>3, <1>4 DEF WorkerInv, Aged
<1>7. Installs'
  BY <1>1 DEF WorkerInv, Installs
<1>8. Activates'
  BY <1>1, <1>3, <1>4 DEF WorkerInv, Activates
<1> QED  BY <1>5, <1>6, <1>7, <1>8 DEF WorkerInv

(* Steps that leave the caches as they are.                                *)
LEMMA WorkerRegisters == ASSUME WorkerInv, Register \/ InstallFails \/ (\E v \in Versions : Deploy(v))
  PROVE WorkerInv'
<1>1. UNCHANGED <<kept, active, doomed, shutdowns>> /\ installs' \in {installs, installs + 1}
  BY DEF Register, InstallFails, Deploy
<1>2. CacheNames' = CacheNames
  BY <1>1 DEF CacheNames
<1>3. Aged' /\ Activates'
  BY <1>1, <1>2 DEF WorkerInv, Aged, Activates
<1>4. CASE Register
  <2>1. deployed # active.version /\ deployed' = deployed
    BY <1>4 DEF Register
  <2>2. \E new \in Worker : /\ installing' = new /\ new.at = "open" /\ new.version = deployed /\ ~new.cut
                            /\ new.raced <=> active.at \in {"activating", "deleting"}
    <3>1. CASE active.at \in {"activating", "deleting"}
      <4>1. (active.at \in {"activating", "deleting"}) = TRUE
        BY <3>1
      <4>2. PICK new : new = [version |-> deployed, at |-> "open", cut |-> FALSE, raced |-> TRUE]
        OBVIOUS
      <4>3. installing' = new
        BY <1>4, <4>1, <4>2 DEF Register
      <4>4. new \in Worker
        BY <4>2 DEF Worker, WorkerStages, WorkerInv, WorkerTypes
      <4>5. new.at = "open" /\ new.version = deployed /\ ~new.cut /\ new.raced
        BY <4>2
      <4> QED  BY <3>1, <4>3, <4>4, <4>5
    <3>2. CASE active.at \notin {"activating", "deleting"}
      <4>1. (active.at \in {"activating", "deleting"}) = FALSE
        BY <3>2
      <4>2. PICK new : new = [version |-> deployed, at |-> "open", cut |-> FALSE, raced |-> FALSE]
        OBVIOUS
      <4>3. installing' = new
        BY <1>4, <4>1, <4>2 DEF Register
      <4>4. new \in Worker
        BY <4>2 DEF Worker, WorkerStages, WorkerInv, WorkerTypes
      <4>5. new.at = "open" /\ new.version = deployed /\ ~new.cut /\ ~new.raced
        BY <4>2
      <4> QED  BY <3>2, <4>3, <4>4, <4>5
    <3> QED  BY <3>1, <3>2
  <2>3. installing' # NoWorker
    BY <2>2 DEF NoWorker
  <2>4. WorkerTypes'
    BY <1>1, <1>2, <2>1, <2>2 DEF WorkerInv, WorkerTypes
  <2>5. Installs'
    BY <1>1, <1>2, <2>1, <2>2, <2>3 DEF WorkerInv, WorkerTypes, Installs, Activates
  <2> QED  BY <1>3, <2>4, <2>5 DEF WorkerInv
<1>5. CASE InstallFails
  <2>1. NoWorker \in Worker /\ NoWorker.at = "none" /\ ~NoWorker.cut
    BY DEF NoWorker, Worker, WorkerStages
  <2>2. installing' = NoWorker /\ deployed' = deployed
    BY <1>5 DEF InstallFails
  <2> QED  BY <1>1, <1>2, <1>3, <2>1, <2>2 DEF WorkerInv, WorkerTypes, Installs
<1>6. CASE \E v \in Versions : Deploy(v)
  <2>1. deployed' \in Versions /\ UNCHANGED installing
    BY <1>6 DEF Deploy
  <2> QED  BY <1>1, <1>2, <1>3, <2>1 DEF WorkerInv, WorkerTypes, Installs
<1> QED  BY <1>4, <1>5, <1>6

LEMMA WorkerTakesOver == ASSUME WorkerInv, TakesOver PROVE WorkerInv'
<1>1. PICK new : new = [installing EXCEPT !.at = "activating"]
  OBVIOUS
<1>2. /\ installing \in Worker /\ installing.at = "added" /\ active.at \in {"none", "active"}
      /\ active' = new /\ installing' = NoWorker
      /\ UNCHANGED <<deployed, kept, doomed, installs, shutdowns>>
  BY <1>1 DEF WorkerInv, WorkerTypes, TakesOver
<1>3. /\ new \in Worker /\ new.at = "activating" /\ new.version = installing.version
      /\ new.raced = installing.raced /\ ~new.cut
  BY <1>1, <1>2 DEF Worker, WorkerStages, WorkerInv, Installs
<1>4. NoWorker \in Worker /\ NoWorker.at = "none" /\ ~NoWorker.cut
  BY DEF NoWorker, Worker, WorkerStages
<1>5. CacheNames' = CacheNames /\ doomed = {}
  BY <1>2 DEF CacheNames, WorkerInv, Activates
<1>6. WorkerTypes' /\ Aged'
  BY <1>2, <1>3, <1>4, <1>5 DEF WorkerInv, WorkerTypes, Aged
<1>7. Installs'
  BY <1>2, <1>4 DEF Installs
<1>8. Activates'
  BY <1>2, <1>3, <1>5 DEF WorkerInv, Installs, Activates
<1> QED  BY <1>6, <1>7, <1>8 DEF WorkerInv

LEMMA WorkerActivates == ASSUME WorkerInv, ListCaches \/ Activated \/ Shutdown PROVE WorkerInv'
<1>1. /\ UNCHANGED <<deployed, kept, installs>> /\ shutdowns' \in {shutdowns, shutdowns + 1}
      /\ CacheNames' = CacheNames /\ active \in Worker
  BY DEF ListCaches, Activated, Shutdown, CacheNames, WorkerInv, WorkerTypes
<1>2. Aged'
  BY <1>1 DEF WorkerInv, Aged
<1>3. CASE ListCaches
  <2>1. PICK new : new = [active EXCEPT !.at = "deleting"]
    OBVIOUS
  <2>2. /\ new \in Worker /\ new.at = "deleting" /\ new.version = active.version
        /\ new.raced = active.raced /\ new.cut = active.cut
    BY <1>1, <2>1 DEF Worker, WorkerStages
  <2>3. /\ active' = new /\ doomed' = CacheNames \ {active.version} /\ UNCHANGED installing
        /\ active.at = "activating"
    BY <1>3, <2>1 DEF ListCaches
  <2>4. WorkerTypes'
    BY <1>1, <2>2, <2>3 DEF WorkerInv, WorkerTypes
  <2>5. Installs'
    BY <1>1, <2>2, <2>3 DEF WorkerInv, Installs
  <2>6. Activates'
    BY <1>1, <2>2, <2>3 DEF WorkerInv, Aged, Activates
  <2> QED  BY <1>2, <2>4, <2>5, <2>6 DEF WorkerInv
<1>4. CASE Activated
  <2>1. PICK new : new = [active EXCEPT !.at = "active"]
    OBVIOUS
  <2>2. /\ new \in Worker /\ new.at = "active" /\ new.version = active.version /\ new.raced = active.raced
        /\ new.cut = active.cut
    BY <1>1, <2>1 DEF Worker, WorkerStages
  <2>3. active' = new /\ doomed = {} /\ UNCHANGED <<installing, doomed>> /\ active.at = "deleting"
    BY <1>4, <2>1 DEF Activated
  <2>4. WorkerTypes'
    BY <1>1, <2>2, <2>3 DEF WorkerInv, WorkerTypes
  <2>5. Installs' /\ Activates'
    BY <1>1, <2>2, <2>3 DEF WorkerInv, Installs, Activates
  <2> QED  BY <1>2, <2>4, <2>5 DEF WorkerInv
<1>5. CASE Shutdown
  <2>1. PICK new : new = [active EXCEPT !.at = "active", !.cut = TRUE]
    OBVIOUS
  <2>2. /\ new \in Worker /\ new.at = "active" /\ new.version = active.version /\ new.raced = active.raced
        /\ new.cut
    BY <1>1, <2>1 DEF Worker, WorkerStages
  <2>3. /\ doomed' = {} /\ installing' = IF installing.at = "added" THEN installing ELSE NoWorker
        /\ active' = IF active.at \in {"none", "active"} THEN active ELSE new
    BY <1>5, <2>1 DEF Shutdown
  <2>4. NoWorker \in Worker /\ NoWorker.at = "none" /\ ~NoWorker.cut
    BY DEF NoWorker, Worker, WorkerStages
  <2>5. WorkerTypes'
    BY <1>1, <2>2, <2>3, <2>4 DEF WorkerInv, WorkerTypes
  <2>6. Installs'
    BY <1>1, <2>2, <2>3, <2>4 DEF WorkerInv, Installs
  <2>7. Activates'
    BY <1>1, <2>2, <2>3 DEF WorkerInv, Activates
  <2> QED  BY <1>2, <2>5, <2>6, <2>7 DEF WorkerInv
<1> QED  BY <1>3, <1>4, <1>5

LEMMA WorkerInductive == WorkerInv /\ ServiceWorkerNext => WorkerInv'
  BY WorkerOpenCache, WorkerAddPage, WorkerKeepFile, WorkerDeletes, WorkerRegisters, WorkerTakesOver,
     WorkerActivates DEF ServiceWorkerNext

LEMMA WorkerMeans == WorkerInv => ShellKept
<1> SUFFICES ASSUME WorkerInv, active.at = "active", ~active.raced
             PROVE  /\ active.version \in CacheNames /\ kept[active.version].page
                    /\ active.cut \/ Match = {active.version}
  BY DEF ShellKept
<1>1. active.version \in CacheNames /\ kept[active.version].page
  BY DEF WorkerInv, Activates
<1>2. ASSUME ~active.cut PROVE Match = {active.version}
  <2>1. kept[active.version].after = {}
    BY <1>2 DEF WorkerInv, Activates
  <2> QED  BY <1>1, <2>1 DEF Match, WorkerInv, Aged
<1> QED  BY <1>1, <1>2

-----------------------------------------------------------------------------
(* The client: each part keeps its invariant while another one runs.       *)
LEMMA NavStays == NavInv /\ UNCHANGED navVars => NavInv'
<1> SUFFICES ASSUME NavInv, UNCHANGED navVars PROVE NavInv'
  OBVIOUS
<1>1. UNCHANGED <<session, place, menu, learned, cache, asked, leaving, otherwise>>
  BY DEF navVars, told
<1> QED  BY <1>1 DEF NavInv, NavKnown, NavPlace, NavGone, Knows

LEMMA FormStays == FormInv /\ UNCHANGED formVars => FormInv'
  BY DEF formVars, FormInv, FormTypes, Said, LastOne, Lists, SentSoFar

LEMMA PageStays == PageInv /\ UNCHANGED pageVars => PageInv'
  BY DEF pageVars, PageInv, PageTypes, Whole, NoneChosen, Alone, Follows

LEMMA TextStays == TextInv /\ UNCHANGED workVars => TextInv'
  BY DEF workVars, seen, TextInv, TextHolds, Paired, InOrder, TextStaysWithItsRow

LEMMA WorkerStays == WorkerInv /\ UNCHANGED workerVars => WorkerInv'
  BY DEF workerVars, WorkerInv, WorkerTypes, Aged, Installs, Activates, CacheNames

ClientInv == NavInv /\ FormInv /\ PageInv /\ TextInv /\ WorkerInv

LEMMA ClientStarts == WebInit => ClientInv
  BY NavStarts, FormStarts, PageStarts, TextStarts, WorkerStarts DEF WebInit, ClientInv

LEMMA ClientKept == ClientInv /\ [WebNext]_webVars => ClientInv'
<1> SUFFICES ASSUME ClientInv, [WebNext]_webVars PROVE ClientInv'
  OBVIOUS
<1>1. CASE NavigationNext /\ UNCHANGED <<formVars, pageVars, workVars, workerVars>>
  BY <1>1, NavInductive, FormStays, PageStays, TextStays, WorkerStays DEF ClientInv
<1>2. CASE WebFormsNext /\ UNCHANGED <<navVars, pageVars, workVars, workerVars>>
  BY <1>2, FormInductive, NavStays, PageStays, TextStays, WorkerStays DEF ClientInv
<1>3. CASE AttendancePageNext /\ UNCHANGED <<navVars, formVars, workVars, workerVars>>
  BY <1>3, PageInductive, NavStays, FormStays, TextStays, WorkerStays DEF ClientInv
<1>4. CASE WorkEditorsNext /\ UNCHANGED <<navVars, formVars, pageVars, workerVars>>
  BY <1>4, TextInductive, NavStays, FormStays, PageStays, WorkerStays DEF ClientInv
<1>5. CASE ServiceWorkerNext /\ UNCHANGED <<navVars, formVars, pageVars, workVars>>
  BY <1>5, WorkerInductive, NavStays, FormStays, PageStays, TextStays DEF ClientInv
<1>6. CASE UNCHANGED webVars
  BY <1>6, NavStays, FormStays, PageStays, TextStays, WorkerStays DEF webVars, ClientInv
<1> QED  BY <1>1, <1>2, <1>3, <1>4, <1>5, <1>6 DEF WebNext

LEMMA ClientHolds == WebSpec => []ClientInv
BY ClientStarts, ClientKept, PTL DEF WebSpec

LEMMA ClientMeans ==
  ClientInv => SheetIsOfChoice /\ SaysWhatIsSaved /\ OfferedIsAllowed /\ ShellKept /\ TextStaysWithItsRow
BY PageMeans, FormMeans, NavMeans, WorkerMeans DEF ClientInv, TextInv

(* Rows and recorded entries of the attendance page are of one class and   *)
(* one day; after handlers that did not overlap they are of the class and  *)
(* the day that are shown, with what is recorded, or there is an error     *)
(* (attendance/page.tsx).                                                  *)
THEOREM SheetIsOfChoiceHolds == WebSpec => []SheetIsOfChoice
BY ClientHolds, ClientMeans, PTL

(* A page says "saved" only of what is committed, shows an error when its  *)
(* last submission is not, and without overlap or an unseen failure lists  *)
(* what the server has (the submit and load functions of the pages).       *)
THEOREM SaysWhatIsSavedHolds == WebSpec => []SaysWhatIsSaved
BY ClientHolds, ClientMeans, PTL

(* No page reached by a link of the present session asks for or offers     *)
(* what the API would refuse its user, and no menu outlives a sign-out     *)
(* (workspace-nav.tsx, workspace/page.tsx, the pages, @Roles).             *)
THEOREM OfferedIsAllowedHolds == WebSpec => []OfferedIsAllowed
BY ClientHolds, ClientMeans, PTL

(* A version in charge has the start page, and offline it is answered from *)
(* the cache of that version alone (install, activate and fetch of sw.js). *)
THEOREM ShellKeptHolds == WebSpec => []ShellKept
BY ClientHolds, ClientMeans, PTL

(* No assignment is written over with a text begun for another, and a      *)
(* response gives way to an older one only by overlap or a blind           *)
(* submission (saveAssignment, resetEditor and submit of the page).        *)
THEOREM TextStaysWithItsRowHolds == WebSpec => []TextStaysWithItsRow
BY ClientHolds, ClientMeans, PTL

-----------------------------------------------------------------------------
(* The noticeboard: the server and the client share no state.              *)
BoardInv == Inv /\ Budgeted /\ ClientInv

LEMMA BoardKept == BoardInv /\ [BoardNext]_boardVars => BoardInv'
<1> SUFFICES ASSUME BoardInv, [BoardNext]_boardVars PROVE BoardInv'
  OBVIOUS
<1>1. [Next]_vars /\ [WebNext]_webVars
  BY DEF BoardNext, boardVars
<1>2. Inv'
  BY <1>1, InvKept DEF BoardInv
<1>3. Budgeted'
  BY <1>1, <1>2, BudgetKept DEF BoardInv
<1>4. ClientInv'
  BY <1>1, ClientKept DEF BoardInv
<1> QED  BY <1>2, <1>3, <1>4 DEF BoardInv

(* Announcements beside a browser: notices are never early, nor missing or *)
(* repeated, and every page, menu, sheet, text and cached file is as it    *)
(* should be, whichever of the two sides a behaviour follows.              *)
THEOREM NoticeboardHolds ==
  BoardSpec => [](/\ NothingEarly /\ NoticeBudget
                  /\ SheetIsOfChoice /\ SaysWhatIsSaved /\ OfferedIsAllowed
                  /\ ShellKept /\ TextStaysWithItsRow)
<1>1. BoardInit => BoardInv
  BY InitHolds, BudgetStarts, ClientStarts DEF BoardInit, BoardInv
<1>2. BoardInv => /\ NothingEarly /\ NoticeBudget
                  /\ SheetIsOfChoice /\ SaysWhatIsSaved /\ OfferedIsAllowed
                  /\ ShellKept /\ TextStaysWithItsRow
  BY BudgetMeans, ClientMeans DEF BoardInv, Inv
<1> QED  BY <1>1, <1>2, BoardKept, PTL DEF BoardSpec
=============================================================================
