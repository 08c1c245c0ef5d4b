-------------------------- MODULE SchoolOfficeProofs --------------------------
(***************************************************************************)
(* What the school office promises, for any number of schools, people,     *)
(* events, clerks and cycles and any limit: the structure of the schools   *)
(* is sound, who is told of a class may see it, every due reminder         *)
(* reaches those it concerns, and no stretch of time lets through more     *)
(* attempts than the limiters mean to.  With the attachment store's        *)
(* theorems, all of it holds of the office as a whole.                     *)
(***************************************************************************)
EXTENDS SchoolOffice, AttachmentStoreProofs, FiniteSetTheorems

-----------------------------------------------------------------------------
(* School structure.                                                       *)
Profiles == {"student", "teacher", "parent"}

(* What each row names, and what it was checked for when it was asked for. *)
NamesRows(x) ==
    /\ x.table \in Profiles => x.user \in People
    /\ x.table = "class" => x.year \in Table("year")
    /\ x.table = "enrolment" => /\ x.year \in Table("year") /\ x.class \in Table("class")
                                /\ x.student \in Table("student")
    /\ x.table = "assignment" => /\ x.class \in Table("class") /\ x.subject \in Table("subject")
                                 /\ x.teacher \in Table("teacher")
    /\ x.table = "link" => x.parent \in Table("parent") /\ x.student \in Table("student")
Checked(x) ==
    /\ x.table = "class" => x.year.school = x.school
    /\ x.table \in Profiles => member[x.user, x.school] \in DOMAIN ProfileOf
                               /\ ProfileOf[member[x.user, x.school]] = x.table
    /\ x.table = "enrolment" => /\ x.year.school = x.school /\ x.class.school = x.school
                                /\ x.student.school = x.school /\ x.class.year = x.year
    /\ x.table = "assignment" => x.class.school = x.school /\ x.teacher.school = x.school
    /\ x.table = "link" => x.parent.school = x.school /\ x.student.school = x.school

(* A row is alone under its unique key. *)
Unique(x) ==
    /\ x.table \in Profiles => \A y \in Table(x.table) : y.user = x.user => y = x
    /\ x.table = "enrolment" =>
          \A y \in Table("enrolment") : y.year = x.year /\ y.student = x.student => y = x

Doing(q) ==
    \/ q = NoTask
    \/ \E x : NamesRows(x) /\ Checked(x) /\ q = [at |-> "create", row |-> x]
    \/ \E x \in rows : q = [at |-> "audit", row |-> x]

StrInv ==
    /\ task \in [Clerks -> {task[a] : a \in Clerks}]
    /\ \A x \in rows : NamesRows(x) /\ Checked(x) /\ Unique(x)
    /\ \A a \in Clerks : Doing(task[a])
    /\ audited \subseteq rows
    /\ broken \in BOOLEAN
    /\ ~broken => \A x \in rows : x \in audited \/ \E a \in Clerks : task[a] = [at |-> "audit", row |-> x]

LEMMA StrFurnished ==
  ASSUME NEW x \in Furnished
  PROVE  \E k \in Schools, n \in Names :
            LET y == [table |-> "year", school |-> k, name |-> n] IN
            y \in Furnished /\ (x = y \/ x = [table |-> "class", school |-> k, year |-> y, name |-> n])
  BY DEF Furnished

LEMMA StrStarts == StructureInit => StrInv
<1> SUFFICES ASSUME StructureInit PROVE StrInv
  OBVIOUS
<1>1. /\ task \in [Clerks -> {task[a] : a \in Clerks}] /\ \A a \in Clerks : Doing(task[a])
      /\ audited = rows /\ broken = FALSE
  BY DEF StructureInit, Doing
<1>2. ASSUME NEW x \in rows PROVE NamesRows(x) /\ Checked(x) /\ Unique(x)
  <2>1. rows = Furnished
    BY <1>2 DEF StructureInit
  <2>2. PICK k \in Schools, n \in Names :
           LET y == [table |-> "year", school |-> k, name |-> n] IN
           y \in Furnished /\ (x = y \/ x = [table |-> "class", school |-> k, year |-> y, name |-> n])
    BY <2>1, StrFurnished
  <2>3. x.table \in {"year", "class"} /\ (x.table = "class" => x.year \in Table("year") /\ x.year.school = x.school)
    BY <2>1, <2>2 DEF Table
  <2> QED  BY <2>3 DEF NamesRows, Checked, Unique, Profiles
<1> QED  BY <1>1, <1>2 DEF StrInv

(* What is asked for and accepted names rows there are and is checked.     *)
LEMMA StrAsked ==
  ASSUME NEW k \in Schools, NEW asked \in Ask(k), Accepted(asked)
  PROVE  NamesRows(asked) /\ Checked(asked)
<1>1. CASE asked \in AskYear(k) \cup AskSubject(k)
  <2>1. asked.table \in {"year", "subject"}
    BY <1>1 DEF AskYear, AskSubject
  <2> QED  BY <2>1 DEF NamesRows, Checked, Profiles
<1>2. CASE asked \in AskClass(k)
  <2>1. asked.table = "class" /\ asked.year \in Table("year")
    BY <1>2 DEF AskClass
  <2>2. asked.year.school = asked.school
    BY <2>1 DEF Accepted, OfSchool
  <2> QED  BY <2>1, <2>2 DEF NamesRows, Checked, Profiles
<1>3. CASE asked \in AskProfile(k)
  <2>1. asked.table \in Profiles /\ asked.user \in People
    BY <1>3 DEF AskProfile, Profiles
  <2>2. AssertMember(asked)
    BY <2>1 DEF Accepted, Profiles
  <2> QED  BY <2>1, <2>2 DEF NamesRows, Checked, Profiles, AssertMember
<1>4. CASE asked \in AskEnrolment(k)
  <2>1. /\ asked.table = "enrolment" /\ asked.year \in Table("year") /\ asked.class \in Table("class")
        /\ asked.student \in Table("student")
    BY <1>4 DEF AskEnrolment
  <2>2. EnrolmentFits(asked)
    BY <2>1 DEF Accepted
  <2> QED  BY <2>1, <2>2 DEF NamesRows, Checked, Profiles, EnrolmentFits, OfSchool
<1>5. CASE asked \in AskAssignment(k)
  <2>1. /\ asked.table = "assignment" /\ asked.class \in Table("class") /\ asked.subject \in Table("subject")
        /\ asked.teacher \in Table("teacher")
    BY <1>5 DEF AskAssignment
  <2>2. OfSchool(asked, {asked.class, asked.subject, asked.teacher})
    BY <2>1 DEF Accepted
  <2> QED  BY <2>1, <2>2 DEF NamesRows, Checked, Profiles, OfSchool
<1>6. CASE asked \in AskLink(k)
  <2>1. asked.table = "link" /\ asked.parent \in Table("parent") /\ asked.student \in Table("student")
    BY <1>6 DEF AskLink
  <2>2. OfSchool(asked, {asked.parent, asked.student})
    BY <2>1 DEF Accepted
  <2> QED  BY <2>1, <2>2 DEF NamesRows, Checked, Profiles, OfSchool
<1> QED  BY <1>1, <1>2, <1>3, <1>4, <1>5, <1>6 DEF Ask

(* Rows stay what they are when others come.                               *)
LEMMA StrKept ==
  ASSUME rows \subseteq rows', member' = member, NEW x, NamesRows(x), Checked(x)
  PROVE  NamesRows(x)' /\ Checked(x)'
  BY DEF NamesRows, Checked, Table

LEMMA StrTask ==
  ASSUME StrInv, NEW a \in Clerks, NEW q, task' = [task EXCEPT ![a] = q]
  PROVE  /\ task' \in [Clerks -> {task'[b] : b \in Clerks}]
         /\ task'[a] = q /\ \A b \in Clerks : b # a => task'[b] = task[b]
<1>1. task \in [Clerks -> {task[b] : b \in Clerks}]
  BY DEF StrInv
<1>2. DOMAIN task = Clerks
  BY <1>1
<1> QED  BY <1>2

LEMMA StrBegin ==
  ASSUME StrInv, NEW a \in Clerks, NEW k \in Schools, NEW asked \in Ask(k), BeginTask(a, k, asked)
  PROVE  StrInv'
<1> DEFINE q == [at |-> "create", row |-> asked]
<1>1. /\ task' = [task EXCEPT ![a] = q] /\ UNCHANGED <<member, rows, left, audited, broken>>
      /\ Accepted(asked) /\ task[a] = NoTask
  BY DEF BeginTask
<1>2. /\ task' \in [Clerks -> {task'[b] : b \in Clerks}]
      /\ task'[a] = q /\ \A b \in Clerks : b # a => task'[b] = task[b]
  BY <1>1, StrTask
<1>3. NamesRows(asked) /\ Checked(asked)
  BY <1>1, StrAsked
<1>4. \A x : NamesRows(x)' = NamesRows(x) /\ Checked(x)' = Checked(x) /\ Unique(x)' = Unique(x)
  BY <1>1 DEF NamesRows, Checked, Unique, Table
<1>5. ASSUME NEW b \in Clerks PROVE Doing(task[b])'
  <2>1. CASE b = a
    BY <1>2, <1>3, <1>4, <2>1 DEF Doing
  <2>2. CASE b # a
    BY <1>1, <1>2, <1>4, <2>2 DEF Doing, StrInv
  <2> QED  BY <2>1, <2>2
<1>6. \A x \in rows, b \in Clerks : task[b] = [at |-> "audit", row |-> x] => task'[b] = task[b]
  <2>1. \A x : NoTask # [at |-> "audit", row |-> x]
    BY DEF NoTask
  <2> QED  BY <1>1, <1>2, <2>1
<1> QED  BY <1>1, <1>2, <1>4, <1>5, <1>6 DEF StrInv

(* A request ends or goes on without a new row.                            *)
LEMMA StrQuiet ==
  ASSUME StrInv, NEW a \in Clerks, task' = [task EXCEPT ![a] = NoTask],
         UNCHANGED <<member, rows>>, audited \subseteq audited', audited' \subseteq rows, broken' \in BOOLEAN,
         \/ broken'
         \/ broken' = broken /\ \A x \in rows : task[a] = [at |-> "audit", row |-> x] => x \in audited'
  PROVE  StrInv'
<1>1. /\ task' \in [Clerks -> {task'[b] : b \in Clerks}]
      /\ task'[a] = NoTask /\ \A b \in Clerks : b # a => task'[b] = task[b]
  BY StrTask
<1>2. \A x : NamesRows(x)' = NamesRows(x) /\ Checked(x)' = Checked(x) /\ Unique(x)' = Unique(x)
  BY DEF NamesRows, Checked, Unique, Table
<1>3. ASSUME NEW b \in Clerks PROVE Doing(task[b])'
  <2>1. CASE b = a
    BY <1>1, <2>1 DEF Doing
  <2>2. CASE b # a
    BY <1>1, <1>2, <2>2 DEF Doing, StrInv
  <2> QED  BY <2>1, <2>2
<1>4. ASSUME ~broken', NEW x \in rows
      PROVE  x \in audited' \/ \E b \in Clerks : task'[b] = [at |-> "audit", row |-> x]
  <2>1. x \in audited \/ \E b \in Clerks : task[b] = [at |-> "audit", row |-> x]
    BY <1>4 DEF StrInv
  <2> QED  BY <1>1, <1>4, <2>1
<1> QED  BY <1>1, <1>2, <1>3, <1>4 DEF StrInv

LEMMA StrEnds ==
  ASSUME StrInv, NEW a \in Clerks, AuditRow(a) \/ TaskFails(a)
  PROVE  StrInv'
<1>1. CASE TaskFails(a)
  BY <1>1, StrQuiet DEF TaskFails, StrInv
<1>2. CASE AuditRow(a)
  <2>1. PICK x \in rows : task[a] = [at |-> "audit", row |-> x]
    <3>1. Doing(task[a]) /\ task[a].at = "audit"
      BY <1>2 DEF AuditRow, StrInv
    <3>2. NoTask.at = "idle" /\ \A x : [at |-> "create", row |-> x].at = "create"
      BY DEF NoTask
    <3>3. task[a] # NoTask /\ \A x : task[a] # [at |-> "create", row |-> x]
      BY <3>1, <3>2
    <3> QED  BY <3>1, <3>3 DEF Doing
  <2>2. task[a].row = x
    BY <2>1
  <2>3. \A y \in rows : task[a] = [at |-> "audit", row |-> y] => y = x
    <3>1. \A y : [at |-> "audit", row |-> y].row = y
      OBVIOUS
    <3> QED  BY <2>2, <3>1
  <2>4. audited' = audited \cup {x}
    BY <1>2, <2>2 DEF AuditRow
  <2> QED  BY <1>2, <2>3, <2>4, StrQuiet DEF AuditRow, StrInv
<1> QED  BY <1>1, <1>2

LEMMA StrCreate == ASSUME StrInv, NEW a \in Clerks, CreateRow(a) PROVE StrInv'
<1>1. PICK x : NamesRows(x) /\ Checked(x) /\ task[a] = [at |-> "create", row |-> x]
  <2>1. Doing(task[a]) /\ task[a].at = "create"
    BY DEF CreateRow, StrInv
  <2>2. NoTask.at = "idle" /\ \A x : [at |-> "audit", row |-> x].at = "audit"
    BY DEF NoTask
  <2>3. task[a] # NoTask /\ \A x : task[a] # [at |-> "audit", row |-> x]
    BY <2>1, <2>2
  <2> QED  BY <2>1, <2>3 DEF Doing
<1>2. task[a].row = x /\ task[a].at = "create"
  BY <1>1
<1>3. CASE Conflicts(x)
  <2>1. \A y : task[a] # [at |-> "audit", row |-> y]
    BY <1>2
  <2> QED  BY <1>2, <1>3, <2>1, StrQuiet DEF CreateRow, StrInv
<1>4. CASE ~Conflicts(x)
  <2> DEFINE q == [at |-> "audit", row |-> x]
  <2>1. /\ rows' = rows \cup {x} /\ UNCHANGED <<member, left, audited, broken>>
        /\ task' = [task EXCEPT ![a] = q]
    BY <1>1, <1>2, <1>4 DEF CreateRow
  <2>2. /\ task' \in [Clerks -> {task'[b] : b \in Clerks}]
        /\ task'[a] = q /\ \A b \in Clerks : b # a => task'[b] = task[b]
    BY <2>1, StrTask
  <2>3. \A y : NamesRows(y) /\ Checked(y) => NamesRows(y)' /\ Checked(y)'
    BY <2>1, StrKept
  <2>4. ASSUME NEW y \in rows' PROVE Unique(y)'
    <3>1. \A z \in rows : Unique(z)
      BY DEF StrInv
    <3>2. x.table \in Profiles => \A z \in rows : z.table = x.table => z.user # x.user
      BY <1>4 DEF Conflicts, Table, Profiles
    <3>3. x.table = "enrolment" =>
             \A z \in rows : z.table = "enrolment" => ~(z.year = x.year /\ z.student = x.student)
      BY <1>4 DEF Conflicts, Table
    <3> QED  BY <2>1, <3>1, <3>2, <3>3 DEF Unique, Table
  <2>5. ASSUME NEW b \in Clerks PROVE Doing(task[b])'
    <3>1. CASE b = a
      BY <2>1, <2>2, <3>1 DEF Doing
    <3>2. CASE b # a
      BY <2>1, <2>2, <2>3, <3>2 DEF Doing, StrInv
    <3> QED  BY <3>1, <3>2
  <2>6. ASSUME ~broken', NEW y \in rows'
        PROVE  y \in audited' \/ \E b \in Clerks : task'[b] = [at |-> "audit", row |-> y]
    <3>1. CASE y = x
      BY <2>2, <3>1
    <3>2. CASE y \in rows
      <4>1. y \in audited \/ \E b \in Clerks : task[b] = [at |-> "audit", row |-> y]
        BY <2>1, <2>6, <3>2 DEF StrInv
      <4>2. task[a] # [at |-> "audit", row |-> y]
        BY <1>2
      <4> QED  BY <2>1, <2>2, <4>1, <4>2
    <3> QED  BY <2>1, <3>1, <3>2
  <2>7. \A y \in rows' : NamesRows(y)' /\ Checked(y)'
    BY <1>1, <2>1, <2>3 DEF StrInv
  <2> QED  BY <2>1, <2>2, <2>4, <2>5, <2>6, <2>7 DEF StrInv
<1> QED  BY <1>3, <1>4

LEMMA StrInductive == StrInv /\ [StructureNext]_structureVars => StrInv'
<1> SUFFICES ASSUME StrInv, [StructureNext]_structureVars PROVE StrInv'
  OBVIOUS
<1>1. CASE UNCHANGED <<member, rows, audited, task, broken>>
  <2>1. \A x : NamesRows(x)' = NamesRows(x) /\ Checked(x)' = Checked(x) /\ Unique(x)' = Unique(x)
    BY <1>1 DEF NamesRows, Checked, Unique, Table
  <2> QED  BY <1>1, <2>1 DEF StrInv, Doing
<1>2. CASE \E e \in Table("enrolment") : Leave(e)
  BY <1>1, <1>2 DEF Leave
<1>3. CASE UNCHANGED structureVars
  BY <1>1, <1>3 DEF structureVars
<1> QED  BY <1>2, <1>3, StrBegin, StrCreate, StrEnds DEF StructureNext

(* An enrolment the bulk check finds valid is one enroll accepts.          *)
LEMMA StrBulk ==
  ASSUME NEW y, NEW c, NEW s
  PROVE  BulkRowValid(y.school, y, c, s) <=>
            Accepted([table |-> "enrolment", school |-> y.school, year |-> y, class |-> c, student |-> s])
<1> DEFINE asked == [table |-> "enrolment", school |-> y.school, year |-> y, class |-> c, student |-> s]
<1>1. /\ asked.table = "enrolment" /\ asked.school = y.school /\ asked.year = y /\ asked.class = c
      /\ asked.student = s
  OBVIOUS
<1>2. Accepted(asked) <=> EnrolmentFits(asked)
  BY <1>1 DEF Accepted
<1>3. EnrolmentFits(asked) <=> BulkRowValid(y.school, y, c, s)
  BY <1>1 DEF EnrolmentFits, OfSchool, BulkRowValid
<1> QED  BY <1>2, <1>3

LEMMA StrSound == StrInv => StructureSound
<1> SUFFICES ASSUME StrInv PROVE StructureSound
  OBVIOUS
<1>1. ASSUME NEW e \in Table("enrolment")
      PROVE  /\ e.class.year = e.year
             /\ {e.class.school, e.student.school, e.class.year.school} = {e.school}
             /\ \A x \in Table("enrolment") : x.year = e.year /\ x.student = e.student => x = e
  <2>1. e \in rows /\ e.table = "enrolment" /\ NamesRows(e) /\ Checked(e) /\ Unique(e)
    BY DEF StrInv, Table
  <2>2. /\ e.year.school = e.school /\ e.class.school = e.school /\ e.student.school = e.school
        /\ e.class.year = e.year
    BY <2>1 DEF Checked
  <2>3. {e.class.school, e.student.school, e.class.year.school} = {e.school}
    BY <2>2
  <2>4. \A x \in Table("enrolment") : x.year = e.year /\ x.student = e.student => x = e
    BY <2>1 DEF Unique
  <2> QED  BY <2>2, <2>3, <2>4
<1>2. /\ \A x \in Table("assignment") : x.class.school = x.teacher.school
      /\ \A x \in Table("link") : x.parent.school = x.student.school
  <2>1. \A x \in rows : Checked(x)
    BY DEF StrInv
  <2>2. ASSUME NEW x \in Table("assignment") PROVE x.class.school = x.teacher.school
    BY <2>1 DEF Table, Checked
  <2>3. ASSUME NEW x \in Table("link") PROVE x.parent.school = x.student.school
    BY <2>1 DEF Table, Checked
  <2> QED  BY <2>2, <2>3
<1>3. ASSUME NEW p \in Table("student") \cup Table("teacher") \cup Table("parent"),
             NEW q \in Table("student") \cup Table("teacher") \cup Table("parent")
      PROVE  /\ ProfileOf[member[p.user, p.school]] = p.table
             /\ p.table = q.table /\ p.user = q.user => p = q
  <2>1. p \in rows /\ q \in rows /\ p.table \in Profiles
    BY DEF Table, Profiles
  <2> QED  BY <2>1 DEF StrInv, Checked, Unique, Table
<1>4. ASSUME ~broken, \A a \in Clerks : task[a] = NoTask PROVE audited = rows
  <2>1. \A x : NoTask # [at |-> "audit", row |-> x]
    BY DEF NoTask
  <2> QED  BY <1>4, <2>1 DEF StrInv
<1> QED  BY <1>1, <1>2, <1>3, <1>4, StrBulk DEF StructureSound

(* Profiles stand for roles.                                               *)
LEMMA StrRoles ==
  ASSUME StrInv
  PROVE  /\ \A s \in Table("student") : s.user \in People /\ member[s.user, s.school] = "STUDENT"
         /\ \A t \in Table("teacher") : t.user \in People /\ member[t.user, t.school] = "TEACHER"
         /\ \A p \in Table("parent") : p.user \in People /\ member[p.user, p.school] = "PARENT"
<1>1. /\ DOMAIN ProfileOf = {"STUDENT", "TEACHER", "PARENT"}
      /\ ProfileOf["STUDENT"] = "student" /\ ProfileOf["TEACHER"] = "teacher"
      /\ ProfileOf["PARENT"] = "parent"
  BY DEF ProfileOf
<1>2. \A x \in rows : x.table \in Profiles =>
         /\ x.user \in People /\ member[x.user, x.school] \in DOMAIN ProfileOf
         /\ ProfileOf[member[x.user, x.school]] = x.table
  BY DEF StrInv, Checked, NamesRows
<1>3. ASSUME NEW x \in rows, x.table \in Profiles
      PROVE  /\ x.user \in People
             /\ x.table = "student" => member[x.user, x.school] = "STUDENT"
             /\ x.table = "teacher" => member[x.user, x.school] = "TEACHER"
             /\ x.table = "parent" => member[x.user, x.school] = "PARENT"
  BY <1>1, <1>2, <1>3
<1> QED  BY <1>3 DEF Table, Profiles

LEMMA StrMaySee == StrInv => NotifiedMaySee
<1> SUFFICES ASSUME StrInv, NEW c \in Table("class")
    PROVE  LET may == {u \in People : ClassIdsFor(u, c.school, c)} IN
           /\ Recipients(c) \subseteq may
           /\ CalendarRecipients(c) = {u \in may : member[u, c.school] # "SCHOOL_ADMIN"}
  BY DEF NotifiedMaySee
<1> DEFINE may == {u \in People : ClassIdsFor(u, c.school, c)}
           Role(u) == member[u, c.school]
           Teacher(u) == \E t \in Table("teacher") : t.user = u /\ Teaches(t, c)
           Pupil(u) == \E s \in Table("student") : s.user = u /\ Attends(s, c)
           Parent(u) == \E s \in Table("student") : Attends(s, c) /\ \E p \in ParentsOf(s) : p.user = u
<1>1. \A s : Attends(s, c) => s.school = c.school
  BY DEF Attends, StrInv, Checked, Table
<1>2. \A s : \A p \in ParentsOf(s) : p \in Table("parent") /\ p.school = s.school
  <2>1. ASSUME NEW x \in Table("link")
        PROVE  x.parent \in Table("parent") /\ x.parent.school = x.student.school
    <3>1. x \in rows /\ x.table = "link" /\ NamesRows(x) /\ Checked(x)
      BY DEF StrInv, Table
    <3> QED  BY <3>1 DEF NamesRows, Checked
  <2> QED  BY <2>1 DEF ParentsOf
<1>3. \A x \in Table("assignment") :
         x.teacher \in Table("teacher") /\ x.teacher.school = x.school /\ x.class.school = x.school
  BY DEF StrInv, Checked, NamesRows, Table
<1>4. ASSUME NEW u, Pupil(u) PROVE u \in People /\ Role(u) = "STUDENT"
  <2>1. PICK s \in Table("student") : s.user = u /\ s.school = c.school
    BY <1>1, <1>4
  <2>2. s.user \in People /\ member[s.user, s.school] = "STUDENT"
    BY StrRoles
  <2> QED  BY <2>1, <2>2
<1>5. ASSUME NEW u, Parent(u) PROVE u \in People /\ Role(u) = "PARENT"
  <2>1. PICK p \in Table("parent") : p.user = u /\ p.school = c.school
    BY <1>1, <1>2, <1>5
  <2>2. p.user \in People /\ member[p.user, p.school] = "PARENT"
    BY StrRoles
  <2> QED  BY <2>1, <2>2
<1>6. ASSUME NEW u, Teacher(u) PROVE u \in People /\ Role(u) = "TEACHER"
  <2>1. PICK t \in Table("teacher") : t.user = u /\ t.school = c.school
    BY <1>3, <1>6 DEF Teaches
  <2>2. t.user \in People /\ member[t.user, t.school] = "TEACHER"
    BY StrRoles
  <2> QED  BY <2>1, <2>2
<1>7. \A u : u \in Recipients(c) <=> Pupil(u) \/ Parent(u)
  BY DEF Recipients
<1>8. \A u : u \in CalendarRecipients(c) <=> Pupil(u) \/ Parent(u) \/ Teacher(u)
  <2>1. \A t : Teaches(t, c) <=> \E x \in Table("assignment") : x.school = c.school /\ x.class = c /\ x.teacher = t
    BY <1>3 DEF Teaches
  <2> QED  BY <1>7, <2>1 DEF CalendarRecipients
<1>9. \A u \in People : ClassIdsFor(u, c.school, c) <=>
         \/ Role(u) = "SCHOOL_ADMIN"
         \/ Role(u) = "TEACHER" /\ Teacher(u)
         \/ Role(u) = "STUDENT" /\ Pupil(u)
         \/ Role(u) = "PARENT" /\ Parent(u)
  BY DEF ClassIdsFor
<1> HIDE DEF Role, Teacher, Pupil, Parent
<1>10. \A u \in may : Role(u) = member[u, c.school]
  BY DEF Role
<1>11. Recipients(c) \subseteq may
  BY <1>4, <1>5, <1>7, <1>9
<1>12. CalendarRecipients(c) = {u \in may : member[u, c.school] # "SCHOOL_ADMIN"}
  BY <1>4, <1>5, <1>6, <1>8, <1>9, <1>10
<1> QED  BY <1>11, <1>12

-----------------------------------------------------------------------------
(* Calendar and reminders.                                                 *)
Pairs == Occasions \X Members
CalScan == [at : {"none", "followUps", "events"}, day : Nat, items : SUBSET Events, queue : SUBSET Pairs]

CalTypes ==
    /\ due \subseteq Occasions /\ today \in Nat
    /\ audience \in [Occasions -> SUBSET Members]
    /\ scan \in [Workers -> CalScan]
    /\ owed \in [Workers -> SUBSET Pairs] /\ known \in [Workers -> SUBSET Pairs]

(* What cycle c with its history, whom it must remind and whom it may:     *)
(* everybody owed is reminded, or waits in its queue, or their event is    *)
(* still to be found or resolved.                                          *)
Reminds(c, must) ==
    \A x \in must :
        /\ x[1] \in due /\ x[2] \in audience[x[1]]
        /\ \/ Job(x[1], x[2], c.day) \in jobs
           \/ x \in c.queue
           \/ x[1] \in Events /\ (c.at = "followUps" \/ x[1] \in c.items)
Knows(c, may) == c.at # "none" => c.queue \subseteq may /\ \A x \in Pairs : x[2] \in audience[x[1]] => x \in may
Rested(c, must) == c.at = "none" => c.queue = {} /\ must = {}

Cycles ==
    \A w \in Workers :
        Reminds(scan[w], owed[w]) /\ Knows(scan[w], known[w]) /\ Rested(scan[w], owed[w])

CalInv == CalTypes /\ Cycles /\ amiss = {}

LEMMA CalStarts == CalendarInit => CalInv
<1> SUFFICES ASSUME CalendarInit PROVE CalInv
  OBVIOUS
<1> USE DEF CalendarInit
<1>1. CalTypes
  BY DEF CalTypes, NoScan, CalScan
<1>2. Cycles
  BY DEF Cycles, Reminds, Knows, Rested, NoScan
<1> QED  BY <1>1, <1>2 DEF CalInv

LEMMA CalConcerned ==
  ASSUME CalTypes, NEW x
  PROVE  x \in Concerned <=> x \in Pairs /\ x[2] \in audience[x[1]]
<1>1. ASSUME x \in Concerned PROVE x \in Pairs /\ x[2] \in audience[x[1]]
  BY <1>1 DEF Concerned, CalTypes, Pairs
<1>2. ASSUME x \in Pairs, x[2] \in audience[x[1]] PROVE x \in Concerned
  <2>1. x \in {x[1]} \X audience[x[1]] /\ x[1] \in Occasions
    BY <1>2 DEF Pairs
  <2> QED  BY <2>1 DEF Concerned
<1> QED  BY <1>1, <1>2

(* One cycle takes a step that leaves the world as it is.                  *)
LEMMA CalScanStep ==
  ASSUME CalInv, NEW w \in Workers, NEW c \in CalScan, NEW must \in SUBSET Pairs, NEW may \in SUBSET Pairs,
         scan' = [scan EXCEPT ![w] = c], owed' = [owed EXCEPT ![w] = must],
         known' = [known EXCEPT ![w] = may],
         UNCHANGED <<due, audience, today>>, jobs \subseteq jobs', amiss' = {},
         Reminds(c, must)', Knows(c, may), Rested(c, must)
  PROVE  CalInv'
<1>1. CalTypes'
  BY DEF CalInv, CalTypes
<1>2. ASSUME NEW v \in Workers
      PROVE  (Reminds(scan[v], owed[v]) /\ Knows(scan[v], known[v]) /\ Rested(scan[v], owed[v]))'
  <2>1. CASE v = w
    <3>1. scan'[v] = c /\ owed'[v] = must /\ known'[v] = may
      BY <2>1 DEF CalInv, CalTypes
    <3> QED  BY <3>1 DEF Reminds, Knows, Rested
  <2>2. CASE v # w
    <3>1. scan'[v] = scan[v] /\ owed'[v] = owed[v] /\ known'[v] = known[v]
      BY <2>2 DEF CalInv, CalTypes
    <3>2. Reminds(scan[v], owed[v]) /\ Knows(scan[v], known[v]) /\ Rested(scan[v], owed[v])
      BY DEF CalInv, Cycles
    <3> QED  BY <3>1, <3>2 DEF Reminds, Knows, Rested
  <2> QED  BY <2>1, <2>2
<1> QED  BY <1>1, <1>2 DEF CalInv, Cycles

LEMMA CalFindFollowUps == ASSUME CalInv, NEW w \in Workers, FindFollowUps(w) PROVE CalInv'
<1>1. \A x : x \in Concerned <=> x \in Pairs /\ x[2] \in audience[x[1]]
  BY CalConcerned DEF CalInv
<1>2. PICK must \in SUBSET Pairs : must = {x \in Concerned : x[1] \in due}
  BY <1>1
<1>3. PICK may \in SUBSET Pairs : may = Concerned
  BY <1>1
<1>4. PICK c \in CalScan : c = [at |-> "followUps", day |-> today, items |-> {},
                               queue |-> {x \in Concerned : x[1] \in due \cap FollowUps}]
  BY <1>1 DEF CalScan, CalInv, CalTypes
<1>5. /\ scan' = [scan EXCEPT ![w] = c] /\ owed' = [owed EXCEPT ![w] = must]
      /\ known' = [known EXCEPT ![w] = may]
      /\ UNCHANGED <<due, audience, today, jobs>> /\ amiss' = {}
  BY <1>2, <1>3, <1>4 DEF FindFollowUps, CalInv
<1>6. c.at = "followUps" /\ c.queue = {x \in Concerned : x[1] \in due \cap FollowUps}
  BY <1>4
<1>7. ASSUME NEW x \in must
      PROVE  x[1] \in due' /\ x[2] \in audience'[x[1]] /\ (x \in c.queue \/ x[1] \in Events)
  BY <1>1, <1>2, <1>5, <1>6 DEF Pairs, Occasions
<1>8. Reminds(c, must)'
  BY <1>6, <1>7 DEF Reminds
<1>9. Knows(c, may) /\ Rested(c, must)
  BY <1>1, <1>3, <1>6 DEF Knows, Rested
<1> QED  BY <1>5, <1>8, <1>9, CalScanStep

LEMMA CalGoesOn ==
  ASSUME CalInv, NEW w \in Workers, NEW c \in CalScan, scan' = [scan EXCEPT ![w] = c],
         scan[w].at # "none", c.at # "none", c.day = scan[w].day,
         UNCHANGED <<due, audience, today, owed, known>>, jobs \subseteq jobs', amiss' = {},
         c.queue \subseteq known[w],
         \A x \in owed[w] :
            \/ Job(x[1], x[2], c.day) \in jobs'
            \/ x \in c.queue
            \/ x[1] \in Events /\ (c.at = "followUps" \/ x[1] \in c.items)
  PROVE  CalInv'
<1>1. Reminds(scan[w], owed[w]) /\ Knows(scan[w], known[w])
  BY DEF CalInv, Cycles
<1>2. /\ owed' = [owed EXCEPT ![w] = owed[w]] /\ known' = [known EXCEPT ![w] = known[w]]
      /\ owed[w] \in SUBSET Pairs /\ known[w] \in SUBSET Pairs
  BY DEF CalInv, CalTypes
<1>3. \A m : m = owed[w] => Reminds(c, m)'
  BY <1>1 DEF Reminds
<1>4. PICK must \in SUBSET Pairs : must = owed[w]
  BY <1>2
<1>5. PICK may \in SUBSET Pairs : may = known[w]
  BY <1>2
<1>6. Reminds(c, must)' /\ Knows(c, may) /\ Rested(c, must)
  BY <1>1, <1>3, <1>4, <1>5 DEF Knows, Rested
<1> QED  BY <1>2, <1>4, <1>5, <1>6, CalScanStep

LEMMA CalSteps ==
  ASSUME CalInv, NEW w \in Workers,
         \/ FindEvents(w) \/ EndScan(w) \/ AbortScan(w)
         \/ \E e \in Events : ResolveAudience(w, e)
         \/ \E x \in scan[w].queue : Remind(w, x)
  PROVE  CalInv'
<1>1. /\ scan[w] \in CalScan /\ owed[w] \in SUBSET Pairs /\ known[w] \in SUBSET Pairs
      /\ Reminds(scan[w], owed[w]) /\ Knows(scan[w], known[w]) /\ Rested(scan[w], owed[w])
  BY DEF CalInv, CalTypes, Cycles
<1>2. CASE FindEvents(w)
  <2> DEFINE c == [scan[w] EXCEPT !.at = "events", !.items = due \cap Events]
  <2>1. /\ scan' = [scan EXCEPT ![w] = c] /\ scan[w].at = "followUps" /\ scan[w].queue = {}
        /\ UNCHANGED <<due, audience, today, owed, known, jobs>> /\ amiss' = {}
    BY <1>1, <1>2 DEF FindEvents, history, CalInv, CalScan
  <2>2. /\ c \in CalScan /\ c.at = "events" /\ c.day = scan[w].day /\ c.queue = {}
        /\ c.items = due \cap Events
    BY <1>1, <2>1 DEF CalScan
  <2> HIDE DEF c
  <2>3. \A x \in owed[w] : Job(x[1], x[2], c.day) \in jobs \/ (x[1] \in Events /\ x[1] \in c.items)
    BY <1>1, <2>1, <2>2 DEF Reminds
  <2> QED  BY <2>1, <2>2, <2>3, CalGoesOn
<1>3. ASSUME NEW e \in Events, ResolveAudience(w, e) PROVE CalInv'
  <2> DEFINE c == [scan[w] EXCEPT !.items = @ \ {e}, !.queue = {e} \X audience[e]]
  <2>1. /\ scan' = [scan EXCEPT ![w] = c] /\ scan[w].at = "events" /\ scan[w].queue = {}
        /\ UNCHANGED <<due, audience, today, owed, known, jobs>> /\ amiss' = {}
    BY <1>1, <1>3 DEF ResolveAudience, history, CalInv, CalScan
  <2>2. /\ audience[e] \subseteq Members /\ e \in Occasions
        /\ {e} \X audience[e] \subseteq Pairs
    BY DEF CalInv, CalTypes, Occasions, Pairs
  <2>3. /\ c \in CalScan /\ c.at = "events" /\ c.day = scan[w].day /\ c.queue = {e} \X audience[e]
        /\ c.items = scan[w].items \ {e}
    BY <1>1, <2>1, <2>2 DEF CalScan
  <2> HIDE DEF c
  <2>4. c.queue \subseteq known[w]
    BY <1>1, <2>1, <2>2, <2>3 DEF Knows
  <2>5. ASSUME NEW x \in owed[w]
        PROVE  Job(x[1], x[2], c.day) \in jobs \/ x \in c.queue \/ (x[1] \in Events /\ x[1] \in c.items)
    <3>1. x \in Pairs /\ x[2] \in audience[x[1]]
      BY <1>1 DEF Reminds
    <3>2. x[1] = e => x \in {e} \X audience[e]
      BY <3>1 DEF Pairs
    <3>3. Job(x[1], x[2], c.day) \in jobs \/ (x[1] \in Events /\ x[1] \in scan[w].items)
      BY <1>1, <2>1, <2>3 DEF Reminds
    <3> QED  BY <2>3, <3>2, <3>3
  <2> QED  BY <2>1, <2>3, <2>4, <2>5, CalGoesOn
<1>4. ASSUME NEW x \in scan[w].queue, Remind(w, x) PROVE CalInv'
  <2> DEFINE c == [scan[w] EXCEPT !.queue = @ \ {x}]
  <2>1. scan[w].at # "none" /\ x \in known[w]
    BY <1>1 DEF Rested, Knows
  <2>2. /\ scan' = [scan EXCEPT ![w] = c] /\ jobs' = jobs \cup {Job(x[1], x[2], scan[w].day)}
        /\ UNCHANGED <<due, audience, today, owed, known>> /\ amiss' = {}
    BY <1>1, <1>4, <2>1 DEF Remind, CalInv, CalScan
  <2>3. /\ c \in CalScan /\ c.at = scan[w].at /\ c.day = scan[w].day /\ c.items = scan[w].items
        /\ c.queue = scan[w].queue \ {x}
    BY <1>1 DEF CalScan
  <2> HIDE DEF c
  <2>4. c.queue \subseteq known[w]
    BY <1>1, <2>1, <2>3 DEF Knows
  <2>5. ASSUME NEW y \in owed[w]
        PROVE  \/ Job(y[1], y[2], c.day) \in jobs' \/ y \in c.queue
               \/ y[1] \in Events /\ (c.at = "followUps" \/ y[1] \in c.items)
    BY <1>1, <2>2, <2>3 DEF Reminds
  <2> QED  BY <2>1, <2>2, <2>3, <2>4, <2>5, CalGoesOn
<1>5. ASSUME EndScan(w) \/ AbortScan(w) PROVE CalInv'
  <2>1. /\ scan' = [scan EXCEPT ![w] = NoScan] /\ owed' = [owed EXCEPT ![w] = {}]
        /\ known' = [known EXCEPT ![w] = {}]
        /\ UNCHANGED <<due, audience, today, jobs>>
    BY <1>5 DEF EndScan, AbortScan, Stop
  <2>2. amiss' = {}
    <3>1. CASE AbortScan(w)
      BY <3>1 DEF AbortScan, CalInv
    <3>2. CASE EndScan(w)
      <4>1. \A x \in owed[w] : Job(x[1], x[2], scan[w].day) \in jobs
        BY <1>1, <3>2 DEF EndScan, Reminds
      <4> QED  BY <3>2, <4>1 DEF EndScan, CalInv
    <3> QED  BY <1>5, <3>1, <3>2
  <2>3. NoScan \in CalScan /\ NoScan.at = "none" /\ NoScan.queue = {}
    BY DEF NoScan, CalScan
  <2>4. /\ Reminds(NoScan, {})' /\ Knows(NoScan, {}) /\ Rested(NoScan, {})
    BY <2>3 DEF Reminds, Knows, Rested
  <2> QED  BY <2>1, <2>2, <2>3, <2>4, CalScanStep
<1> QED  BY <1>2, <1>3, <1>4, <1>5

(* The school moves on: what a cycle owes may shrink, what it may do grow. *)
LEMMA CalWorld ==
  ASSUME CalInv, scan' = scan, CalTypes', jobs \subseteq jobs', amiss' = amiss,
         \A w \in Workers : owed'[w] \subseteq owed[w] /\ known[w] \subseteq known'[w],
         \A w \in Workers : \A x \in owed'[w] : x[1] \in due' /\ x[2] \in audience'[x[1]],
         \A w \in Workers : scan[w].at # "none" =>
            \A x \in Pairs : x[2] \in audience'[x[1]] => x[2] \in audience[x[1]] \/ x \in known'[w]
  PROVE  CalInv'
<1>1. ASSUME NEW w \in Workers
      PROVE  (Reminds(scan[w], owed[w]) /\ Knows(scan[w], known[w]) /\ Rested(scan[w], owed[w]))'
  <2>1. Reminds(scan[w], owed[w]) /\ Knows(scan[w], known[w]) /\ Rested(scan[w], owed[w])
    BY DEF CalInv, Cycles
  <2> QED  BY <2>1 DEF Reminds, Knows, Rested
<1> QED  BY <1>1 DEF CalInv, Cycles

LEMMA CalPeople ==
  ASSUME CalInv, NEW i \in Occasions, NEW m \in Members, Join(i, m) \/ Part(i, m)
  PROVE  CalInv'
<1>1. /\ UNCHANGED <<due, today, jobs, scan, amiss>>
      /\ audience \in [Occasions -> SUBSET Members]
      /\ owed \in [Workers -> SUBSET Pairs] /\ known \in [Workers -> SUBSET Pairs]
      /\ \A w \in Workers : \A x \in owed[w] : x[1] \in due /\ x[2] \in audience[x[1]]
  BY DEF Join, Part, CalInv, CalTypes, Cycles, Reminds
<1>2. CASE Join(i, m)
  <2>1. /\ audience' = [audience EXCEPT ![i] = @ \cup {m}] /\ owed' = owed
        /\ known' = [w \in Workers |-> IF scan[w].at = "none" THEN known[w]
                                       ELSE known[w] \cup {<<i, m>>}]
    BY <1>2 DEF Join
  <2>2. <<i, m>> \in Pairs /\ CalTypes'
    BY <1>1, <2>1 DEF CalInv, CalTypes, Pairs
  <2>3. \A w \in Workers : known[w] \subseteq known'[w]
    BY <2>1
  <2>4. \A x \in Pairs : x[2] \in audience'[x[1]] => x[2] \in audience[x[1]] \/ x = <<i, m>>
    BY <1>1, <2>1 DEF Pairs
  <2>5. \A w \in Workers : \A x \in owed'[w] : x[1] \in due' /\ x[2] \in audience'[x[1]]
    BY <1>1, <2>1 DEF Pairs
  <2> QED  BY <1>1, <2>1, <2>2, <2>3, <2>4, <2>5, CalWorld
<1>3. CASE Part(i, m)
  <2>1. /\ audience' = [audience EXCEPT ![i] = @ \ {m}] /\ known' = known
        /\ owed' = [w \in Workers |-> owed[w] \ {<<i, m>>}]
    BY <1>3 DEF Part
  <2>2. CalTypes'
    BY <1>1, <2>1 DEF CalInv, CalTypes
  <2>3. \A x \in Pairs : x # <<i, m>> /\ x[2] \in audience[x[1]] => x[2] \in audience'[x[1]]
    BY <1>1, <2>1 DEF Pairs
  <2>4. \A w \in Workers : \A x \in owed'[w] : x[1] \in due' /\ x[2] \in audience'[x[1]]
    BY <1>1, <2>1, <2>3
  <2>5. \A x \in Pairs : x[2] \in audience'[x[1]] => x[2] \in audience[x[1]]
    BY <1>1, <2>1 DEF Pairs
  <2> QED  BY <1>1, <2>1, <2>2, <2>4, <2>5, CalWorld
<1> QED  BY <1>2, <1>3

LEMMA CalTime ==
  ASSUME CalInv,
         \/ \E e \in Events : WriteEvent(e) \/ AuditEvent(e) \/ AnnounceEvent(e)
         \/ \E i \in Occasions : FallDue(i) \/ Pass(i)
         \/ NextDay
  PROVE  CalInv'
<1>1. /\ UNCHANGED <<audience, known, scan, amiss>> /\ jobs \subseteq jobs'
      /\ due' \subseteq Occasions /\ today' \in Nat
  BY DEF WriteEvent, AuditEvent, AnnounceEvent, FallDue, Pass, NextDay, history, CalInv, CalTypes
<1>2. \A w \in Workers : \A x \in owed[w] : x[1] \in due /\ x[2] \in audience[x[1]]
  BY DEF CalInv, Cycles, Reminds
<1>3. /\ owed' \in [Workers -> SUBSET Pairs]
      /\ \A w \in Workers : owed'[w] \subseteq owed[w] /\ \A x \in owed'[w] : x[1] \in due'
  <2>1. CASE \E i \in Occasions : Pass(i)
    BY <1>2, <2>1 DEF Pass, CalInv, CalTypes
  <2>2. CASE ~ \E i \in Occasions : Pass(i)
    <3>1. owed' = owed /\ due \subseteq due'
      BY <2>2 DEF WriteEvent, AuditEvent, AnnounceEvent, FallDue, NextDay, history
    <3> QED  BY <1>2, <3>1 DEF CalInv, CalTypes
  <2> QED  BY <2>1, <2>2
<1>4. CalTypes'
  BY <1>1, <1>3 DEF CalInv, CalTypes
<1> QED  BY <1>1, <1>2, <1>3, <1>4, CalWorld

LEMMA CalInductive == CalInv /\ [CalendarNext]_calendarVars => CalInv'
<1> SUFFICES ASSUME CalInv, [CalendarNext]_calendarVars PROVE CalInv'
  OBVIOUS
<1>1. CASE UNCHANGED calendarVars
  BY <1>1 DEF calendarVars, CalInv, CalTypes, Cycles, Reminds, Knows, Rested
<1> QED  BY <1>1, CalFindFollowUps, CalSteps, CalPeople, CalTime DEF CalendarNext

-----------------------------------------------------------------------------
(* Rate limits.                                                            *)
(* The attempts let through are told apart by their numbers.               *)
Numbered(attempts) ==
    /\ IsFiniteSet(attempts)
    /\ \A x \in attempts : x[1] \in 0..now /\ x[2] \in 1..Cardinality(attempts)

(* The fixed window: from its first attempt on it has counted every one,   *)
(* and before that, what still falls into a stretch with it is the window  *)
(* before less its first attempt.                                          *)
Begun == window.ends - Span
Counted == {x \in signIns : x[1] >= Begun}
Before == {x \in signIns : x[1] > Begun - Span /\ x[1] < Begun}

LimTypes ==
    /\ now \in Nat
    /\ window \in [count : 0..Limit, ends : Nat]
    /\ Numbered(signIns) /\ Numbered(reports)
Fixed ==
    /\ window.count = 0 => signIns = {}
    /\ window.count > 0 =>
          /\ Begun \in 0..now
          /\ Cardinality(Counted) = window.count
          /\ \E x \in Counted : x[1] = Begun
          /\ \A x \in signIns : x[1] < window.ends
          /\ Cardinality(Before) <= Limit - 1
    /\ \A t \in Int : Recent(signIns, t) <= 2 * Limit - 1

(* The sliding window remembers every submission that may still count.     *)
Sliding ==
    /\ entries \subseteq reports
    /\ \A x \in reports : x[1] > now - Span => x \in entries
    /\ \A t \in Int : Recent(reports, t) <= Limit

LimInv == LimTypes /\ Fixed /\ Sliding

LEMMA LimStarts == LimitsInit => LimInv
<1> SUFFICES ASSUME LimitsInit PROVE LimInv
  OBVIOUS
<1> USE DEF LimitsInit
<1>1. LimTypes
  BY LimitBounds, FS_EmptySet DEF LimTypes, Numbered
<1>2. \A t : Within({}, t) = {} /\ Recent({}, t) = 0
  BY FS_EmptySet DEF Within, Recent
<1>3. Fixed /\ Sliding
  BY <1>2, LimitBounds DEF Fixed, Sliding
<1> QED  BY <1>1, <1>3 DEF LimInv

LEMMA LimPart ==
  ASSUME NEW S, IsFiniteSet(S), NEW T, T \subseteq S
  PROVE  IsFiniteSet(T) /\ Cardinality(T) \in Nat /\ Cardinality(S) \in Nat /\ Cardinality(T) <= Cardinality(S)
  BY FS_Subset, FS_CardinalityType

(* One attempt more.                                                       *)
LEMMA LimNumber ==
  ASSUME now \in Nat, NEW S, Numbered(S), NEW a, a = Attempt(S)
  PROVE  /\ a \notin S /\ a[1] = now
         /\ IsFiniteSet(S \cup {a}) /\ Cardinality(S \cup {a}) = Cardinality(S) + 1
         /\ Cardinality(S) \in Nat
         /\ \A x \in S \cup {a} : x[1] \in 0..now /\ x[2] \in 1..Cardinality(S \cup {a})
<1>1. IsFiniteSet(S) /\ Cardinality(S) \in Nat
  BY FS_CardinalityType DEF Numbered
<1>2. a[1] = now /\ a[2] = Cardinality(S) + 1
  BY DEF Attempt
<1>3. a \notin S
  BY <1>1, <1>2 DEF Numbered
<1>4. IsFiniteSet(S \cup {a}) /\ Cardinality(S \cup {a}) = Cardinality(S) + 1
  BY <1>1, <1>3, FS_AddElement
<1> QED  BY <1>1, <1>2, <1>3, <1>4 DEF Numbered

(* What it adds to a stretch of time.                                      *)
LEMMA LimRecent ==
  ASSUME now \in Nat, NEW S, Numbered(S), NEW a, a = Attempt(S), NEW t \in Int
  PROVE  /\ IsFiniteSet(Within(S, t)) /\ Recent(S, t) \in Nat
         /\ (now > t \/ now <= t - Span) => Recent(S \cup {a}, t) = Recent(S, t)
         /\ (now <= t /\ now > t - Span) =>
               /\ Within(S \cup {a}, t) = Within(S, t) \cup {a}
               /\ Recent(S \cup {a}, t) = Recent(S, t) + 1
<1>1. a \notin S /\ a[1] = now
  BY LimNumber
<1>2. IsFiniteSet(S) /\ Within(S, t) \subseteq S
  BY DEF Numbered, Within
<1>3. IsFiniteSet(Within(S, t)) /\ Recent(S, t) \in Nat
  BY <1>2, LimPart DEF Recent
<1>4. ASSUME now > t \/ now <= t - Span PROVE Recent(S \cup {a}, t) = Recent(S, t)
  <2>1. Within(S \cup {a}, t) = Within(S, t)
    BY <1>1, <1>4, LimitBounds DEF Within
  <2> QED  BY <2>1 DEF Recent
<1>5. ASSUME now <= t, now > t - Span
      PROVE  /\ Within(S \cup {a}, t) = Within(S, t) \cup {a}
             /\ Recent(S \cup {a}, t) = Recent(S, t) + 1
  <2>1. Within(S \cup {a}, t) = Within(S, t) \cup {a}
    BY <1>1, <1>5 DEF Within
  <2>2. a \notin Within(S, t)
    BY <1>1 DEF Within
  <2> QED  BY <1>3, <2>1, <2>2, FS_AddElement DEF Recent
<1> QED  BY <1>3, <1>4, <1>5

LEMMA LimReport == ASSUME LimInv, CheckReport PROVE LimInv'
<1>1. now \in Nat /\ Numbered(reports) /\ Limit \in Nat \ {0} /\ Span \in Nat \ {0}
  BY LimitBounds DEF LimInv, LimTypes
<1>2. PICK a : a = Attempt(reports)
  OBVIOUS
<1>3. /\ reports' = reports \cup {a} /\ entries' = Within(entries, now) \cup {a}
      /\ UNCHANGED <<now, window, signIns>> /\ Recent(entries, now) < Limit
  BY <1>2 DEF CheckReport
<1>4. /\ a \notin reports /\ a[1] = now /\ Numbered(reports \cup {a})
  BY <1>1, <1>2, LimNumber DEF Numbered
<1>5. LimTypes'
  BY <1>3, <1>4 DEF LimInv, LimTypes, Numbered
<1>6. Fixed'
  BY <1>3 DEF LimInv, Fixed, Begun, Counted, Before, Recent, Within
<1>7. Within(entries, now) = Within(reports, now)
  BY DEF LimInv, Sliding, Within
<1>8. ASSUME NEW t \in Int PROVE Recent(reports \cup {a}, t) <= Limit
  <2>1. Recent(reports, t) \in Nat /\ Recent(reports, t) <= Limit
    BY <1>1, <1>2, LimRecent DEF LimInv, Sliding
  <2>2. CASE now > t \/ now <= t - Span
    BY <1>1, <1>2, <2>1, <2>2, LimRecent
  <2>3. CASE now <= t /\ now > t - Span
    <3>1. Within(reports, t) \subseteq Within(reports, now)
      BY <1>1, <2>3 DEF Within, Numbered, LimInv, LimTypes
    <3>2. IsFiniteSet(Within(reports, now)) /\ Recent(reports, now) \in Nat
      <4>1. Within(reports, now) \subseteq reports /\ IsFiniteSet(reports)
        BY <1>1 DEF Within, Numbered
      <4> QED  BY <4>1, LimPart DEF Recent
    <3>3. Recent(reports, t) <= Recent(reports, now)
      BY <3>1, <3>2, LimPart DEF Recent
    <3>4. Recent(reports, now) < Limit
      BY <1>3, <1>7 DEF Recent
    <3>5. Recent(reports \cup {a}, t) = Recent(reports, t) + 1
      BY <1>1, <1>2, <2>3, LimRecent
    <3> QED  BY <1>1, <2>1, <3>2, <3>3, <3>4, <3>5
  <2> QED  BY <1>1, <2>2, <2>3
<1>9. Sliding'
  <2>1. entries' \subseteq reports'
    BY <1>3 DEF LimInv, Sliding, Within
  <2>2. \A x \in reports' : x[1] > now' - Span => x \in entries'
    BY <1>1, <1>3, <1>7 DEF Within, Numbered
  <2>3. \A t \in Int : Recent(reports, t)' <= Limit
    BY <1>3, <1>8 DEF Recent, Within
  <2> QED  BY <2>1, <2>2, <2>3 DEF Sliding
<1> QED  BY <1>5, <1>6, <1>9 DEF LimInv

(* A sign-in let through, in the window that is open or in a new one.      *)
LEMMA LimSignIn == ASSUME LimInv, CheckSignIn PROVE LimInv'
<1>1. /\ now \in Nat /\ Numbered(signIns) /\ Limit \in Nat \ {0} /\ Span \in Nat \ {0}
      /\ window \in [count : 0..Limit, ends : Nat] /\ Fixed
  BY LimitBounds DEF LimInv, LimTypes
<1>2. PICK a : a = Attempt(signIns)
  OBVIOUS
<1>3. /\ signIns' = signIns \cup {a} /\ UNCHANGED <<now, entries, reports>>
  BY <1>2 DEF CheckSignIn
<1>4. /\ a \notin signIns /\ a[1] = now /\ Numbered(signIns \cup {a})
      /\ IsFiniteSet(signIns)
  BY <1>1, <1>2, LimNumber DEF Numbered
<1>5. Sliding'
  BY <1>3 DEF LimInv, Sliding, Recent, Within
<1>6. ASSUME window' \in [count : 1..Limit, ends : Nat],
             Begun' \in 0..now, Cardinality(Counted') = window'.count,
             \E x \in Counted' : x[1] = Begun',
             \A x \in signIns' : x[1] < window'.ends,
             Cardinality(Before') <= Limit - 1
      PROVE  LimInv'
  <2>0. window' \in [count : 0..Limit, ends : Nat] /\ window'.count > 0
    BY <1>1, <1>6
  <2>1. LimTypes'
    BY <1>1, <1>3, <1>4, <2>0 DEF LimInv, LimTypes, Numbered
  <2>2. ASSUME NEW t \in Int PROVE Recent(signIns \cup {a}, t) <= 2 * Limit - 1
    <3>1. Recent(signIns, t) \in Nat /\ Recent(signIns, t) <= 2 * Limit - 1
      BY <1>1, <1>2, LimRecent DEF Fixed
    <3>2. CASE now > t \/ now <= t - Span
      BY <1>1, <1>2, <3>1, <3>2, LimRecent
    <3>3. CASE now <= t /\ now > t - Span
      <4>1. /\ IsFiniteSet(signIns') /\ Begun' \in Int /\ Begun' <= t /\ \A x \in signIns' : x[1] \in Int
        BY <1>1, <1>3, <1>4, <1>6, <3>3 DEF Numbered
      <4>2. Within(signIns', t) \subseteq Counted' \cup Before'
        BY <1>1, <4>1 DEF Within, Counted, Before
      <4>3. Counted' \subseteq signIns' /\ Before' \subseteq signIns'
        BY DEF Counted, Before
      <4>4. /\ IsFiniteSet(Counted') /\ IsFiniteSet(Before')
            /\ Cardinality(Counted') \in Nat /\ Cardinality(Before') \in Nat
        BY <4>1, <4>3, LimPart
      <4>5. /\ IsFiniteSet(Counted' \cup Before')
            /\ Cardinality(Counted' \cup Before') <= Cardinality(Counted') + Cardinality(Before')
        <5>1. Counted' \cap Before' = {}
          BY <1>1, <4>1, <4>3 DEF Counted, Before
        <5>2. /\ IsFiniteSet(Counted' \cup Before')
              /\ Cardinality(Counted' \cup Before') =
                    Cardinality(Counted') + Cardinality(Before') - Cardinality(Counted' \cap Before')
          BY <4>4, FS_Union
        <5>3. Cardinality(Counted' \cap Before') = 0
          BY <5>1, FS_EmptySet
        <5> QED  BY <4>4, <5>2, <5>3
      <4>6. Cardinality(Within(signIns', t)) <= Cardinality(Counted' \cup Before')
            /\ Cardinality(Within(signIns', t)) \in Nat /\ Cardinality(Counted' \cup Before') \in Nat
        BY <4>2, <4>5, LimPart
      <4>7. Cardinality(Within(signIns', t)) <= 2 * Limit - 1
        BY <1>1, <1>6, <4>4, <4>5, <4>6
      <4> QED  BY <1>3, <4>7 DEF Recent
    <3> QED  BY <1>1, <3>2, <3>3
  <2>3. \A t \in Int : Recent(signIns, t)' <= 2 * Limit - 1
    BY <1>3, <2>2 DEF Recent, Within
  <2>4. Fixed'
    <3>1. /\ window'.count # 0 /\ now' = now
      BY <1>3, <2>0
    <3>2. (window.count > 0 =>
          /\ Begun \in 0..now
          /\ Cardinality(Counted) = window.count
          /\ \E x \in Counted : x[1] = Begun
          /\ \A x \in signIns : x[1] < window.ends
          /\ Cardinality(Before) <= Limit - 1)'
      BY <1>6, <3>1
    <3> QED  BY <2>3, <3>1, <3>2 DEF Fixed
  <2> QED  BY <1>5, <2>1, <2>4 DEF LimInv
<1>7. CASE window.count = 0
  <2>1. window' = [count |-> 1, ends |-> now + Span] /\ signIns = {} /\ signIns' = {a}
    BY <1>1, <1>3, <1>7 DEF CheckSignIn, Fixed
  <2>2. Begun' = now /\ window'.count = 1 /\ window'.ends = now + Span
    BY <1>1, <2>1 DEF Begun
  <2>3. Counted' = {a} /\ Before' = {}
    BY <1>1, <1>4, <2>1, <2>2 DEF Counted, Before
  <2>4. Cardinality(Counted') = 1 /\ Cardinality(Before') = 0
    BY <2>3, FS_Singleton, FS_EmptySet
  <2>5. window' \in [count : 1..Limit, ends : Nat] /\ Begun' \in 0..now /\ 0 <= Limit - 1
    BY <1>1, <2>1, <2>2
  <2>6. a \in Counted' /\ a[1] = Begun' /\ \A x \in signIns' : x[1] < window'.ends
    BY <1>1, <1>4, <2>1, <2>2, <2>3
  <2> QED  BY <1>6, <2>2, <2>4, <2>5, <2>6
<1>8. CASE window.count # 0 /\ window.ends <= now
  <2>1. window' = [count |-> 1, ends |-> now + Span] /\ window.count \in 1..Limit
    BY <1>1, <1>8 DEF CheckSignIn
  <2>2. Begun' = now /\ window'.count = 1 /\ window'.ends = now + Span
    BY <1>1, <2>1 DEF Begun
  <2>3. /\ Begun \in 0..now /\ Cardinality(Counted) = window.count
        /\ \A x \in signIns : x[1] \in Nat /\ x[1] < window.ends
    BY <1>1, <2>1 DEF Fixed, Numbered
  <2>4. Counted' = {a}
    BY <1>1, <1>3, <1>4, <1>8, <2>2, <2>3 DEF Counted
  <2>5. PICK first \in Counted : first[1] = Begun
    BY <1>1, <2>1 DEF Fixed
  <2>6. IsFiniteSet(Counted) /\ Counted \subseteq signIns
    BY <1>4, LimPart DEF Counted
  <2>7. Before' \subseteq Counted \ {first}
    <3>1. Begun + Span <= now /\ Begun \in Int /\ first[1] \in Int
      BY <1>1, <1>8, <2>3, <2>5 DEF Begun
    <3> QED  BY <1>1, <1>3, <1>4, <2>2, <2>3, <2>5, <3>1 DEF Before, Counted
  <2>8. IsFiniteSet(Counted \ {first}) /\ Cardinality(Counted \ {first}) = window.count - 1
    BY <2>3, <2>5, <2>6, FS_RemoveElement
  <2>9. Cardinality(Before') <= Limit - 1
    <3>1. Cardinality(Before') <= Cardinality(Counted \ {first}) /\ Cardinality(Before') \in Nat
      BY <2>7, <2>8, LimPart
    <3> QED  BY <1>1, <2>1, <2>8, <3>1
  <2>10. /\ a \in Counted' /\ a[1] = Begun' /\ \A x \in signIns' : x[1] < window'.ends
    BY <1>1, <1>3, <1>4, <1>8, <2>2, <2>3, <2>4
  <2>11. window' \in [count : 1..Limit, ends : Nat] /\ Begun' \in 0..now
    BY <1>1, <2>1, <2>2
  <2>12. Cardinality(Counted') = 1
    BY <2>4, FS_Singleton
  <2> QED  BY <1>6, <2>2, <2>9, <2>10, <2>11, <2>12
<1>9. CASE window.count # 0 /\ ~(window.ends <= now)
  <2>1. /\ window' = [window EXCEPT !.count = @ + 1] /\ window.count < Limit
    BY <1>9 DEF CheckSignIn
  <2>2. /\ window'.count = window.count + 1 /\ window'.ends = window.ends /\ Begun' = Begun
        /\ window' \in [count : 1..Limit, ends : Nat]
    BY <1>1, <2>1 DEF Begun
  <2>3. /\ Begun \in 0..now /\ Cardinality(Counted) = window.count
        /\ \E x \in Counted : x[1] = Begun
        /\ \A x \in signIns : x[1] < window.ends
        /\ Cardinality(Before) <= Limit - 1
    BY <1>1, <1>9 DEF Fixed
  <2>4. Counted' = Counted \cup {a} /\ Before' = Before
    BY <1>1, <1>3, <1>4, <2>2, <2>3 DEF Counted, Before
  <2>5. IsFiniteSet(Counted) /\ a \notin Counted
    BY <1>4, LimPart DEF Counted
  <2>6. Cardinality(Counted') = window.count + 1
    BY <2>3, <2>4, <2>5, FS_AddElement
  <2>7. \A x \in signIns' : x[1] < window'.ends
    BY <1>1, <1>3, <1>4, <1>9, <2>2, <2>3
  <2> QED  BY <1>3, <1>6, <2>2, <2>3, <2>4, <2>6, <2>7
<1> QED  BY <1>7, <1>8, <1>9

LEMMA LimInductive == LimInv /\ [LimitsNext]_limitVars => LimInv'
<1> SUFFICES ASSUME LimInv, [LimitsNext]_limitVars PROVE LimInv'
  OBVIOUS
<1>1. now \in Nat /\ Span \in Nat \ {0} /\ Limit \in Nat \ {0} /\ MaxNow \in Nat
  BY LimitBounds DEF LimInv, LimTypes
<1>2. CASE Tick
  <2>1. now' = now + 1 /\ UNCHANGED <<window, entries, signIns, reports>>
    BY <1>2 DEF Tick
  <2>2. LimTypes'
    BY <1>1, <2>1 DEF LimInv, LimTypes, Numbered
  <2>3. Fixed'
    BY <1>1, <2>1 DEF LimInv, Fixed, Begun, Counted, Before, Recent, Within
  <2>4. Sliding'
    BY <1>1, <2>1 DEF LimInv, LimTypes, Numbered, Sliding, Recent, Within
  <2> QED  BY <2>2, <2>3, <2>4 DEF LimInv
<1>3. CASE ClearSignIn
  <2>1. /\ window' = [count |-> 0, ends |-> 0] /\ signIns' = {} /\ UNCHANGED <<now, entries, reports>>
    BY <1>3 DEF ClearSignIn
  <2>2. LimTypes'
    BY <1>1, <2>1, FS_EmptySet DEF LimInv, LimTypes, Numbered
  <2>3. \A t : Recent(signIns, t)' = 0
    BY <2>1, FS_EmptySet DEF Within, Recent
  <2>4. Fixed'
    BY <1>1, <2>1, <2>3 DEF Fixed
  <2>5. Sliding'
    BY <2>1 DEF LimInv, Sliding, Recent, Within
  <2> QED  BY <2>2, <2>4, <2>5 DEF LimInv
<1>4. CASE UNCHANGED limitVars
  BY <1>4 DEF limitVars, LimInv, LimTypes, Numbered, Fixed, Begun, Counted, Before, Sliding, Recent, Within
<1> QED  BY <1>2, <1>3, <1>4, LimSignIn, LimReport DEF LimitsNext

LEMMA LimMeans == LimInv => AttemptsBounded
  BY LimitBounds DEF LimInv, Fixed, Sliding, AttemptsBounded, Times

-----------------------------------------------------------------------------
(* The office.                                                             *)
OfficeInv == IInv /\ Tended /\ StrInv /\ CalInv /\ LimInv

LEMMA OfficeStarts == OfficeInit => OfficeInv
<1> SUFFICES ASSUME OfficeInit PROVE OfficeInv
  OBVIOUS
<1>1. Init /\ StructureInit /\ CalendarInit /\ LimitsInit
  BY DEF OfficeInit
<1> QED  BY <1>1, Starts, TendedStarts, StrStarts, CalStarts, LimStarts DEF OfficeInv

LEMMA OfficeInductive == OfficeInv /\ [OfficeNext]_officeVars => OfficeInv'
<1> SUFFICES ASSUME OfficeInv, [OfficeNext]_officeVars PROVE OfficeInv'
  OBVIOUS
<1>1. [Next]_vars /\ [StructureNext]_structureVars /\ [CalendarNext]_calendarVars /\ [LimitsNext]_limitVars
  BY DEF OfficeNext, officeVars
<1> QED  BY <1>1, Inductive, TendedInductive, StrInductive, CalInductive, LimInductive DEF OfficeInv

(* Rows of different schools never meet, keys are unique, every profile    *)
(* stands for its role and every row is audited unless a statement fails   *)
(* (structure.service.ts).                                                 *)
THEOREM StructureSoundHolds == OfficeSpec => []StructureSound
<1>1. OfficeInv => StructureSound
  BY StrSound DEF OfficeInv
<1> QED  BY <1>1, OfficeStarts, OfficeInductive, PTL DEF OfficeSpec

(* The queries that tell of a class and those that show it agree           *)
(* (classIdsFor, recipients, calendarRecipients).                          *)
THEOREM NotifiedMaySeeHolds == OfficeSpec => []NotifiedMaySee
<1>1. OfficeInv => NotifiedMaySee
  BY StrMaySee DEF OfficeInv
<1> QED  BY <1>1, OfficeStarts, OfficeInductive, PTL DEF OfficeSpec

(* However cycles overlap and audiences change, a finished cycle has       *)
(* reminded whom it concerned all along and nobody it never concerned      *)
(* (enqueueDueGuidanceFollowUps, enqueueCalendarReminders).                *)
THEOREM EveryoneRemindedHolds == OfficeSpec => []EveryoneReminded
<1>1. OfficeInv => EveryoneReminded
  BY DEF OfficeInv, CalInv, EveryoneReminded
<1> QED  BY <1>1, OfficeStarts, OfficeInductive, PTL DEF OfficeSpec

(* A stretch of one window lets through at most the limit of reports and   *)
(* twice the limit less one of sign-ins (check, rateLimit).                *)
THEOREM AttemptsBoundedHolds == OfficeSpec => []AttemptsBounded
<1>1. OfficeInv => AttemptsBounded
  BY LimMeans DEF OfficeInv
<1> QED  BY <1>1, OfficeStarts, OfficeInductive, PTL DEF OfficeSpec

(* The store keeps its promises beside the other desks.                    *)
THEOREM OfficeFilesHold == OfficeSpec => [](NoDangling /\ DownloadIsWhole /\ FilesAccountedFor)
<1>1. OfficeInv => NoDangling /\ DownloadIsWhole /\ FilesAccountedFor
  BY FilesMeans DEF OfficeInv
<1> QED  BY <1>1, OfficeStarts, OfficeInductive, PTL DEF OfficeSpec
=============================================================================
