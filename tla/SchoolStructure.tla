-------------------------- MODULE SchoolStructure --------------------------
(***************************************************************************)
(* The structure of the schools (structure.service.ts): years, classes,    *)
(* subjects, profiles, enrolments, teacher assignments and parent links,   *)
(* and who by them belongs to a class, which five queries in four files    *)
(* work out from the rows each in its own way.                             *)
(*                                                                         *)
(* A row is a record of its table, its school and the rows it names.  Rows *)
(* are never changed or deleted, so what a handler found it can rely on;   *)
(* it races others only for the unique keys and with its audit record.     *)
(***************************************************************************)
EXTENDS Naturals, FiniteSets

CONSTANTS
    Schools,   \* schools
    People,     \* users
    Names,      \* names of years, classes and subjects
    Clerks,     \* requests of administrators that may be in progress together
    MaxMembers, \* bound: memberships
    MaxTasks    \* bound: requests begun

ASSUME StructureBounds == MaxMembers \in Nat /\ MaxTasks \in Nat

VARIABLES
    member,     \* role of each user in each school, or "none"
    rows,       \* rows of all tables
    left,       \* enrolments that are not ACTIVE any more
    audited,    \* rows with an audit record
    task,       \* the request of each clerk
    tasks,      \* requests begun
    broken      \* whether a statement has failed

structureVars == <<member, rows, left, audited, task, tasks, broken>>

Roles == {"STUDENT", "TEACHER", "PARENT", "SCHOOL_ADMIN"}
NoTask == [at |-> "idle"]
Table(t) == {x \in rows : x.table = t}
ProfileOf == [STUDENT |-> "student", TEACHER |-> "teacher", PARENT |-> "parent"]

(* Every school with its year and class: where a second term begins. *)
Furnished ==
    LET year(k, n) == [table |-> "year", school |-> k, name |-> n] IN
    UNION {{year(k, n), [table |-> "class", school |-> k, year |-> year(k, n), name |-> n]} :
              k \in Schools, n \in Names}

StructureInit ==
    /\ member \in [People \X Schools -> Roles \cup {"none"}]
    /\ Cardinality({x \in People \X Schools : member[x] # "none"}) <= MaxMembers
    /\ rows \in {{}, Furnished} /\ audited = rows /\ left = {}
    /\ task = [a \in Clerks |-> NoTask] /\ tasks = 0
    /\ broken = FALSE

-----------------------------------------------------------------------------
(* What an administrator of school k may ask for: rows name rows of any    *)
(* school, as their identifiers come from the client.                      *)

AskYear(k) == {[table |-> "year", school |-> k, name |-> n] : n \in Names}
AskSubject(k) == {[table |-> "subject", school |-> k, name |-> n] : n \in Names}
AskClass(k) == {[table |-> "class", school |-> k, year |-> y, name |-> n] :
                   y \in Table("year"), n \in Names}
AskProfile(k) == {[table |-> t, school |-> k, user |-> u] :
                     t \in {"student", "teacher", "parent"}, u \in People}
AskEnrolment(k) == {[table |-> "enrolment", school |-> k, year |-> y, class |-> c, student |-> s] :
                       y \in Table("year"), c \in Table("class"), s \in Table("student")}
AskAssignment(k) == {[table |-> "assignment", school |-> k, class |-> c, subject |-> b, teacher |-> t] :
                        c \in Table("class"), b \in Table("subject"), t \in Table("teacher")}
AskLink(k) == {[table |-> "link", school |-> k, parent |-> p, student |-> s] :
                  p \in Table("parent"), s \in Table("student")}

Ask(k) == AskYear(k) \cup AskSubject(k) \cup AskClass(k) \cup AskProfile(k)
              \cup AskEnrolment(k) \cup AskAssignment(k) \cup AskLink(k)

OfSchool_Unchecked(row, named) == TRUE

(* assertSchoolRecords: every row named is of the actor's school. *)
OfSchool(row, named) == \A x \in named : x.school = row.school

AssertMember_AnyRole(row) == member[row.user, row.school] # "none"

(* assertMember: the user is an active member in the role of the profile. *)
AssertMember(row) ==
    member[row.user, row.school] \in DOMAIN ProfileOf
        /\ ProfileOf[member[row.user, row.school]] = row.table

EnrolmentFits(row) ==
    OfSchool(row, {row.year, row.class, row.student}) /\ row.class.year = row.year

(* The checks each handler makes before it writes. *)
Accepted(row) ==
    CASE row.table \in {"year", "subject"} -> TRUE
      [] row.table = "class" -> OfSchool(row, {row.year})
      [] row.table \in {"student", "teacher", "parent"} -> AssertMember(row)
      [] row.table = "enrolment" -> EnrolmentFits(row)
      [] row.table = "assignment" -> OfSchool(row, {row.class, row.subject, row.teacher})
      [] row.table = "link" -> OfSchool(row, {row.parent, row.student})

(* The unique keys of the tables; for the others every column is in one.   *)
Conflicts(row) ==
    \E x \in Table(row.table) :
        \/ x = row
        \/ row.table \in {"student", "teacher", "parent"} /\ x.user = row.user
        \/ row.table = "enrolment" /\ x.year = row.year /\ x.student = row.student

-----------------------------------------------------------------------------
(* The handlers: check, create, record.  A conflict and a refused check    *)
(* end the request.                                                        *)

BeginTask(a, k, row) ==
    /\ task[a] = NoTask /\ tasks < MaxTasks
    /\ tasks' = tasks + 1
    /\ Accepted(row)
    /\ task' = [task EXCEPT ![a] = [at |-> "create", row |-> row]]
    /\ UNCHANGED <<member, rows, left, audited, broken>>

CreateRow(a) ==
    /\ task[a].at = "create"
    /\ IF Conflicts(task[a].row)
       THEN task' = [task EXCEPT ![a] = NoTask] /\ UNCHANGED rows
       ELSE /\ task' = [task EXCEPT ![a].at = "audit"]
            /\ rows' = rows \cup {task[a].row}
    /\ UNCHANGED <<member, left, audited, tasks, broken>>

AuditRow(a) ==
    /\ task[a].at = "audit"
    /\ audited' = audited \cup {task[a].row}
    /\ task' = [task EXCEPT ![a] = NoTask]
    /\ UNCHANGED <<member, rows, left, tasks, broken>>

(* A statement fails: the clerk sees an error although the row may exist.  *)
TaskFails(a) ==
    /\ task[a] # NoTask /\ ~broken
    /\ broken' = TRUE
    /\ task' = [task EXCEPT ![a] = NoTask]
    /\ UNCHANGED <<member, rows, left, audited, tasks>>

(* An operator ends an enrolment; no request does. *)
Leave(e) ==
    /\ e \in Table("enrolment") \ left
    /\ left' = left \cup {e}
    /\ UNCHANGED <<member, rows, audited, task, tasks, broken>>

StructureNext ==
    \/ \E a \in Clerks :
          \/ \E k \in Schools : \E row \in Ask(k) : BeginTask(a, k, row)
          \/ CreateRow(a) \/ AuditRow(a) \/ TaskFails(a)
    \/ \E e \in Table("enrolment") : Leave(e)

-----------------------------------------------------------------------------
(* Who belongs to a class.                                                 *)

Attends(s, c) == \E e \in Table("enrolment") \ left :
                    e.school = c.school /\ e.class = c /\ e.student = s
Teaches(t, c) == \E x \in Table("assignment") : x.class = c /\ x.teacher = t
ParentsOf(s) == {x.parent : x \in {x \in Table("link") : x.student = s}}

(* classIdsFor, by the role of the session: does it hold class c? *)
ClassIdsFor(u, k, c) ==
    LET role == member[u, k] IN
    /\ c.school = k
    /\ \/ role = "SCHOOL_ADMIN"
       \/ role = "TEACHER" /\ \E t \in Table("teacher") : t.user = u /\ Teaches(t, c)
       \/ role = "STUDENT" /\ \E s \in Table("student") : s.user = u /\ Attends(s, c)
       \/ role = "PARENT" /\ \E s \in Table("student") :
             Attends(s, c) /\ \E p \in ParentsOf(s) : p.user = u

(* The recipients of an announcement to a class: its pupils and parents.   *)
Recipients(c) ==
    UNION {{s.user} \cup {p.user : p \in ParentsOf(s)} : s \in {s \in Table("student") : Attends(s, c)}}

CalendarRecipients_Pupils(c) == Recipients(c)

(* calendarRecipients: the class's teachers as well. *)
CalendarRecipients(c) ==
    Recipients(c) \cup {t.user : t \in {t \in Table("teacher") : \E x \in Table("assignment") :
                                           x.school = c.school /\ x.class = c /\ x.teacher = t}}

(* validateBulkEnrollments, for one row: its own copy of the checks. *)
BulkRowValid(k, y, c, s) ==
    ~((\E x \in {y, c, s} : x.school # k) \/ c.year # y)

-----------------------------------------------------------------------------
(* Properties.                                                             *)

(* A pupil has at most one class in a year, of that year and of the        *)
(* pupil's school, a user one profile of a kind, and every profile the     *)
(* role it stands for; what the bulk check calls valid enroll refuses only *)
(* as a duplicate; and unless a statement fails every row has its audit    *)
(* record (enroll, validateBulkEnrollments, assertMember, auditChange).    *)
StructureSound ==
    /\ \A e \in Table("enrolment") :
          /\ e.class.year = e.year
          /\ {e.class.school, e.student.school, e.class.year.school} = {e.school}
          /\ \A x \in Table("enrolment") : x.year = e.year /\ x.student = e.student => x = e
    /\ \A x \in Table("assignment") : x.class.school = x.teacher.school
    /\ \A x \in Table("link") : x.parent.school = x.student.school
    /\ \A p, q \in Table("student") \cup Table("teacher") \cup Table("parent") :
          /\ ProfileOf[member[p.user, p.school]] = p.table
          /\ p.table = q.table /\ p.user = q.user => p = q
    /\ \A y \in Table("year"), c \in Table("class"), s \in Table("student") :
          BulkRowValid(y.school, y, c, s) <=>
             Accepted([table |-> "enrolment", school |-> y.school, year |-> y, class |-> c,
                       student |-> s])
    /\ ~broken /\ (\A a \in Clerks : task[a] = NoTask) => audited = rows

(* Whoever hears of a class announcement or event may open it, and whoever *)
(* but an administrator may see the events of a class is told of them: the *)
(* worker's queries over enrolments, links and assignments and the         *)
(* session's queries by role agree in every school (classIdsFor,           *)
(* recipients, calendarRecipients).                                        *)
NotifiedMaySee ==
    \A c \in Table("class") :
        LET may == {u \in People : ClassIdsFor(u, c.school, c)} IN
        /\ Recipients(c) \subseteq may
        /\ CalendarRecipients(c) = {u \in may : member[u, c.school] # "SCHOOL_ADMIN"}
=============================================================================
