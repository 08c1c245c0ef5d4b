----------------------------- MODULE Navigation -----------------------------
(***************************************************************************)
(* Which pages a user is offered, and what the pages ask of the API        *)
(* (workspace-nav.tsx, workspace/page.tsx and the pages).  The menu is     *)
(* made from the roles kept in the tab's session storage and then from     *)
(* those /auth/me answers; each page asks for the roles once more.         *)
(***************************************************************************)
EXTENDS ApiRoles, Naturals

CONSTANTS
    RoleSets,     \* the sets of roles users have
    MaxSessions   \* bound: changes of the session

ASSUME NavigationBounds == RoleSets \subseteq ((SUBSET UserRoles) \ {{}}) /\ MaxSessions \in Nat

-----------------------------------------------------------------------------
(* The menu, and the tasks of the workspace for each role.                 *)

LinkRoles_ReportsForAll ==
    [workspace |-> UserRoles, assignments |-> Learners, attendance |-> Learners, progress |-> Learners,
     messages |-> {"TEACHER", "PARENT"}, safety |-> UserRoles, intake |-> UserRoles,
     cases |-> {"GUIDANCE"}, parent |-> {"PARENT"}, communications |-> UserRoles,
     structure |-> Admins, admin |-> Admins]

LinkRoles ==
    [workspace |-> UserRoles, assignments |-> Learners, attendance |-> Learners, progress |-> Learners,
     messages |-> {"TEACHER", "PARENT"}, safety |-> UserRoles, intake |-> {"GUIDANCE"},
     cases |-> {"GUIDANCE"}, parent |-> {"PARENT"}, communications |-> UserRoles,
     structure |-> Admins, admin |-> Admins]

Links(roles) == {p \in DOMAIN LinkRoles : LinkRoles[p] \cap roles # {}}

TasksOf(role) ==
    CASE role \in {"STUDENT", "TEACHER"} -> {"assignments", "communications", "attendance", "progress"}
      [] role = "PARENT" -> {"assignments", "communications", "parent", "progress"}
      [] role = "GUIDANCE" -> {"communications"}
      [] role = "SCHOOL_ADMIN" -> {"structure", "assignments", "communications", "attendance", "progress"}
      [] role = "PLATFORM_ADMIN" -> {"structure", "assignments", "progress"}

-----------------------------------------------------------------------------
(* The routes a page asks for when it opens and from the buttons it shows, *)
(* given the roles /auth/me told it, which are none until it has answered. *)

When(condition, routes) == IF condition THEN routes ELSE {}

AssignmentsPage(roles) ==
    {"assignments"}
    \cup When(roles \cap Learners # {}, {"signFile"})
    \cup When(roles \cap Staff # {}, {"classes", "createAssignment", "updateAssignment",
                                      "publishAssignment", "assignmentFile", "submissions", "feedback"})
    \cup When("STUDENT" \in roles, {"submit", "submissionFile"})

AttendanceRoutesUsed_Staff(roles) ==
    IF roles \cap Staff # {}
    THEN {"classes", "assignedClass", "attendance", "recordDaily", "correctAttendance"}
    ELSE IF "PARENT" \in roles THEN {"childrenAttendance"}
    ELSE When("STUDENT" \in roles, {"ownAttendance"})

AttendanceRoutesUsed(roles) ==
    IF "TEACHER" \in roles
    THEN {"classes", "assignedClass", "attendance", "recordDaily", "correctAttendance"}
    ELSE IF "PARENT" \in roles THEN {"childrenAttendance"}
    ELSE When("STUDENT" \in roles, {"ownAttendance"})

ProgressPage(roles) ==
    {"evaluations"}
    \cup When(roles \cap Staff # {}, {"manageableStudents", "createNote"})
    \cup When("PARENT" \in roles, {"acknowledgeNote"})

\* The buttons are those of a conversation, which only its parent and teacher have.
MessagesPage(roles) ==
    {"conversations"}
    \cup When(roles \cap {"PARENT", "TEACHER"} # {},
              {"send", "markConversation", "archiveConversation", "report", "signMessageFile"})
    \cup When("PARENT" \in roles, {"contacts", "createConversation"})

CommunicationsPage(roles) ==
    {"announcements", "events", "markAnnouncement"}
    \cup When(roles \cap Staff # {}, {"createAnnouncement", "publishAnnouncement", "createEvent"})
    \cup IF "TEACHER" \in roles THEN {"classes"}
         ELSE When(roles \cap Admins # {}, {"administrationOverview"})

SafetyPage == {"ownReports", "submitReport"}
IntakePage == {"intakeReports", "updateReport"}
CasesPage == {"cases", "createCase"}
ParentPage == {"parentDashboard"}
StructurePage == {"administrationOverview", "users", "createRecord", "invite", "userStatus"}
AdminPage == {"overview", "settings", "schoolReport", "updateSchool", "setFeatureFlag"}

RoutesOf(p, roles) ==
    {"me"} \cup CASE p \in {"workspace", "auth"} -> {}
                  [] p = "assignments" -> AssignmentsPage(roles)
                  [] p = "attendance" -> AttendanceRoutesUsed(roles)
                  [] p = "progress" -> ProgressPage(roles)
                  [] p = "messages" -> MessagesPage(roles)
                  [] p = "communications" -> CommunicationsPage(roles)
                  [] p = "safety" -> SafetyPage
                  [] p = "intake" -> IntakePage
                  [] p = "cases" -> CasesPage
                  [] p = "parent" -> ParentPage
                  [] p = "structure" -> StructurePage
                  [] p = "admin" -> AdminPage

-----------------------------------------------------------------------------
VARIABLES
    session,      \* server: roles of the signed-in user, {} without one, and the
                  \* number of the session
    place,        \* the page the tab is on, and the session its link was made for
    menu, learned,  \* roles the menu and the page have been told, and of which session
    cache,        \* the same in the tab's session storage
    asked,        \* answers of /auth/me to the menu and to the page: not asked,
                  \* asked, or on the way
    leaving,      \* signing out: the cache is cleared, the page not yet left
    otherwise     \* history: the tab came to the sign-in page otherwise than by
                  \* signing out, or the menu's answer arrived while it was leaving

told == <<menu, learned, cache>>
navVars == <<session, place, told, asked, leaving, otherwise>>

Nobody == [roles |-> {}, number |-> 0]
Silence == [who \in {"menu", "page"} |-> [at |-> "none", told |-> Nobody]]

NavigationInit ==
    /\ session = Nobody /\ place = [page |-> "auth", via |-> 0]
    /\ menu = Nobody /\ learned = Nobody /\ cache = Nobody
    /\ asked = Silence
    /\ leaving = FALSE /\ otherwise = FALSE

\* A page mounts: its menu starts from the cache, and both ask.
Opens(p, via) ==
    /\ place' = [page |-> p, via |-> via]
    /\ menu' = cache /\ learned' = Nobody
    /\ asked' = [who \in {"menu", "page"} |-> [at |-> "asked", told |-> Nobody]]

NewSession(roles) ==
    /\ session.number < MaxSessions
    /\ session' = [roles |-> roles, number |-> session.number + 1]

SignIn(roles) ==
    /\ place.page = "auth" /\ NewSession(roles)
    /\ Opens("workspace", session.number + 1)
    /\ UNCHANGED <<cache, leaving, otherwise>>

\* A link of the menu, or on the workspace one of the tasks.
Follow(p) ==
    /\ place.page # "auth" /\ ~leaving
    /\ \/ p \in Links(menu.roles) /\ Opens(p, menu.number)
       \/ /\ place.page = "workspace" /\ \E role \in learned.roles : p \in TasksOf(role)
          /\ Opens(p, learned.number)
    /\ UNCHANGED <<session, cache, leaving, otherwise>>

Me(who) ==
    /\ asked[who].at = "asked"
    /\ asked' = [asked EXCEPT ![who] = [at |-> "answered", told |-> session]]
    /\ UNCHANGED <<session, place, told, leaving, otherwise>>

Hear(who) ==
    LET answer == asked[who].told IN
    /\ asked[who].at = "answered"
    /\ asked' = [asked EXCEPT ![who].at = "none"]
    /\ IF who = "menu" THEN menu' = answer /\ cache' = answer /\ UNCHANGED learned
                       ELSE learned' = answer /\ UNCHANGED <<menu, cache>>
    /\ otherwise' = (otherwise \/ leaving)
    /\ UNCHANGED <<session, place, leaving>>

\* No answer: the menu is emptied and the cache removed; the page shows an error.
NotHeard(who) ==
    /\ asked[who].at # "none"
    /\ asked' = [asked EXCEPT ![who].at = "none"]
    /\ IF who = "menu" THEN menu' = Nobody /\ cache' = Nobody ELSE UNCHANGED <<menu, cache>>
    /\ UNCHANGED <<session, place, learned, leaving, otherwise>>

\* signOut: the session is revoked, then the cache removed, then the page left.
SignOut_CacheKept ==
    /\ place.page # "auth" /\ ~leaving /\ NewSession({})
    /\ leaving' = TRUE /\ UNCHANGED <<place, told, asked, otherwise>>

SignOut ==
    /\ place.page # "auth" /\ ~leaving /\ NewSession({})
    /\ cache' = Nobody /\ leaving' = TRUE
    /\ UNCHANGED <<place, menu, learned, asked, otherwise>>

Left ==
    /\ leaving /\ leaving' = FALSE
    /\ place' = [page |-> "auth", via |-> 0] /\ menu' = Nobody /\ learned' = Nobody
    /\ asked' = Silence
    /\ UNCHANGED <<session, cache, otherwise>>

\* The cookie is shared: another tab signs in or out, or the session expires.
SessionChanges(roles) ==
    /\ NewSession(roles)
    /\ UNCHANGED <<place, told, asked, leaving, otherwise>>

\* The user goes to the sign-in page without signing out.
GoToAuth ==
    /\ place.page # "auth" /\ ~leaving
    /\ place' = [page |-> "auth", via |-> 0] /\ menu' = Nobody /\ learned' = Nobody
    /\ asked' = Silence
    /\ otherwise' = TRUE
    /\ UNCHANGED <<session, cache, leaving>>

NavigationNext ==
    \/ \E roles \in RoleSets : SignIn(roles)
    \/ \E roles \in RoleSets \cup {{}} : SessionChanges(roles)
    \/ \E p \in DOMAIN LinkRoles : Follow(p)
    \/ \E who \in {"menu", "page"} : Me(who) \/ Hear(who) \/ NotHeard(who)
    \/ SignOut \/ Left \/ GoToAuth

-----------------------------------------------------------------------------
(* Whatever page a user reaches by a link made from the roles of the       *)
(* present session, the API accepts the role for everything the page asks  *)
(* and offers; and the menu of a user who signed out is not left behind    *)
(* for the next one, unless its answer came while the page was being left  *)
(* (links, tasks, the conditions on roles in the pages, @Roles, signOut).  *)
OfferedIsAllowed ==
    /\ place.via = session.number /\ learned.number \in {0, session.number} /\ session.number > 0 =>
          \A r \in RoutesOf(place.page, learned.roles) : Permits(r, session.roles)
    /\ place.page = "auth" /\ ~otherwise => cache = Nobody
=============================================================================
