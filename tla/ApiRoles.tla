------------------------------ MODULE ApiRoles ------------------------------
(***************************************************************************)
(* The routes of the API, each with the roles it accepts (the @Roles       *)
(* decorators of the controllers), and the guards that decide.             *)
(***************************************************************************)

Admins == {"SCHOOL_ADMIN", "PLATFORM_ADMIN"}
Staff == Admins \cup {"TEACHER"}
Learners == Staff \cup {"STUDENT", "PARENT"}
UserRoles == Learners \cup {"GUIDANCE"}
Anyone == {}      \* a route without @Roles

To(routes, roles) == routes \X {roles}

AuthRoutes == To({"me"}, Anyone) \cup To({"users", "userStatus"}, Admins)

SchoolRoutes == To({"invite"}, Admins) \cup To({"createSchool"}, {"PLATFORM_ADMIN"})

StructureRoutes_ClassesOfTeachers ==
    To({"administrationOverview", "createRecord"}, Admins)
    \cup To({"classes", "assignedClass"}, {"TEACHER"}) \cup To({"linkedChildren"}, {"PARENT"})

\* createRecord stands for the nine POST routes of the controller.
StructureRoutes ==
    To({"administrationOverview", "createRecord"}, Admins) \cup To({"classes"}, Staff)
    \cup To({"assignedClass"}, {"TEACHER"}) \cup To({"linkedChildren"}, {"PARENT"})

AssignmentRoutes ==
    To({"assignments"}, Anyone)
    \cup To({"createAssignment", "updateAssignment", "publishAssignment", "assignmentFile", "feedback"}, Staff)
    \cup To({"submit", "submissionFile"}, {"STUDENT"})
    \cup To({"submissions", "signFile"}, Learners)

AttendanceRoutes ==
    To({"recordDaily", "attendance", "correctAttendance", "attendanceHistory"}, Staff)
    \cup To({"ownAttendance"}, {"STUDENT"}) \cup To({"childrenAttendance"}, {"PARENT"})

EvaluationRoutes ==
    To({"evaluations", "evaluationSummary"}, Learners)
    \cup To({"manageableStudents", "createNote", "updateNote", "noteHistory"}, Staff)
    \cup To({"acknowledgeNote"}, {"PARENT"})

MessagingRoutes ==
    To({"conversations", "send", "markConversation", "archiveConversation", "report", "signMessageFile"},
       {"PARENT", "TEACHER"})
    \cup To({"contacts", "createConversation"}, {"PARENT"})
    \cup To({"conversation"}, {"PARENT", "TEACHER", "SCHOOL_ADMIN"})

CommunicationRoutes ==
    To({"announcements", "events", "markAnnouncement"}, Anyone)
    \cup To({"createAnnouncement", "publishAnnouncement", "createEvent"}, Staff)

SafetyRoutes ==
    To({"ownReports", "submitReport"}, Anyone)
    \cup To({"intakeReports", "updateReport", "signEvidence"}, {"GUIDANCE"})

GuidanceRoutes == To({"cases", "createCase", "updateCase"}, {"GUIDANCE"})

ReportRoutes == To({"overview", "schoolReport"}, Admins)
ParentRoutes == To({"parentDashboard"}, {"PARENT"})

SettingsRoutes ==
    To({"settings", "updateSchool", "setFeatureFlag"}, Admins)
    \cup To({"updateSubscription"}, {"PLATFORM_ADMIN"})

RouteRoles ==
    AuthRoutes \cup SchoolRoutes \cup StructureRoutes \cup AssignmentRoutes \cup AttendanceRoutes
    \cup EvaluationRoutes \cup MessagingRoutes \cup CommunicationRoutes \cup SafetyRoutes
    \cup GuidanceRoutes \cup ReportRoutes \cup ParentRoutes \cup SettingsRoutes

\* AuthGuard asks for a session and RolesGuard for one of the roles; the pages
\* never name another school, which TenantGuard would refuse.
Permits(route, roles) ==
    /\ roles # {}
    /\ \E r \in RouteRoles : r[1] = route /\ (r[2] = Anyone \/ r[2] \cap roles # {})
=============================================================================
