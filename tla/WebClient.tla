----------------------------- MODULE WebClient ------------------------------
(***************************************************************************)
(* Parts of the web client side by side: the menu and the roles, a page    *)
(* with forms, the attendance page, the texts of the assignments page, and *)
(* the service worker.  They share no state, so a behaviour follows one.   *)
(***************************************************************************)
EXTENDS Navigation, WebForms, AttendancePage, WorkEditors, ServiceWorker

VARIABLE shownPart

webVars == <<navVars, formVars, pageVars, workVars, workerVars, shownPart>>

\* Where a part is not followed, one of its initial states is enough.
WebInit ==
    /\ shownPart \in {"menu", "forms", "attendance", "texts", "worker"}
    /\ NavigationInit /\ WebFormsInit /\ AttendancePageInit /\ WorkEditorsInit /\ ServiceWorkerInit
    /\ shownPart # "forms" => tab.name = "cases"
    /\ shownPart # "attendance" => taken = {}
    /\ shownPart # "worker" => deployed = CHOOSE v \in Versions : TRUE

WebNext ==
    /\ \/ shownPart = "menu" /\ NavigationNext /\ UNCHANGED <<formVars, pageVars, workVars, workerVars>>
       \/ shownPart = "forms" /\ WebFormsNext /\ UNCHANGED <<navVars, pageVars, workVars, workerVars>>
       \/ shownPart = "attendance" /\ AttendancePageNext
          /\ UNCHANGED <<navVars, formVars, workVars, workerVars>>
       \/ shownPart = "texts" /\ WorkEditorsNext /\ UNCHANGED <<navVars, formVars, pageVars, workerVars>>
       \/ shownPart = "worker" /\ ServiceWorkerNext /\ UNCHANGED <<navVars, formVars, pageVars, workVars>>
    /\ UNCHANGED shownPart

WebSpec == WebInit /\ [][WebNext]_webVars
=============================================================================
