--------------------------- MODULE ServiceWorker ---------------------------
(***************************************************************************)
(* The service worker of the web client (public/sw.js), which keeps the    *)
(* start page for times without a network.  Each deployed version has a    *)
(* cache of its own name; a browser installs a new version while an older  *)
(* one is active or still being activated.                                 *)
(***************************************************************************)
EXTENDS Naturals

CONSTANTS
    Versions,     \* of sw.js, each with its CACHE_NAME
    MaxInstalls,  \* bound: installations begun
    MaxShutdowns  \* bound: times the browser is closed or killed

ASSUME ServiceWorkerBounds ==
    "" \notin Versions /\ MaxInstalls \in Nat /\ MaxShutdowns \in Nat

NoVersion == ""

VARIABLES
    deployed,     \* version the server has
    kept,         \* caches by name: page '/', other files, names of the older ones
    installing,   \* version being installed, how far, and as history whether
                  \* another was activating when it began, or its activation was cut
    active,       \* version in charge of the pages, and the same
    doomed,       \* names of caches the activation has found and not yet deleted
    installs, shutdowns

workerVars == <<deployed, kept, installing, active, doomed, installs, shutdowns>>

NoWorker == [version |-> NoVersion, at |-> "none", raced |-> FALSE, cut |-> FALSE]

NoCache == [page |-> FALSE, files |-> FALSE, after |-> {}]

ServiceWorkerInit ==
    /\ deployed \in Versions /\ kept = [name \in {} |-> NoCache]
    /\ installing = NoWorker /\ active = NoWorker /\ doomed = {}
    /\ installs = 0 /\ shutdowns = 0

CacheNames == DOMAIN kept

\* caches.open: makes the cache when there is none of the name.
Opened(name) ==
    [n \in CacheNames \cup {name} |->
        IF n \in CacheNames THEN kept[n] ELSE [NoCache EXCEPT !.after = CacheNames]]

\* caches.match: the oldest cache that has it.
Match == {n \in CacheNames : kept[n].page /\ \A o \in kept[n].after : ~kept[o].page}

Deploy(version) ==
    /\ version # deployed /\ deployed' = version
    /\ UNCHANGED <<kept, installing, active, doomed, installs, shutdowns>>

\* register and update: another script than that of the newest worker is installed.
Register ==
    /\ installing = NoWorker /\ deployed # active.version
    /\ installs < MaxInstalls /\ installs' = installs + 1
    /\ installing' = [version |-> deployed, at |-> "open", cut |-> FALSE,
                      raced |-> active.at \in {"activating", "deleting"}]
    /\ UNCHANGED <<deployed, kept, active, doomed, shutdowns>>

-----------------------------------------------------------------------------
(* install: open the cache, add the page to it, then skip waiting.         *)

OpenCache ==
    /\ installing.at = "open"
    /\ kept' = Opened(installing.version) /\ installing' = [installing EXCEPT !.at = "add"]
    /\ UNCHANGED <<deployed, active, doomed, installs, shutdowns>>

AddPage_NotAwaited ==
    /\ installing.at = "add" /\ installing' = [installing EXCEPT !.at = "added"]
    /\ \/ UNCHANGED kept
       \/ kept' = [n \in CacheNames |-> [kept[n] EXCEPT !.page = @ \/ n = installing.version]]
    /\ UNCHANGED <<deployed, active, doomed, installs, shutdowns>>

\* What is added to a cache that was deleted after it was opened is lost with it.
AddPage ==
    /\ installing.at = "add" /\ installing' = [installing EXCEPT !.at = "added"]
    /\ kept' = [n \in CacheNames |-> [kept[n] EXCEPT !.page = @ \/ n = installing.version]]
    /\ UNCHANGED <<deployed, active, doomed, installs, shutdowns>>

\* The page cannot be fetched, or is not answered with success: the version is
\* dropped, and its cache stays.
InstallFails ==
    /\ installing.at \in {"open", "add"} /\ installing' = NoWorker
    /\ UNCHANGED <<deployed, kept, active, doomed, installs, shutdowns>>

\* skipWaiting: the version takes the place of the active one, which is terminated,
\* when that has nothing left to do.
TakesOver ==
    /\ installing.at = "added" /\ active.at \in {"none", "active"}
    /\ active' = [installing EXCEPT !.at = "activating"] /\ installing' = NoWorker
    /\ UNCHANGED <<deployed, kept, doomed, installs, shutdowns>>

-----------------------------------------------------------------------------
(* activate: list the caches and delete all of another name.               *)

ListCaches_All ==
    /\ active.at = "activating" /\ active' = [active EXCEPT !.at = "deleting"]
    /\ doomed' = CacheNames
    /\ UNCHANGED <<deployed, kept, installing, installs, shutdowns>>

ListCaches ==
    /\ active.at = "activating" /\ active' = [active EXCEPT !.at = "deleting"]
    /\ doomed' = CacheNames \ {active.version}
    /\ UNCHANGED <<deployed, kept, installing, installs, shutdowns>>

DeleteCache(name) ==
    /\ name \in doomed /\ doomed' = doomed \ {name}
    /\ kept' = [n \in CacheNames \ {name} |-> [kept[n] EXCEPT !.after = @ \ {name}]]
    /\ UNCHANGED <<deployed, installing, active, installs, shutdowns>>

Activated ==
    /\ active.at = "deleting" /\ doomed = {} /\ active' = [active EXCEPT !.at = "active"]
    /\ UNCHANGED <<deployed, kept, installing, doomed, installs, shutdowns>>

\* The browser goes away: an installation is dropped, a version whose installation
\* had ended waits, and an activation is not taken up again.
Shutdown ==
    /\ shutdowns < MaxShutdowns /\ shutdowns' = shutdowns + 1
    /\ installing' = IF installing.at = "added" THEN installing ELSE NoWorker
    /\ active' = IF active.at \in {"none", "active"} THEN active
                 ELSE [active EXCEPT !.at = "active", !.cut = TRUE]
    /\ doomed' = {} /\ UNCHANGED <<deployed, kept, installs>>

\* fetch: a file of the site, other than pages and bundles, was answered with success;
\* a copy is put into the cache without anything waiting for it.
KeepFile ==
    /\ active.at = "active"
    /\ LET opened == Opened(active.version) IN
       kept' = [n \in DOMAIN opened |-> [opened[n] EXCEPT !.files = @ \/ n = active.version]]
    /\ UNCHANGED <<deployed, installing, active, doomed, installs, shutdowns>>

ServiceWorkerNext ==
    \/ \E version \in Versions : Deploy(version)
    \/ Register \/ OpenCache \/ AddPage \/ InstallFails \/ TakesOver
    \/ ListCaches \/ Activated \/ \E name \in doomed : DeleteCache(name)
    \/ Shutdown \/ KeepFile

-----------------------------------------------------------------------------
(* A version in charge has the start page in its cache, however many       *)
(* installations failed or were dropped before, unless it was installed    *)
(* while another was activating; and offline the page is answered from     *)
(* that cache and none of another version, unless the activation was cut   *)
(* short (install, activate and fetch of sw.js).                           *)
ShellKept ==
    active.at = "active" /\ ~active.raced =>
        /\ active.version \in CacheNames /\ kept[active.version].page
        /\ active.cut \/ Match = {active.version}
=============================================================================
