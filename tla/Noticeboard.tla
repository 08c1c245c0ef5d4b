---------------------------- MODULE Noticeboard ----------------------------
(***************************************************************************)
(* The announcements of the server and the web client side by side.  They  *)
(* share no state, so a behaviour follows one of them.                     *)
(***************************************************************************)
EXTENDS Announcements, WebClient

VARIABLE side

boardVars == <<vars, webVars, side>>

BoardInit ==
    /\ side \in {"server", "client"}
    /\ Init /\ WebInit
    /\ side = "server" => shownPart = "menu"

BoardNext ==
    /\ \/ side = "server" /\ Next /\ UNCHANGED webVars
       \/ side = "client" /\ WebNext /\ UNCHANGED vars
    /\ UNCHANGED side

\* The fairness of the announcements; nothing is assumed of a browser or its user.
BoardSpec ==
    /\ BoardInit /\ [][BoardNext]_boardVars
    /\ \A c \in Cycles : WF_vars(side = "server" /\ CycleStep(c))
    /\ \A r \in Requests : WF_vars(side = "server" /\ RequestStep(r))
=============================================================================
