--------------------------- MODULE MCNoticeboard ---------------------------
(* Instances of Noticeboard for TLC.                                       *)
EXTENDS Noticeboard

\* Users of each role, and a teacher who is a parent.
UserKinds == {{role} : role \in UserRoles} \cup {{"TEACHER", "PARENT"}}
=============================================================================
