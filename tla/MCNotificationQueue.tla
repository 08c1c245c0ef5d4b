------------------------ MODULE MCNotificationQueue ------------------------
(* Instances of NotificationQueue for TLC.                                 *)
EXTENDS NotificationQueue, TLC

CycleSymmetry == Permutations(Cycles)
=============================================================================
