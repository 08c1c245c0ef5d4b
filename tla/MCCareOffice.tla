---------------------------- MODULE MCCareOffice ----------------------------
(* Instances of CareOffice for TLC.                                        *)
EXTENDS CareOffice, TLC

StaffSymmetry == Permutations(Staff) \cup Permutations(Requests)
=============================================================================
