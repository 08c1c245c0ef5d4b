--------------------------- MODULE MCSchoolOffice ---------------------------
(* Instances of SchoolOffice for TLC.                                      *)
EXTENDS SchoolOffice, TLC

\* People, clerks and schools are interchangeable.  The clerks' requests and
\* the reminder worker's cycles have the names of two of the file requests.
OfficeSymmetry == Permutations(People) \cup Permutations(Clerks) \cup Permutations(Schools)
=============================================================================
