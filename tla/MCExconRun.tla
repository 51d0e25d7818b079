----------------------------- MODULE MCExconRun ------------------------------
(***************************************************************************)
(* Instances of the EXCON run.                                             *)
(***************************************************************************)
EXTENDS ExconRun, TLC

CONSTANTS s1, s2

BothSpecialists == {s1, s2}
ShortLease == {1}

SpecialistsAlike == Permutations(BothSpecialists)
=============================================================================
