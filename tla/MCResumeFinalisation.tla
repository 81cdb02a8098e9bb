------------------------ MODULE MCResumeFinalisation ------------------------
(***************************************************************************)
(* Instances of ResumeFinalisation for TLC.                                *)
(***************************************************************************)
EXTENDS ResumeFinalisation, TLC
CONSTANTS j1, j2
TwoJobs == {j1, j2}
SameCompany == Permutations(TwoJobs)
=============================================================================
