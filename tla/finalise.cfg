SPECIFICATION Spec
CONSTANTS
  j1 = j1
  j2 = j2
  Job <- TwoJobs
  FirstName = FirstName
  NoReview = NoReview
  MaxAuthority = 1
  MaxListing = 1
  MaxId = 4
INVARIANTS TypeOK ArtifactsAreWhole FilesAreAccountedFor StaleIsNeverFinal
SYMMETRY SameCompany
CHECK_DEADLOCK FALSE
