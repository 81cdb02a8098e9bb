SPECIFICATION FairSpec
CONSTANTS
  a1 = a1
  a2 = a2
  loop = loop
  callback = callback
  Artifact <- OneArtifact
  Loop = loop
  Callback <- OneCallback
  MaxFaults = 4
INVARIANTS TypeOK ObjectsAreRecorded AtMostOneCallAfterDrift
PROPERTIES CompletionIsFresh FinalStatusStays RetriesFinish
CHECK_DEADLOCK FALSE
