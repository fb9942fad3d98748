SPECIFICATION FairSpec
CONSTANTS
  N = 3
  DestroyWhen = "before_ready"
INVARIANTS
  TypeOK
  ResumeValid
  RunsAlone
PROPERTIES
  KeepsContract
  SuspensionEnds
  WorkersEnd
CHECK_DEADLOCK FALSE
