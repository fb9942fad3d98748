SPECIFICATION Spec
CONSTANTS
  N = 3
  DestroyWhen = "anytime"
INVARIANTS
  ResumeValid
CHECK_DEADLOCK FALSE
