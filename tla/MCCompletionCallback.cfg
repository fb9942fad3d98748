SPECIFICATION Spec
CONSTANTS
  v1 = v1
  v2 = v2
  k1 = k1
  k2 = k2
  f1 = f1
  f2 = f2
  f3 = f3
  t1 = t1
  t2 = t2
  None = None
  Var <- TwoVars
  Id <- TwoIds
  Token <- ThreeTokens
  Thread <- TwoThreads
  DestroyWaits = TRUE
  SharedSetters = FALSE
INVARIANTS
  TypeOK
  CompletionSafe
  ExactToken
PROPERTIES
  KeepsContract
CHECK_DEADLOCK FALSE
