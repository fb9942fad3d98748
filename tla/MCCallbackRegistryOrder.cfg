SPECIFICATION Spec
CONSTANTS
  v1 = v1
  v2 = v2
  v3 = v3
  k1 = k1
  k2 = k2
  k3 = k3
  r1 = r1
  None = None
  Var <- ThreeVars
  Id <- ThreeIds
  Req <- OneRequest
  DestroyWaits = TRUE
  AssignOverLive = FALSE
  ConnectionFirst = TRUE
SYMMETRY Sym
INVARIANTS
  EntrySafe
CHECK_DEADLOCK FALSE
