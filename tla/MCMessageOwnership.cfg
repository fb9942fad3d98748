SPECIFICATION Spec
CONSTANTS
  m1 = m1
  m2 = m2
  m3 = m3
  m4 = m4
  v1 = v1
  v2 = v2
  t1 = t1
  t2 = t2
  None = None
  Msg <- Messages
  Var <- Variables
  Thread <- Threads
  Batch = 3
SYMMETRY Sym
INVARIANTS
  TypeOK
  OneOwner
  FetchKeepsOrder
CHECK_DEADLOCK FALSE
