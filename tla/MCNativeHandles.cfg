SPECIFICATION Spec
CONSTANTS
  o1 = o1
  o2 = o2
  w1 = w1
  w2 = w2
  c1 = c1
  c2 = c2
  c3 = c3
  s1 = s1
  s2 = s2
  h1 = h1
  h2 = h2
  h3 = h3
  d1 = d1
  None = None
  Obj <- Objects
  Wrapper <- Wrappers
  Ctx <- Contexts
  Store <- Stores
  Handle <- Handles
  Task <- OneTask
SYMMETRY Sym
INVARIANTS
  TypeOK
  OneOwner
  StoreWithContext
CHECK_DEADLOCK FALSE
