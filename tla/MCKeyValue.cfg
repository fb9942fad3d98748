SPECIFICATION Spec
CONSTANTS
  c1 = c1
  c2 = c2
  k1 = k1
  None = None
  Client <- Clients
  Key <- Keys
  Options <- SomeOptions
  History = 2
  MaxRev = 3
  MaxLate = 1
CONSTRAINT Focus
SYMMETRY Sym
INVARIANTS
  TypeOK
  CompareAndSet
  CopyFollows
PROPERTIES
  Session
  IsAtomic
CHECK_DEADLOCK FALSE
