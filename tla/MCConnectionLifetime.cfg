SPECIFICATION FairSpec
CONSTANTS
  o1 = o1
  o2 = o2
  c1 = c1
  c2 = c2
  c3 = c3
  h1 = h1
  h2 = h2
  h3 = h3
  r1 = r1
  None = None
  Obj <- Objects
  Conn <- ThreeConns
  Handlers <- ThreeHandlers
  Req <- OneRequest
  DestroyWaits = TRUE
  ReuseMovedFrom = FALSE
INVARIANTS
  TypeOK
  HandlersOutlive
  OwnedIffLive
  MembersAgree
PROPERTIES
  CallsReturn
  HandlersFreed
CHECK_DEADLOCK FALSE
