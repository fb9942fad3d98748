SPECIFICATION FairSpec
CONSTANTS
  m1 = m1
  m2 = m2
  w1 = w1
  w2 = w2
  None = None
  Msg <- Messages
  Worker <- Workers
  Options <- SomeOptions
  Overlap = FALSE
  max_deliver = 2
  MaxSeq = 2
  MaxAcks = 1
CHECK_DEADLOCK FALSE
INVARIANTS
  TypeOK
  RetriedOnce
  PubAckHolds
  NoLoss
  EffectOnce
PROPERTIES
  IsQueue
  Settles
