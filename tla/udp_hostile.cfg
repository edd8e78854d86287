SPECIFICATION Spec
CONSTANTS
  m1 = m1
  m2 = m2
  m3 = m3
  NoMsg = NoMsg
  Messages = {m1, m2}
  Need <- TwoTwo
  SegSize = 5
  MaxSegments = 2
  NTrans = 2
  SWS = 1
  MaxTimes = 2
  MaxTries = 1
  Faults = {"loss", "dup", "overtake", "early", "impatient", "write", "close"}
  MaxDups = 1
  MaxLog = 3
INVARIANTS
  TypeOK
  SlotExclusive
  NoLostRegistration
  AbandonedQuery
  SuccessBacked
  FreshSlotIntact
CHECK_DEADLOCK FALSE
