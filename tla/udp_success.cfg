SPECIFICATION Spec
CONSTANTS
  m1 = m1
  m2 = m2
  m3 = m3
  NoMsg = NoMsg
  Messages = {m1, m2}
  Need <- TwoTwo
  SegSize = 5
  MaxSegments = 2
  NTrans = 1
  SWS = 2
  MaxTimes = 2
  MaxTries = 4
  Faults = {"loss"}
  MaxDups = 0
  MaxLog = 2
INVARIANTS
  SuccessMeansDelivered
CHECK_DEADLOCK FALSE
