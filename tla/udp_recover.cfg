SPECIFICATION FairSpec
CONSTANTS
  m1 = m1
  m2 = m2
  m3 = m3
  NoMsg = NoMsg
  Messages = {m1, m2}
  Need <- ThreeOne
  SegSize = 5
  MaxSegments = 3
  NTrans = 2
  SWS = 2
  MaxTimes = 2
  MaxTries = 1
  Faults = {"loss", "close"}
  MaxDups = 0
  MaxLog = 2
INVARIANTS
  RetransmissionComplete
PROPERTIES
  SendReturns
CHECK_DEADLOCK FALSE
