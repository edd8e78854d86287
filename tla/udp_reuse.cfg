SPECIFICATION Spec
CONSTANTS
  m1 = m1
  m2 = m2
  m3 = m3
  NoMsg = NoMsg
  Messages = {m1, m2, m3}
  Need <- ThreeTwoOne
  SegSize = 5
  MaxSegments = 3
  NTrans = 2
  SWS = 2
  MaxTimes = 2
  MaxTries = 2
  Faults = {"early"}
  MaxDups = 0
  MaxLog = 3
PROPERTIES
  ImplementsChannel
CHECK_DEADLOCK FALSE
