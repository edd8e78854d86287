SPECIFICATION FairSpec
CONSTANTS
  c1 = c1
  c2 = c2
  Channels = {c1}
  NUp <- Two
  NDown <- One
  Cap = 2
  DialFails = FALSE
  MaxLeaves = 1
  MaxStalls = 2
  MaxPings = 0
PROPERTIES EveryChannelFlows CloseArrives
CHECK_DEADLOCK FALSE
