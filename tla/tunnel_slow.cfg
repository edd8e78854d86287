SPECIFICATION FairSpec
CONSTANTS
  c1 = c1
  c2 = c2
  Channels = {c1, c2}
  NUp <- One
  NDown <- One
  Cap = 1
  DialFails = FALSE
  MaxLeaves = 0
  MaxStalls = 1
  MaxPings = 0
PROPERTIES SlowChannelAlone
CHECK_DEADLOCK FALSE
