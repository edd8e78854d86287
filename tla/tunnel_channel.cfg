SPECIFICATION Spec
CONSTANTS
  c1 = c1
  c2 = c2
  Channels = {c1}
  NUp <- Two
  NDown <- One
  Cap = 2
  DialFails = TRUE
  MaxLeaves = 2
  MaxStalls = 0
  MaxPings = 1
INVARIANTS TypeOK StreamInOrder NoSplice CloseAnnounced ClosesHaveCause EntryIsOwn
CHECK_DEADLOCK FALSE
