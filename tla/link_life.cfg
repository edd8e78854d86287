SPECIFICATION FairSpec
CONSTANTS
  MaxBinds = 2
  ConnCap = 1
  MaxID = 2
  Base = 2
  Faults = {"silent", "broken", "bad", "empty"}
INVARIANTS TypeOK OnlyTheseRacesPanic WaitMeansQuiet PingIsOwn PingTable FramesSurvive
PROPERTIES BindingEnds BindReturns
CHECK_DEADLOCK FALSE
