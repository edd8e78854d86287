SPECIFICATION FairSpec
CONSTANTS
  a1 = a1
  a2 = a2
  b1 = b1
  x = x
  y = y
  NoCall = NoCall
  Calls = {a1, a2, b1}
  Owner <- MCOwner
  Reverse <- MCReverse
  Addr <- MCAddr
  Addrs = {x, y}
  ServerSide = "A"
  Shared = {"B"}
  Cap = 1
  Faults = {"busy", "down"}
INVARIANTS TypeOK OpenedBothEnds ListenersMatchTunnels ResponseExpected
PROPERTIES OpenReturns PairsTunnels
CHECK_DEADLOCK FALSE
