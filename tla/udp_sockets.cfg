SPECIFICATION FairSpec
CONSTANTS
  client = client
  server = server
  Clients <- MCClients
  Server = server
  MaxConns <- MCMaxConns
  MaxStarts = 2
  Faults <- MCFaults
INVARIANTS TypeOK OneConnPerAddress AcceptedOnce OnlyDoubleClosePanics ClientBlocksLate
PROPERTIES Connects ServerKeepsUp SilenceIsNoticed
CHECK_DEADLOCK FALSE
