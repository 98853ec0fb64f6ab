SPECIFICATION FairSpec
CONSTANTS
  c1 = c1
  c2 = c2
  r1 = r1
  r2 = r2
  starter = starter
  Conns <- MCConns
  Refreshes <- MCOneRefresh
  Starter = starter
  Pairs <- MCPairs
  MaxWrites = 0
  MaxErrors = 1
PROPERTIES OthersServed
CHECK_DEADLOCK FALSE
