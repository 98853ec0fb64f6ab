SPECIFICATION Spec
CONSTANTS
  c1 = c1
  c2 = c2
  r1 = r1
  r2 = r2
  starter = starter
  Conns <- MCOneConn
  Refreshes <- MCRefreshes
  Starter = starter
  Pairs <- MCPairs
  MaxWrites = 2
  MaxErrors = 1
INVARIANTS CertificatesSound RefreshAllOrNothing
CHECK_DEADLOCK FALSE
