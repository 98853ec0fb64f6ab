SPECIFICATION FairSpec
CONSTANTS
  c1 = c1
  c2 = c2
  r1 = r1
  r2 = r2
  Conns = {c1, c2}
  Requests = {r1, r2}
  Http2 = {c2}
  Mode = "CancelOnDisconnect"
  UseTls = TRUE
  NoConn = NoConn
INVARIANTS
  CancelledWithClient
PROPERTIES
  ShutdownTerminates
