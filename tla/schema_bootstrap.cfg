\* The connection loop with one other fiber, over a table of two columns.
CONSTANTS
  c1 = c1
  c2 = c2
  c3 = c3
  f1 = f1
  latency = latency
  isp = isp
  Conns = {c1, c2, c3}
  NoConn = NoConn
  Fibers = {f1}
  Loop = Loop
  Finalizer = Finalizer
  AttemptsTimeOut = TRUE
  CloseIsUsed = FALSE
  ScopeCloses = FALSE
  Columns = {latency, isp}
SPECIFICATION BootstrapFairSpec
INVARIANTS
  BootstrapTypeOK
  PublishedTablesAreComplete
PROPERTIES
  Recovers
  ColumnsArrive
  ImplementsConnection
