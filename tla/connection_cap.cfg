CONSTANTS
  c1 = c1
  c2 = c2
  c3 = c3
  f1 = f1
  f2 = f2
  Conns = {c1, c2, c3}
  NoConn = NoConn
  Fibers = {f1, f2}
  Loop = Loop
  Finalizer = Finalizer
  AttemptsTimeOut = FALSE
  CloseIsUsed = FALSE
  ScopeCloses = FALSE
SPECIFICATION Spec
INVARIANT OneBackingPool
