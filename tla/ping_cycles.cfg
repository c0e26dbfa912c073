\* Three scheduled cycles against the clock, or two cycles of which one is triggered.
CONSTANTS
  e1 = e1
  e2 = e2
  t1 = t1
  Entries = {e1, e2}
  Configured = {e1, e2}
  Monitor = Monitor
  Triggers = {t1}
  PingInterval = 2
  PingDeadline = 1
  LiveWindowMin = 1
  Retries = 1
  LastSecond = 6
  LastCycle = 3
  LastFailure = 1
  TracedSecond = 3
  TracedCycle = 2
  FailedPings = 0
  Outcomes = {"clean", "failed"}
SPECIFICATION Spec
SYMMETRY Symmetry
CONSTRAINT Bounds
CHECK_DEADLOCK FALSE
INVARIANTS
  TypeOK
  OneRowButForRetries
  StatsCountAcceptedRows
  BufferedForOneInterval
  FreshWhileKeepingUp
PROPERTIES
  DeliversRows
