CONSTANTS
  e1 = e1
  e2 = e2
  Entries = {e1, e2}
  Configured = {e1, e2}
  Monitor = Monitor
  Triggers = {}
  PingInterval = 2
  PingDeadline = 1
  LiveWindowMin = 1
  Retries = 0
  LastSecond = 8
  LastCycle = 4
  TracedSecond = 6
  TracedCycle = 6
  LastFailure = 0
  FailedPings = 0
  Outcomes = {"clean", "failed"}
SPECIFICATION Spec
SYMMETRY Symmetry
CHECK_DEADLOCK FALSE
INVARIANT LiveDownMeansAllDown
