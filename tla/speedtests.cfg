CONSTANTS
  r1 = r1
  r2 = r2
  s1 = s1
  s2 = s2
  s3 = s3
  Requests = {r1, r2}
  Monitor = Monitor
  Tests = {s1, s2, s3}
  NoTest = NoTest
SPECIFICATION FairSpec
CHECK_DEADLOCK FALSE
INVARIANTS
  TypeOK
  GateIsHeldByOne
  LateResultsAreDropped
  CyclesAreCountedOnce
PROPERTIES
  TestsAreConcluded
  MonitorKeepsTesting
