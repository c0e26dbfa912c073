CONSTANTS
  None = None
  Granularities = {2}
  DegradedShare = 60
  LastTime = 4
  LastBound = 6
SPECIFICATION Spec
INVARIANTS
  TypeOK
  PointsFindTheirSlots
  GreyMeansUnobserved
  BarsAreTheSlots
  HeadlineAgreesWithBars
