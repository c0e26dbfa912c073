\* Two pairs of months of three days each, in five zones.
CONSTANTS
  None = None
  Presets = {"last1h", "last24h", "last7d", "last30d", "mtd", "qtd", "ytd", "last12m", "allTime"}
  MonthDays = 3
  Zones <- MCZones
  Times <- MCTimes
  Earliest <- MCEarliest
  Instants <- MCInstants
  FirstMonth = 10
  LastMonth = 12
  Picks = {33, 34, 35, 36}
SPECIFICATION Spec
CONSTRAINT Bounds
INVARIANTS
  TypeOK
  OneChoiceAtATime
  GridShowsTheMonth
  PickedDaysAreCovered
PROPERTIES
  LitIsTaken
  OpenShowsApplied
