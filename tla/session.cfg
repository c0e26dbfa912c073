\* One charted slot under two ranges and two themes; two fetches of a query, two of
\* the earliest datapoint and one speed test in flight at once.
CONSTANTS
  AllTime = AllTime
  Week = Week
  Now = Now
  NoData = NoData
  Slots = {"metrics"}
  Ranges = {AllTime, Week}
  Themes = {"light", "dark"}
  Refused = {"token"}
  MaxFetches = 2
  MaxAsks = 2
  MaxTests = 1
SPECIFICATION FairSpec
INVARIANTS
  TypeOK
  PendingIsFetching
  ChartsShowTheModel
  EndedSessionsStayEnded
PROPERTIES
  SettingsSurvive
  RefreshConverges
