\* Two fetches of a query in flight: the older one may be answered last.
CONSTANTS
  AllTime = AllTime
  Week = Week
  Now = Now
  NoData = NoData
  Slots = {"metrics"}
  Ranges = {AllTime, Week}
  Themes = {"light"}
  Refused = {"settings", "token"}
  MaxFetches = 2
  MaxAsks = 1
  MaxTests = 1
SPECIFICATION Spec
INVARIANT SettledSlotsAreCurrent
