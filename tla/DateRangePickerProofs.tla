------------------------- MODULE DateRangePickerProofs -------------------------
(***************************************************************************)
(* The date range picker for any zones, months, presets and clocks.        *)
(*                                                                         *)
(* All of the arithmetic is in MidnightIsLeast: the midnight of a day is   *)
(* the first instant whose day is not an earlier one.  What the picker     *)
(* promises of windows and highlights follows from it by comparing         *)
(* instants and days.  Months are the multiples of their length            *)
(* (DayInMonth), and the weeks of one those of seven days (WeeksOfMonth).  *)
(***************************************************************************)
EXTENDS DateRangePicker, TLAPS

Zone(z) == z.before \in Int /\ z.after \in Int /\ z.change \in Int

LEMMA ZoneTypes == ASSUME NEW z \in Zones PROVE Zone(z)
  BY ZonesAssumption DEF Zone

\* The day of an instant is the one whose twenty-four hours the clocks show.
LEMMA DayOfTime ==
  ASSUME NEW x \in Int
  PROVE  /\ x \div HOURS_PER_DAY \in Int
         /\ HOURS_PER_DAY * (x \div HOURS_PER_DAY) <= x
         /\ x < HOURS_PER_DAY * (x \div HOURS_PER_DAY) + HOURS_PER_DAY
  BY DEF HOURS_PER_DAY

LEMMA LocalTypes ==
  ASSUME NEW z \in Zones, NEW t \in Int
  PROVE  LocalTime(z, t) \in Int /\ LocalDay(z, t) \in Int /\ MidnightOf(z, t) \in Int
  <1>1. LocalTime(z, t) \in Int
    BY ZoneTypes DEF Zone, LocalTime
  <1>2. LocalDay(z, t) \in Int
    BY <1>1, DayOfTime DEF LocalDay
  <1>3. MidnightOf(z, t) \in Int
    BY ZoneTypes DEF Zone, MidnightOf, HOURS_PER_DAY
  <1> QED
    BY <1>1, <1>2, <1>3

\* A day is reached when the clocks have shown its hours.
LEMMA DayReached ==
  ASSUME NEW z \in Zones, NEW t \in Int, NEW d \in Int
  PROVE  d <= LocalDay(z, t) <=> HOURS_PER_DAY * d <= LocalTime(z, t)
  <1>1. LocalTime(z, t) \in Int
    BY LocalTypes
  <1> QED
    BY <1>1, DayOfTime DEF LocalDay, HOURS_PER_DAY

\* The midnight of a day is the first instant that is not before that day.
LEMMA MidnightIsLeast ==
  ASSUME NEW z \in Zones, NEW t \in Int, NEW d \in Int
  PROVE  MidnightOf(z, d) <= t <=> d <= LocalDay(z, t)
  <1> DEFINE old == z.change + z.before
  <1> DEFINE new == z.change + z.after
  <1>1. z.before \in Int /\ z.after \in Int /\ z.change \in Int /\ old \in Int /\ new \in Int
    BY ZoneTypes DEF Zone
  \* The clocks do not go back over a midnight, and skip none that is not their first.
  <1>2. HOURS_PER_DAY * d <= old - 1 => HOURS_PER_DAY * d <= new
    <2>1. (old - 1) \div HOURS_PER_DAY <= new \div HOURS_PER_DAY
      <3>1. old - 1 = z.change - 1 + z.before
        BY <1>1
      <3> QED
        BY <3>1, ZonesAssumption
    <2>2. old - 1 \in Int /\ new \in Int
      BY <1>1
    <2> QED
      BY <2>1, <2>2, DayOfTime DEF HOURS_PER_DAY
  <1>3. HOURS_PER_DAY * d <= new - 1 => HOURS_PER_DAY * d <= old
    <2>1. (new - 1) \div HOURS_PER_DAY <= old \div HOURS_PER_DAY
      <3>1. new - 1 = z.change + z.after - 1
        BY <1>1
      <3> QED
        BY <3>1, ZonesAssumption
    <2>2. new - 1 \in Int /\ old \in Int
      BY <1>1
    <2> QED
      BY <2>1, <2>2, DayOfTime DEF HOURS_PER_DAY
  <1>4. MidnightOf(z, d) <= t <=> HOURS_PER_DAY * d <= LocalTime(z, t)
    <2> HIDE DEF old, new
    <2>1. old = z.change + z.before /\ new = z.change + z.after
      BY DEF old, new
    <2> QED
      BY <1>1, <1>2, <1>3, <2>1, SMTT(30) DEF MidnightOf, LocalTime, HOURS_PER_DAY
  <1> QED
    BY <1>4, DayReached

LEMMA LaterDays ==
  ASSUME NEW z \in Zones, NEW t \in Int, NEW u \in Int, t <= u
  PROVE  LocalDay(z, t) <= LocalDay(z, u)
  <1>1. LocalDay(z, t) \in Int /\ MidnightOf(z, LocalDay(z, t)) \in Int
    BY LocalTypes
  <1>2. MidnightOf(z, LocalDay(z, t)) <= t
    BY <1>1, MidnightIsLeast
  <1>3. MidnightOf(z, LocalDay(z, t)) <= u
    BY <1>1, <1>2
  <1> QED
    BY <1>1, <1>3, MidnightIsLeast

\* What a cell of the grid shows is a midnight, also where its day is skipped.
LEMMA MidnightsAreMidnights ==
  ASSUME NEW z \in Zones, NEW d \in Int
  PROVE  startOfLocalDay(z, MidnightOf(z, d)) = MidnightOf(z, d)
  <1> DEFINE m == MidnightOf(z, d)
  <1> DEFINE n == MidnightOf(z, LocalDay(z, m))
  <1>1. m \in Int /\ LocalDay(z, m) \in Int /\ n \in Int /\ LocalDay(z, n) \in Int
    BY LocalTypes
  <1>2. d <= LocalDay(z, m)
    BY <1>1, MidnightIsLeast
  <1>3. n <= m
    BY <1>1, MidnightIsLeast
  <1>4. LocalDay(z, m) <= LocalDay(z, n)
    BY <1>1, MidnightIsLeast
  <1>5. m <= n
    <2>1. d <= LocalDay(z, n)
      BY <1>1, <1>2, <1>4
    <2> QED
      BY <1>1, <2>1, MidnightIsLeast
  <1> QED
    BY <1>1, <1>3, <1>5 DEF startOfLocalDay

\* The midnight of a day there is, is on that day.
LEMMA DaysBegin ==
  ASSUME NEW z \in Zones, NEW t \in Int
  PROVE  LocalDay(z, startOfLocalDay(z, t)) = LocalDay(z, t)
  <1> DEFINE d == LocalDay(z, t)
             m == MidnightOf(z, d)
  <1>1. d \in Int /\ m \in Int /\ LocalDay(z, m) \in Int
    BY LocalTypes
  <1>2. m <= t /\ d <= LocalDay(z, m)
    BY <1>1, MidnightIsLeast
  <1>3. LocalDay(z, m) <= d
    BY <1>1, <1>2, LaterDays
  <1> QED
    BY <1>1, <1>2, <1>3 DEF startOfLocalDay

LEMMA StartsAreMidnights ==
  ASSUME NEW z \in Zones, NEW t \in Int
  PROVE  /\ startOfLocalDay(z, t) \in Int
         /\ startOfLocalDay(z, startOfLocalDay(z, t)) = startOfLocalDay(z, t)
         /\ startOfLocalDay(z, t) <= t
  <1>1. LocalDay(z, t) \in Int /\ MidnightOf(z, LocalDay(z, t)) \in Int
    BY LocalTypes
  <1> QED
    BY <1>1, MidnightsAreMidnights, MidnightIsLeast DEF startOfLocalDay

LEMMA StartsInOrder ==
  ASSUME NEW z \in Zones, NEW t \in Int, NEW u \in Int, t <= u
  PROVE  startOfLocalDay(z, t) <= startOfLocalDay(z, u)
  <1>1. LocalDay(z, t) \in Int /\ LocalDay(z, u) \in Int
    BY LocalTypes
  <1>2. startOfLocalDay(z, u) \in Int
    BY StartsAreMidnights
  <1>3. LocalDay(z, u) <= LocalDay(z, startOfLocalDay(z, u))
    BY <1>1, <1>2, MidnightIsLeast DEF startOfLocalDay
  <1>4. LocalDay(z, t) <= LocalDay(z, startOfLocalDay(z, u))
    <2>1. LocalDay(z, startOfLocalDay(z, u)) \in Int
      BY <1>2, LocalTypes
    <2> QED
      BY <1>1, <1>3, <2>1, LaterDays
  <1> QED
    BY <1>1, <1>2, <1>4, MidnightIsLeast DEF startOfLocalDay

\* The last instant of a day has the day's date and ends before the next midnight.
LEMMA EndOfDay ==
  ASSUME NEW z \in Zones, NEW t \in Int
  PROVE  /\ endOfLocalDay(z, t) \in Int
         /\ LocalDay(z, endOfLocalDay(z, t)) = LocalDay(z, t)
         /\ t <= endOfLocalDay(z, t)
         /\ \A u \in Int : u <= endOfLocalDay(z, t) <=> LocalDay(z, u) <= LocalDay(z, t)
  <1> DEFINE d == LocalDay(z, t)
  <1> DEFINE next == MidnightOf(z, d + 1)
  <1>1. d \in Int /\ next \in Int
    BY LocalTypes
  <1>2. endOfLocalDay(z, t) = next - 1
    BY DEF endOfLocalDay
  <1> HIDE DEF next
  <1>3. \A u \in Int : LocalDay(z, u) \in Int /\ (u <= next - 1 <=> LocalDay(z, u) <= d)
    <2> TAKE u \in Int
    <2>1. LocalDay(z, u) \in Int
      BY LocalTypes
    <2>2. next <= u <=> d + 1 <= LocalDay(z, u)
      BY <1>1, MidnightIsLeast DEF next
    <2> QED
      BY <1>1, <2>1, <2>2
  <1>4. t <= next - 1
    BY <1>1, <1>3
  <1>5. d <= LocalDay(z, next - 1)
    BY <1>1, <1>4, LaterDays
  <1>6. LocalDay(z, next - 1) = d
    BY <1>1, <1>3, <1>5
  <1> QED
    BY <1>1, <1>2, <1>3, <1>4, <1>6

-----------------------------------------------------------------------------
(* Types, and one choice at a time.                                        *)

Inv == TypeOK /\ OneChoiceAtATime

\* What the types say of a draft, by name.
IsDay(t) == t # None => t \in Int /\ IsLocalMidnight(t)

IsRange(r) ==
  r # None =>
    /\ r \in Ranges
    /\ IsLocalMidnight(r.start) /\ IsLocalMidnight(r.end)
    /\ r.start <= r.end

IsSelection(s) == s \in Selections /\ (s.tag = "Custom" => s.startTime <= s.endTime)

LEMMA Types ==
  TypeOK <=>
    /\ open \in BOOLEAN
    /\ visibleMonth \in [year : Int, month : 0 .. MONTHS_PER_YEAR - 1]
    /\ IsDay(maybeRangeStart) /\ IsDay(maybeHoveredDay) /\ IsRange(maybeDraftRange)
    /\ maybeDraftPreset \in Presets \cup {None}
    /\ IsSelection(dateRange)
    /\ maybeEarliest \in Earliest \cup {None}
    /\ zone \in Zones
    /\ now \in Times
  BY DEF TypeOK, IsDay, IsRange, IsSelection

LEMMA DayButtonsAreMidnights ==
  ASSUME TypeOK, NEW ym \in [year : Int, month : 0 .. MONTHS_PER_YEAR - 1],
         NEW c \in DayButtons(ym)
  PROVE  c.dateMs \in Int /\ IsLocalMidnight(c.dateMs)
  <1>1. PICK month \in MonthsFrom(ym) :
          \E k \in DOMAIN GridOf(month) : c = GridOf(month)[k]
    BY DEF DayButtons
  <1> PICK k \in DOMAIN GridOf(month) : c = GridOf(month)[k]
    BY <1>1
  <1>2. month \in Int
    BY DEF MonthsFrom, MonthIndex, MonthFrom, MONTHS_PER_YEAR
  <1> DEFINE shape == MonthShape(zone, month)
  <1> DEFINE day == FirstDay(shape.month) - shape.leading + k - 1
  <1>3. c.dateMs = MidnightOf(zone, day)
    BY DEF GridOf, buildMonthGrid, CellAt
  <1>4. day \in Int
    <2>1. zone \in Zones /\ MonthDays \in Nat \ {0}
      BY ZonesAssumption DEF TypeOK
    <2>2. FirstDay(month) \in Int
      BY <1>2, <2>1 DEF FirstDay
    <2>3. LocalDay(zone, MidnightOf(zone, FirstDay(month))) \in Int
      BY <2>1, <2>2, LocalTypes
    <2>4. shape.month \in Int /\ shape.leading \in Int
      BY <2>1, <2>3 DEF MonthShape, MonthOf, DAYS_PER_WEEK
    <2>5. FirstDay(shape.month) \in Int
      BY <2>1, <2>4 DEF FirstDay
    <2>6. k \in Int
      BY DEF GridOf, buildMonthGrid
    <2> QED
      BY <2>4, <2>5, <2>6
  <1> QED
    BY <1>3, <1>4, LocalTypes, MidnightsAreMidnights DEF IsLocalMidnight, TypeOK

LEMMA PresetTypes == ASSUME NEW p \in Presets PROVE IsSelection(Preset(p))
  BY DEF IsSelection, Selections, Preset

LEMMA InitInv == Init => Inv
  <1> SUFFICES ASSUME Init PROVE Inv
    OBVIOUS
  <1>1. IsSelection(dateRange)
    BY PresetTypes DEF Init
  <1>2. visibleMonth \in [year : Int, month : 0 .. MONTHS_PER_YEAR - 1]
    BY DEF Init, MONTHS_PER_YEAR
  <1>3. TypeOK
    BY <1>1, <1>2, Types DEF Init, IsDay, IsRange
  <1> QED
    BY <1>3 DEF Init, Inv, OneChoiceAtATime

LEMMA Windows ==
  ASSUME TypeOK
  PROVE  /\ getDateRangeWindow(dateRange).startTime \in Int
         /\ getDateRangeWindow(dateRange).endTime \in Int
  <1>1. now \in Int /\ (maybeEarliest # None => maybeEarliest \in Int)
    BY InputsAssumption DEF TypeOK
  <1>2. CASE dateRange.tag = "Preset"
    <2>1. dateRange.preset \in Presets
      BY <1>2 DEF TypeOK, Selections
    <2>2. dateRange.preset # "allTime" => PresetStart(dateRange.preset, now) \in Int
      <3>1. MonthDays \in Nat \ {0}
        BY ZonesAssumption
      <3>2. UTCMonth(now) \in Int
        BY <1>1, <3>1 DEF UTCMonth, MonthOf, LocalDay, LocalTime, UTC, HOURS_PER_DAY
      <3>3. \A i \in Int : FirstDay(i) \in Int
        BY <3>1 DEF FirstDay
      <3>4. \A i \in Int : MidnightOf(UTC, i) \in Int
        BY DEF MidnightOf, UTC, HOURS_PER_DAY
      <3>5. 3 * (UTCMonth(now) \div 3) \in Int /\ 12 * (UTCMonth(now) \div 12) \in Int
        BY <3>2
      <3>6. /\ MidnightOf(UTC, FirstDay(UTCMonth(now))) \in Int
            /\ MidnightOf(UTC, FirstDay(3 * (UTCMonth(now) \div 3))) \in Int
            /\ MidnightOf(UTC, FirstDay(12 * (UTCMonth(now) \div 12))) \in Int
            /\ now - HOURS_PER_DAY * FirstDay(12) \in Int
        BY <1>1, <3>2, <3>3, <3>4, <3>5 DEF HOURS_PER_DAY
      <3> QED
        BY <1>1, <2>1, <3>6, InputsAssumption DEF PresetStart, HOURS_PER_DAY
    <2> QED
      BY <1>1, <1>2, <2>2 DEF getDateRangeWindow, getPresetRange
  <1>3. CASE dateRange.tag # "Preset"
    BY <1>3 DEF TypeOK, Selections, getDateRangeWindow
  <1> QED
    BY <1>2, <1>3

LEMMA MonthTypes ==
  ASSUME NEW i \in Int
  PROVE  MonthFrom(i) \in [year : Int, month : 0 .. MONTHS_PER_YEAR - 1]
  BY DEF MonthFrom, MONTHS_PER_YEAR

LEMMA ResetDraft ==
  ASSUME TypeOK, resetDraftFromSelection(dateRange), UNCHANGED zone
  PROVE  /\ IsDay(maybeRangeStart)' /\ IsDay(maybeHoveredDay)' /\ IsRange(maybeDraftRange)'
         /\ maybeDraftPreset' \in Presets \cup {None}
         /\ OneChoiceAtATime'
  <1>1. maybeRangeStart' = None /\ maybeHoveredDay' = None /\ maybeDraftPreset' \in Presets \cup {None}
    BY DEF resetDraftFromSelection, TypeOK, Selections
  <1>2. IsDay(maybeRangeStart)' /\ IsDay(maybeHoveredDay)'
    BY <1>1 DEF IsDay
  <1>3. CASE dateRange.tag = "Custom"
    <2>1. dateRange.startTime \in Int /\ dateRange.endTime \in Int /\ zone \in Zones
      BY <1>3 DEF TypeOK, Selections
    <2>2. maybeDraftRange' = [start |-> startOfLocalDay(zone, dateRange.startTime),
                              end |-> startOfLocalDay(zone, dateRange.endTime)]
      BY <1>3 DEF resetDraftFromSelection, RangeOf
    <2>3. startOfLocalDay(zone, dateRange.startTime) <= startOfLocalDay(zone, dateRange.endTime)
      BY <1>3, <2>1, StartsInOrder DEF TypeOK
    <2>4. IsRange(maybeDraftRange)'
      BY <2>1, <2>2, <2>3, StartsAreMidnights DEF IsRange, IsLocalMidnight, Ranges
    <2>5. maybeDraftPreset' = None
      BY <1>3 DEF resetDraftFromSelection
    <2> QED
      BY <1>1, <1>2, <2>4, <2>5 DEF OneChoiceAtATime
  <1> QED
    BY <1>1, <1>2, <1>3 DEF resetDraftFromSelection, IsRange, OneChoiceAtATime

LEMMA AppliedTypes ==
  ASSUME TypeOK
  PROVE  IsSelection(draftToSelection)
  <1>1. CASE maybeDraftPreset # None
    BY <1>1, PresetTypes DEF TypeOK, draftToSelection
  <1>2. CASE maybeDraftPreset = None /\ maybeDraftRange # None
    <2> DEFINE r == maybeDraftRange
    <2>1. zone \in Zones /\ r.start \in Int /\ r.end \in Int /\ r.start <= r.end
      BY <1>2 DEF TypeOK, Ranges
    <2>2. /\ startOfLocalDay(zone, r.start) \in Int /\ endOfLocalDay(zone, r.end) \in Int
          /\ startOfLocalDay(zone, r.start) <= r.start /\ r.end <= endOfLocalDay(zone, r.end)
      BY <2>1, StartsAreMidnights, EndOfDay
    <2>3. draftToSelection = Custom(startOfLocalDay(zone, r.start), endOfLocalDay(zone, r.end))
      BY <1>2 DEF draftToSelection, selectionToCustomWindow
    <2> QED
      BY <2>1, <2>2, <2>3 DEF IsSelection, Selections, Custom
  <1>3. CASE maybeDraftPreset = None /\ maybeDraftRange = None
    BY <1>3 DEF TypeOK, IsSelection, draftToSelection
  <1> QED
    BY <1>1, <1>2, <1>3

LEMMA NextInv == Inv /\ [Next]_vars => Inv'
  <1> SUFFICES ASSUME TypeOK, OneChoiceAtATime, [Next]_vars PROVE TypeOK' /\ OneChoiceAtATime'
    BY DEF Inv
  <1> USE DEF device, IsLocalMidnight
  <1>1. CASE Opened
    <2> USE <1>1 DEF Opened
    <2>1. visibleMonth' \in [year : Int, month : 0 .. MONTHS_PER_YEAR - 1]
      <3> DEFINE w == getDateRangeWindow(dateRange)
      <3>1. w.startTime \in Int /\ w.endTime \in Int /\ zone \in Zones /\ MonthDays \in Nat \ {0}
        BY Windows, ZonesAssumption DEF TypeOK
      <3>2. LocalDay(zone, w.startTime) \in Int /\ LocalDay(zone, w.endTime) \in Int
        BY <3>1, LocalTypes
      <3>3. MonthAt(w.startTime) \in Int /\ MonthAt(w.endTime) - 1 \in Int
        BY <3>1, <3>2 DEF MonthAt, MonthOf
      <3> QED
        BY <3>3, MonthTypes DEF visibleMonthFromWindow
    <2>2. UNCHANGED <<dateRange, maybeEarliest, zone, now>> /\ open' \in BOOLEAN
      OBVIOUS
    <2> QED
      BY <2>1, <2>2, ResetDraft DEF TypeOK, IsDay, IsRange
  <1>2. CASE Closed
    BY <1>2 DEF Closed, TypeOK, OneChoiceAtATime, draft
  <1>3. ASSUME NEW p \in Presets, ClickedPreset(p) PROVE TypeOK' /\ OneChoiceAtATime'
    BY <1>3, NoneAssumption DEF ClickedPreset, TypeOK, OneChoiceAtATime
  <1>4. ASSUME NEW c \in DayButtons(visibleMonth), OnDay(c.dateMs)
        PROVE  TypeOK' /\ OneChoiceAtATime'
    <2> DEFINE t == c.dateMs
    <2>1. t \in Int /\ t = startOfLocalDay(zone, t)
      BY DayButtonsAreMidnights DEF TypeOK
    <2>2. t # None
      BY <2>1, NoneAssumption
    <2> HIDE DEF t
    <2>3. CASE ClickedFirstDay(t)
      BY <2>1, <2>2, <2>3 DEF ClickedFirstDay, TypeOK, OneChoiceAtATime
    <2>4. CASE ClickedLastDay(t)
      <3> DEFINE s == maybeRangeStart
      <3>1. s \in Int /\ s = startOfLocalDay(zone, s)
        BY <2>4 DEF ClickedLastDay, TypeOK
      <3>2. IsRange(maybeDraftRange')
        <4>1. CASE s <= t
          BY <2>1, <2>4, <3>1, <4>1 DEF ClickedLastDay, IsRange, Ranges
        <4>2. CASE ~(s <= t)
          BY <2>1, <2>4, <3>1, <4>2 DEF ClickedLastDay, IsRange, Ranges
        <4> QED
          BY <4>1, <4>2
      <3> QED
        BY <2>4, <3>2 DEF ClickedLastDay, TypeOK, OneChoiceAtATime, IsRange
    <2>5. CASE HoveredDay(t)
      BY <2>1, <2>5 DEF HoveredDay, TypeOK, OneChoiceAtATime
    <2> QED
      BY <1>4, <2>3, <2>4, <2>5 DEF OnDay, t
  <1>5. CASE ClickedPreviousMonth
    BY <1>5 DEF ClickedPreviousMonth, TypeOK, OneChoiceAtATime, draft, MONTHS_PER_YEAR
  <1>6. CASE ClickedNextMonth
    BY <1>6 DEF ClickedNextMonth, TypeOK, OneChoiceAtATime, draft, MONTHS_PER_YEAR
  <1>7. CASE ClickedApply
    <2>1. IsSelection(dateRange')
      BY <1>7, AppliedTypes DEF ClickedApply
    <2> QED
      BY <1>7, <2>1 DEF ClickedApply, TypeOK, OneChoiceAtATime, draft, IsSelection
  <1>8. CASE ClickedCancel
    <2> USE <1>8 DEF ClickedCancel
    <2>1. UNCHANGED <<visibleMonth, dateRange, maybeEarliest, zone, now>> /\ open' \in BOOLEAN
      OBVIOUS
    <2> QED
      BY <2>1, ResetDraft DEF TypeOK, IsDay, IsRange
  <1>9. CASE TimePasses
    BY <1>9 DEF TimePasses, TypeOK, OneChoiceAtATime, draft
  <1>10. CASE SucceededFetchEarliestData
    BY <1>10 DEF SucceededFetchEarliestData, TypeOK, OneChoiceAtATime, draft
  <1>11. CASE LoadPage
    <2>1. visibleMonth' \in [year : Int, month : 0 .. MONTHS_PER_YEAR - 1]
      BY <1>11 DEF LoadPage, MONTHS_PER_YEAR
    <2> QED
      BY <1>11, <2>1 DEF LoadPage, TypeOK, OneChoiceAtATime
  <1>12. CASE UNCHANGED vars
    BY <1>12 DEF vars, draft, TypeOK, OneChoiceAtATime
  <1> QED
    BY <1>1, <1>2, <1>3, <1>4, <1>5, <1>6, <1>7, <1>8, <1>9, <1>10, <1>11, <1>12 DEF Next

\* The types and the exclusion of choices hold together in every state that the
\* picker's messages reach.
THEOREM Invariance == Spec => []Inv
  BY InitInv, NextInv, PTL DEF Spec

\* Type correctness: among it, a draft's days are midnights of the zone the grid is
\* drawn in, and no applied range ends before it starts.
THEOREM TypeCorrect == Spec => []TypeOK
  <1>1. Inv => TypeOK
    BY DEF Inv
  <1> QED
    BY <1>1, Invariance, PTL

\* A preset, a range and the first day of a range exclude each other.
THEOREM ChoicesExclude == Spec => []OneChoiceAtATime
  <1>1. Inv => OneChoiceAtATime
    BY DEF Inv
  <1> QED
    BY <1>1, Invariance, PTL

-----------------------------------------------------------------------------
(* Windows.                                                                *)

\* The window of a range of days, by days.
LEMMA WindowOfRange ==
  ASSUME TypeOK, maybeDraftRange # None
  PROVE  LET r == maybeDraftRange
             w == selectionToCustomWindow(r)
         IN  /\ r \in Ranges /\ w = Custom(r.start, endOfLocalDay(zone, r.end))
             /\ w.startTime = r.start /\ w.endTime = endOfLocalDay(zone, r.end)
             /\ w.endTime \in Int
             /\ LocalDay(zone, w.endTime) = LocalDay(zone, r.end)
             /\ \A t \in Int :
                  /\ w.startTime <= t <=> LocalDay(zone, r.start) <= LocalDay(zone, t)
                  /\ t <= w.endTime <=> LocalDay(zone, t) <= LocalDay(zone, r.end)
  <1> DEFINE r == maybeDraftRange
  <1> DEFINE w == selectionToCustomWindow(r)
  <1>1. /\ r \in Ranges /\ r.start \in Int /\ r.end \in Int /\ zone \in Zones
        /\ r.start = startOfLocalDay(zone, r.start)
    BY DEF TypeOK, Ranges, IsLocalMidnight
  <1>2. w = Custom(r.start, endOfLocalDay(zone, r.end))
    BY <1>1 DEF selectionToCustomWindow
  <1>3. w.startTime = r.start /\ w.endTime = endOfLocalDay(zone, r.end)
    BY <1>2 DEF Custom
  <1>4. \A t \in Int : r.start <= t <=> LocalDay(zone, r.start) <= LocalDay(zone, t)
    <2> TAKE t \in Int
    <2>1. LocalDay(zone, r.start) \in Int
      BY <1>1, LocalTypes
    <2>2. r.start = MidnightOf(zone, LocalDay(zone, r.start))
      BY <1>1 DEF startOfLocalDay
    <2> QED
      BY <1>1, <2>1, <2>2, MidnightIsLeast
  <1> HIDE DEF w
  <1>5. /\ endOfLocalDay(zone, r.end) \in Int
        /\ LocalDay(zone, endOfLocalDay(zone, r.end)) = LocalDay(zone, r.end)
        /\ \A t \in Int : t <= endOfLocalDay(zone, r.end) <=> LocalDay(zone, t) <= LocalDay(zone, r.end)
    BY <1>1, EndOfDay
  <1> QED
    BY <1>1, <1>2, <1>3, <1>4, <1>5 DEF w

\* The window of a range of days has the instants of these days and no other, in every
\* zone and at every hour.
THEOREM WindowsCoverTheirDays == Spec => []PickedDaysAreCovered
  <1>1. TypeOK => PickedDaysAreCovered
    <2> SUFFICES ASSUME TypeOK, maybeDraftRange # None, NEW t \in Instants
                 PROVE  LET w == selectionToCustomWindow(maybeDraftRange)
                        IN  (w.startTime <= t /\ t <= w.endTime) <=>
                              /\ LocalDay(zone, maybeDraftRange.start) <= LocalDay(zone, t)
                              /\ LocalDay(zone, t) <= LocalDay(zone, maybeDraftRange.end)
      BY DEF PickedDaysAreCovered
    <2>1. t \in Int
      BY InputsAssumption
    <2> QED
      BY <2>1, WindowOfRange
  <1> QED
    BY <1>1, TypeCorrect, PTL

\* A range that is applied and opened again is the range that was picked.
THEOREM DraftsComeBack == Spec => []DraftsRoundTrip
  <1>1. TypeOK => DraftsRoundTrip
    <2> SUFFICES ASSUME TypeOK, maybeDraftRange # None
                 PROVE  RangeOf(selectionToCustomWindow(maybeDraftRange)) = maybeDraftRange
      BY DEF DraftsRoundTrip
    <2> DEFINE r == maybeDraftRange
    <2> DEFINE w == selectionToCustomWindow(r)
    <2>1. /\ r \in Ranges /\ w.startTime = r.start
          /\ LocalDay(zone, w.endTime) = LocalDay(zone, r.end)
      BY WindowOfRange
    <2>2. startOfLocalDay(zone, r.start) = r.start /\ startOfLocalDay(zone, r.end) = r.end
      BY DEF TypeOK, IsLocalMidnight
    <2>3. startOfLocalDay(zone, w.endTime) = r.end
      BY <2>1, <2>2 DEF startOfLocalDay
    <2>4. RangeOf(w) = [start |-> r.start, end |-> r.end]
      BY <2>1, <2>2, <2>3 DEF RangeOf
    <2>5. r = [start |-> r.start, end |-> r.end]
      BY <2>1 DEF Ranges
    <2> QED
      BY <2>4, <2>5
  <1> QED
    BY <1>1, TypeCorrect, PTL

-----------------------------------------------------------------------------
(* What is lit.                                                            *)

LEMMA AppliedIsLit ==
  ASSUME TypeOK, OneChoiceAtATime, maybeDraftPreset # None \/ maybeDraftRange # None
  PROVE  Shows(draftToSelection, visibleMonth, maybeRangeStart, maybeDraftRange, maybeDraftPreset)
  <1>1. CASE maybeDraftPreset # None
    <2>1. draftToSelection = Preset(maybeDraftPreset) /\ maybeDraftRange = None
      BY <1>1 DEF draftToSelection, OneChoiceAtATime
    <2>2. draftToSelection.tag # "Custom"
      BY <2>1 DEF Preset
    <2>3. \A p \in Presets : maybeDraftPreset = p <=> draftToSelection = Preset(p)
      BY <2>1 DEF Preset
    <2> QED
      BY <2>1, <2>2, <2>3 DEF Shows, Committed, Touches
  <1>2. CASE maybeDraftPreset = None
    <2> DEFINE r == maybeDraftRange
    <2> DEFINE w == selectionToCustomWindow(r)
    <2>1. r # None /\ maybeRangeStart = None /\ draftToSelection = w
      BY <1>2 DEF draftToSelection, OneChoiceAtATime
    <2>2. w.tag = "Custom"
      BY DEF selectionToCustomWindow, Custom
    <2>3. \A p \in Presets : maybeDraftPreset # p /\ w # Preset(p)
      BY <1>2, <2>2, NoneAssumption DEF Preset
    <2>4. ASSUME NEW c \in DayButtons(visibleMonth)
          PROVE  Committed(c.dateMs, maybeRangeStart, r) <=> Touches(w, c.dateMs)
      <3> DEFINE t == c.dateMs
      <3>1. t \in Int /\ t = startOfLocalDay(zone, t)
        BY DayButtonsAreMidnights DEF IsLocalMidnight, TypeOK
      <3>2. /\ w.startTime = r.start
            /\ LocalDay(zone, w.endTime) = LocalDay(zone, r.end)
            /\ r.start <= t <=> LocalDay(zone, r.start) <= LocalDay(zone, t)
        BY <2>1, <3>1, WindowOfRange
      <3>3. t <= r.end <=> LocalDay(zone, t) <= LocalDay(zone, r.end)
        <4>1. LocalDay(zone, t) \in Int /\ r.end \in Int /\ zone \in Zones
          BY <2>1, <3>1, LocalTypes DEF TypeOK, Ranges
        <4>2. t = MidnightOf(zone, LocalDay(zone, t))
          BY <3>1 DEF startOfLocalDay
        <4> QED
          BY <4>1, <4>2, MidnightIsLeast
      <3> HIDE DEF w
      <3> QED
        BY <2>1, <2>2, <3>2, <3>3 DEF Committed, Touches, w
    <2> QED
      BY <1>2, <2>1, <2>3, <2>4 DEF Shows
  <1> QED
    BY <1>1, <1>2

\* What is lit is what is taken, by Apply and by the last day of a range.
THEOREM LitIsWhatIsTaken == Spec => LitIsTaken
  <1>1. ASSUME Inv, ClickedApply
        PROVE  IF maybeDraftPreset = None /\ maybeDraftRange = None THEN dateRange' = dateRange
               ELSE Shows(dateRange', visibleMonth, maybeRangeStart, maybeDraftRange, maybeDraftPreset)
    <2>1. dateRange' = draftToSelection
      BY <1>1 DEF ClickedApply
    <2>2. CASE maybeDraftPreset = None /\ maybeDraftRange = None
      BY <2>1, <2>2 DEF draftToSelection
    <2>3. CASE ~(maybeDraftPreset = None /\ maybeDraftRange = None)
      BY <1>1, <2>1, <2>3, AppliedIsLit DEF Inv
    <2> QED
      BY <2>2, <2>3
  <1>2. ASSUME Inv, maybeHoveredDay # None, ClickedLastDay(maybeHoveredDay),
               NEW c \in DayButtons(visibleMonth)
        PROVE  Preview(c.dateMs, maybeRangeStart, maybeHoveredDay)
                 <=> Committed(c.dateMs, maybeRangeStart', maybeDraftRange')
    <2>1. c.dateMs \in Int
      BY <1>2, DayButtonsAreMidnights DEF Inv, TypeOK
    <2>2. maybeRangeStart \in Int /\ maybeHoveredDay \in Int /\ maybeRangeStart # None
      BY <1>2 DEF Inv, TypeOK, ClickedLastDay
    <2>3. maybeRangeStart' = None /\ maybeDraftRange' \in Ranges /\ maybeDraftRange' # None
      BY <1>2, <2>2, NoneAssumption DEF ClickedLastDay, Ranges
    <2>4. CASE maybeRangeStart <= maybeHoveredDay
      BY <1>2, <2>1, <2>2, <2>3, <2>4 DEF ClickedLastDay, Preview, Committed, Between
    <2>5. CASE ~(maybeRangeStart <= maybeHoveredDay)
      BY <1>2, <2>1, <2>2, <2>3, <2>5 DEF ClickedLastDay, Preview, Committed, Between
    <2> QED
      BY <2>4, <2>5
  <1>3. Inv => TakesWhatIsLit
    BY <1>1, <1>2 DEF TakesWhatIsLit
  <1> QED
    BY <1>3, Invariance, PTL DEF LitIsTaken

-----------------------------------------------------------------------------
(* Months.                                                                 *)

LEMMA MonthLengths ==
  ASSUME NEW i \in Int, NEW j \in Int, i < j
  PROVE  /\ FirstDay(i) \in Int /\ FirstDay(j) \in Int
         /\ FirstDay(i + 1) = FirstDay(i) + MonthDays
         /\ FirstDay(i) + MonthDays <= FirstDay(j)
  <1>1. MonthDays \in Nat \ {0}
    BY ZonesAssumption
  <1>2. j - (i + 1) \in Nat
    OBVIOUS
  <1>3. (j - (i + 1)) * MonthDays \in Nat
    BY <1>1, <1>2
  <1>4. /\ i * MonthDays \in Int /\ j * MonthDays \in Int
        /\ (i + 1) * MonthDays = i * MonthDays + MonthDays
        /\ j * MonthDays = i * MonthDays + MonthDays + (j - (i + 1)) * MonthDays
    BY <1>1
  <1> QED
    BY <1>1, <1>3, <1>4 DEF FirstDay

\* A day is in the month between whose ends it lies.
LEMMA DayInMonth ==
  ASSUME NEW d \in Int, NEW m \in Int
  PROVE  /\ MonthOf(d) \in Int
         /\ MonthOf(d) = m <=> FirstDay(m) <= d /\ d < FirstDay(m) + MonthDays
  <1> DEFINE q == MonthOf(d)
  <1>1. MonthDays \in Nat \ {0}
    BY ZonesAssumption
  <1>2. q \in Int /\ FirstDay(q) <= d /\ d < FirstDay(q) + MonthDays
    <2>1. /\ d \div MonthDays \in Int
          /\ (d \div MonthDays) * MonthDays <= d
          /\ d < (d \div MonthDays) * MonthDays + MonthDays
      BY <1>1
    <2> QED
      BY <2>1 DEF MonthOf, FirstDay
  <1>3. FirstDay(q) \in Int /\ FirstDay(m) \in Int
    BY <1>1, <1>2 DEF FirstDay
  <1> HIDE DEF q
  <1>4. ASSUME FirstDay(m) <= d, d < FirstDay(m) + MonthDays PROVE q = m
    <2>1. ~(q < m)
      <3> SUFFICES ASSUME q < m PROVE FALSE
        OBVIOUS
      <3>1. FirstDay(q) + MonthDays <= FirstDay(m)
        BY <1>2, MonthLengths
      <3> QED
        BY <1>1, <1>2, <1>3, <1>4, <3>1
    <2>2. ~(m < q)
      <3> SUFFICES ASSUME m < q PROVE FALSE
        OBVIOUS
      <3>1. FirstDay(m) + MonthDays <= FirstDay(q)
        BY <1>2, MonthLengths
      <3> QED
        BY <1>1, <1>2, <1>3, <1>4, <3>1
    <2> QED
      BY <1>2, <2>1, <2>2
  <1> QED
    BY <1>2, <1>4 DEF q

LEMMA MonthsInOrder ==
  ASSUME NEW d \in Int, NEW e \in Int, d <= e
  PROVE  MonthOf(d) \in Int /\ MonthOf(e) \in Int /\ MonthOf(d) <= MonthOf(e)
  <1> DEFINE p == MonthOf(d)
             q == MonthOf(e)
  <1>1. /\ p \in Int /\ FirstDay(p) <= d
        /\ q \in Int /\ e < FirstDay(q) + MonthDays
    BY DayInMonth
  <1> HIDE DEF p, q
  <1>2. ~(q < p)
    <2> SUFFICES ASSUME q < p PROVE FALSE
      OBVIOUS
    <2>1. /\ FirstDay(q) + MonthDays <= FirstDay(p)
          /\ FirstDay(p) \in Int /\ FirstDay(q) \in Int
      BY <1>1, MonthLengths
    <2>2. MonthDays \in Int
      BY ZonesAssumption
    <2> QED
      BY <1>1, <2>1, <2>2
  <1> QED
    BY <1>1, <1>2 DEF p, q

\* A month has its number back when it is written as a year and a month of it.
LEMMA MonthsRoundTrip ==
  ASSUME NEW i \in Int
  PROVE  MonthIndex(MonthFrom(i)) = i
  BY DEF MonthIndex, MonthFrom, MONTHS_PER_YEAR

LEMMA MonthsShown ==
  ASSUME NEW i \in Int
  PROVE  MonthsFrom(MonthFrom(i)) = {i, i + 1}
  BY MonthsRoundTrip DEF MonthsFrom

-----------------------------------------------------------------------------
(* What the panel opens on.                                                *)

\* No preset begins later than it ends.
LEMMA PresetsInOrder ==
  ASSUME NEW t \in Int, NEW p \in Presets, p # "allTime"
  PROVE  PresetStart(p, t) <= t
  <1> DEFINE d == t \div HOURS_PER_DAY
             m == MonthOf(d)
  <1>1. d \in Int /\ HOURS_PER_DAY * d <= t
    BY DayOfTime
  <1>2. MonthDays \in Nat \ {0}
    BY ZonesAssumption
  <1>3. m \in Int /\ FirstDay(m) <= d /\ FirstDay(m) \in Int
    BY <1>1, <1>2, DayInMonth DEF FirstDay
  <1>4. UTCMonth(t) = m
    BY DEF UTCMonth, LocalDay, LocalTime, UTC
  <1> HIDE DEF m, d
  <1>5. ASSUME NEW i \in Int, i <= m PROVE MidnightOf(UTC, FirstDay(i)) <= t
    <2>1. FirstDay(i) \in Int /\ FirstDay(i) <= FirstDay(m)
      <3>1. CASE i = m
        BY <1>3, <3>1
      <3>2. CASE i < m
        BY <1>2, <1>3, <3>2, MonthLengths
      <3> QED
        BY <1>3, <1>5, <3>1, <3>2
    <2>2. FirstDay(i) <= d
      BY <1>1, <1>3, <2>1
    <2> QED
      BY <1>1, <2>1, <2>2 DEF MidnightOf, UTC, HOURS_PER_DAY
  <1>6. 3 * (m \div 3) \in Int /\ 3 * (m \div 3) <= m /\ 12 * (m \div 12) \in Int /\ 12 * (m \div 12) <= m
    BY <1>3
  <1>7. /\ MidnightOf(UTC, FirstDay(m)) <= t
        /\ MidnightOf(UTC, FirstDay(3 * (m \div 3))) <= t
        /\ MidnightOf(UTC, FirstDay(12 * (m \div 12))) <= t
    BY <1>3, <1>5, <1>6
  <1>8. t - HOURS_PER_DAY * FirstDay(12) <= t
    BY <1>2 DEF HOURS_PER_DAY, FirstDay
  <1> QED
    BY <1>4, <1>7, <1>8, InputsAssumption DEF PresetStart, HOURS_PER_DAY

LEMMA WindowsInOrder ==
  ASSUME TypeOK
  PROVE  LET w == getDateRangeWindow(dateRange)
         IN  w.startTime \in Int /\ w.endTime \in Int /\ w.startTime <= w.endTime
  <1>1. now \in Times /\ now \in Int
    BY InputsAssumption DEF TypeOK
  <1>2. CASE dateRange.tag = "Preset"
    <2>1. dateRange.preset \in Presets
      BY <1>2 DEF TypeOK, Selections
    <2>2. CASE dateRange.preset # "allTime"
      BY <1>1, <1>2, <2>1, <2>2, PresetsInOrder, Windows DEF getDateRangeWindow, getPresetRange
    <2>3. CASE dateRange.preset = "allTime"
      <3>1. 0 <= now /\ (maybeEarliest # None => maybeEarliest <= now)
        BY <1>1, ClocksAssumption DEF TypeOK
      <3> QED
        BY <1>2, <2>3, <3>1, Windows DEF getDateRangeWindow, getPresetRange
    <2> QED
      BY <2>2, <2>3
  <1>3. CASE dateRange.tag # "Preset"
    BY <1>3, Windows DEF TypeOK, Selections, getDateRangeWindow
  <1> QED
    BY <1>2, <1>3

LEMMA OpenedShows ==
  ASSUME TypeOK, TypeOK', resetDraftFromSelection(dateRange)
  PROVE  Shows(dateRange, visibleMonth', maybeRangeStart', maybeDraftRange', maybeDraftPreset')
  <1>1. CASE dateRange.tag = "Preset"
    <2>1. dateRange = Preset(dateRange.preset) /\ dateRange.preset \in Presets
      BY <1>1 DEF TypeOK, Selections, Preset
    <2>2. maybeDraftPreset' = dateRange.preset /\ maybeDraftRange' = None
      BY <1>1 DEF resetDraftFromSelection
    <2>3. \A p \in Presets : maybeDraftPreset' = p <=> dateRange = Preset(p)
      BY <2>1, <2>2 DEF Preset
    <2> QED
      BY <1>1, <2>2, <2>3 DEF Shows, Committed, Touches
  <1>2. CASE dateRange.tag = "Custom"
    <2> DEFINE s == dateRange.startTime
               e == dateRange.endTime
               r == RangeOf(dateRange)
    <2>1. s \in Int /\ e \in Int /\ zone \in Zones
      BY <1>2 DEF TypeOK, Selections
    <2>2. maybeDraftPreset' = None /\ maybeRangeStart' = None /\ maybeDraftRange' = r
      BY <1>2 DEF resetDraftFromSelection
    <2>3. /\ r.start = startOfLocalDay(zone, s) /\ r.end = startOfLocalDay(zone, e)
          /\ r \in Ranges /\ r # None
      <3>1. startOfLocalDay(zone, s) \in Int /\ startOfLocalDay(zone, e) \in Int
        BY <2>1, StartsAreMidnights
      <3> QED
        BY <3>1, NoneAssumption DEF RangeOf, Ranges
    <2>4. \A p \in Presets : maybeDraftPreset' # p /\ dateRange # Preset(p)
      BY <1>2, <2>2, NoneAssumption DEF Preset
    <2>5. ASSUME NEW c \in DayButtons(visibleMonth')
          PROVE  Committed(c.dateMs, None, r) <=> Touches(dateRange, c.dateMs)
      <3> DEFINE t == c.dateMs
      <3>1. t \in Int /\ t = startOfLocalDay(zone, t)
        <4>1. visibleMonth' \in [year : Int, month : 0 .. MONTHS_PER_YEAR - 1]
          BY DEF TypeOK
        <4> QED
          BY <4>1, DayButtonsAreMidnights DEF IsLocalMidnight
      <3>2. LocalDay(zone, s) \in Int /\ LocalDay(zone, e) \in Int /\ LocalDay(zone, t) \in Int
        BY <2>1, <3>1, LocalTypes
      <3>3. r.start <= t <=> LocalDay(zone, s) <= LocalDay(zone, t)
        BY <2>1, <2>3, <3>1, <3>2, MidnightIsLeast DEF startOfLocalDay
      <3>4. t <= r.end <=> LocalDay(zone, t) <= LocalDay(zone, e)
        <4>1. LocalDay(zone, r.end) = LocalDay(zone, e) /\ r.end \in Int
          BY <2>1, <2>3, DaysBegin, StartsAreMidnights
        <4>2. t = MidnightOf(zone, LocalDay(zone, t))
          BY <3>1 DEF startOfLocalDay
        <4> QED
          BY <2>1, <3>2, <4>1, <4>2, MidnightIsLeast
      <3> HIDE DEF r
      <3> QED
        BY <1>2, <2>3, <3>3, <3>4 DEF Committed, Touches
    <2> QED
      BY <2>2, <2>4, <2>5 DEF Shows
  <1> QED
    BY <1>1, <1>2 DEF TypeOK, Selections

\* The panel opens on the applied range: it is lit, its last day is in one of the two
\* months, and so is its first one if it can be (Opened, visibleMonthFromWindow).
THEOREM PanelOpensOnTheRange == Spec => OpenShowsApplied
  <1> DEFINE w == getDateRangeWindow(dateRange)
             first == MonthAt(w.startTime)
             last == MonthAt(w.endTime)
             Opens == Opened =>
               /\ Shows(dateRange, visibleMonth', maybeRangeStart', maybeDraftRange', maybeDraftPreset')
               /\ last \in MonthsFrom(visibleMonth')
               /\ last <= first + 1 => first \in MonthsFrom(visibleMonth')
  <1>1. ASSUME TypeOK, TypeOK', Opened
        PROVE  /\ Shows(dateRange, visibleMonth', maybeRangeStart', maybeDraftRange', maybeDraftPreset')
               /\ last \in MonthsFrom(visibleMonth')
               /\ last <= first + 1 => first \in MonthsFrom(visibleMonth')
    <2>1. w.startTime \in Int /\ w.endTime \in Int /\ w.startTime <= w.endTime /\ zone \in Zones
      BY <1>1, WindowsInOrder DEF TypeOK
    <2>2. first \in Int /\ last \in Int /\ first <= last
      <3>1. /\ LocalDay(zone, w.startTime) \in Int /\ LocalDay(zone, w.endTime) \in Int
            /\ LocalDay(zone, w.startTime) <= LocalDay(zone, w.endTime)
        BY <2>1, LocalTypes, LaterDays
      <3> QED
        BY <3>1, MonthsInOrder DEF MonthAt
    <2> DEFINE v == IF first > last - 1 THEN first ELSE last - 1
    <2>3. visibleMonth' = MonthFrom(v)
      BY <1>1 DEF Opened, visibleMonthFromWindow
    <2> HIDE DEF first, last
    <2>4. MonthsFrom(visibleMonth') = {v, v + 1}
      <3>1. v \in Int
        BY <2>2
      <3> QED
        BY <2>3, <3>1, MonthsShown
    <2>5. last \in MonthsFrom(visibleMonth') /\ (last <= first + 1 => first \in MonthsFrom(visibleMonth'))
      BY <2>2, <2>4
    <2>6. resetDraftFromSelection(dateRange)
      BY <1>1 DEF Opened
    <2> QED
      BY <1>1, <2>5, <2>6, OpenedShows
  <1>2. TypeOK /\ TypeOK' /\ [Next]_vars => [Opens]_vars
    BY <1>1
  <1>3. Spec => [][Opens]_vars
    BY <1>2, TypeCorrect, PTL DEF Spec
  <1> QED
    BY <1>3 DEF OpenShowsApplied

-----------------------------------------------------------------------------
(* The grid of a month.                                                    *)

\* The weeks of a month are whole, begin at or before its first day and end at or after
\* its last.
LEMMA WeeksOfMonth ==
  ASSUME NEW z \in Zones, NEW month \in Int, HasEnds(z, month)
  PROVE  LET shape == MonthShape(z, month)
             F == FirstDay(month)
             sunday == F - shape.leading
         IN  /\ shape.month = month /\ F \in Int
             /\ sunday \in Int /\ shape.weeks \in Int /\ sunday % DAYS_PER_WEEK = 0
             /\ sunday <= F /\ F + MonthDays <= sunday + DAYS_PER_WEEK * shape.weeks
  <1> DEFINE F == FirstDay(month)
             shape == MonthShape(z, month)
             L == F + MonthDays - 1
  <1>1. MonthDays \in Nat \ {0} /\ F \in Int /\ FirstDay(month + 1) = F + MonthDays
    BY ZonesAssumption, MonthLengths, month < month + 1
  <1>2. LocalDay(z, MidnightOf(z, F)) = F /\ LocalDay(z, MidnightOf(z, FirstDay(month + 1) - 1)) = L
    BY <1>1 DEF HasEnds, HasDay
  <1>3. MonthOf(F) = month
    BY <1>1, DayInMonth
  <1>4. (L % MonthDays) + 1 = MonthDays
    <2>1. MonthOf(L) = month /\ L \in Int
      BY <1>1, DayInMonth
    <2>2. L \div MonthDays = month
      BY <2>1 DEF MonthOf
    <2>3. L = MonthDays * (L \div MonthDays) + (L % MonthDays)
      BY <1>1, <2>1
    <2>4. L % MonthDays \in Int /\ MonthDays * month = month * MonthDays
      BY <1>1, <2>1
    <2> QED
      BY <1>1, <2>1, <2>2, <2>3, <2>4 DEF FirstDay
  <1> DEFINE total == (F % DAYS_PER_WEEK) + MonthDays + (DAYS_PER_WEEK - 1 - (L % DAYS_PER_WEEK))
  <1>5. /\ shape.month = month
        /\ shape.leading = F % DAYS_PER_WEEK
        /\ shape.weeks = (total + DAYS_PER_WEEK - 1) \div DAYS_PER_WEEK
    BY <1>2, <1>3, <1>4 DEF MonthShape
  <1> HIDE DEF F, shape
  <1>6. PICK a \in Int, b \in Int, l \in 0 .. 6, r \in 0 .. 6 :
          F = 7 * a + l /\ F % 7 = l /\ L = 7 * b + r /\ L % 7 = r
    <2>1. F = 7 * (F \div 7) + (F % 7) /\ F % 7 \in 0 .. 6 /\ F \div 7 \in Int
      BY <1>1
    <2>2. L \in Int
      BY <1>1
    <2>3. L = 7 * (L \div 7) + (L % 7) /\ L % 7 \in 0 .. 6 /\ L \div 7 \in Int
      BY <2>2
    <2> QED
      BY <2>1, <2>3
  <1>7. total = 7 * (b - a + 1)
    BY <1>1, <1>6 DEF DAYS_PER_WEEK
  <1>8. shape.weeks = b - a + 1 /\ shape.leading = l
    BY <1>5, <1>6, <1>7 DEF DAYS_PER_WEEK
  <1>9. F - shape.leading = 7 * a
    BY <1>6, <1>8
  <1>10. (7 * a) % 7 = 0
    BY <1>6
  <1>11. 7 * a <= F /\ F + MonthDays <= 7 * a + 7 * (b - a + 1)
    BY <1>1, <1>6
  <1> QED
    BY <1>1, <1>5, <1>6, <1>8, <1>9, <1>10, <1>11 DEF DAYS_PER_WEEK, F, shape

LEMMA CellFields ==
  ASSUME NEW z, NEW month, NEW t, NEW today
  PROVE  LET c == CellAt(z, month, t, today)
         IN  /\ c.dateMs = t
             /\ c.inMonth <=> MonthOf(LocalDay(z, t)) = month
             /\ c.isToday <=> LocalDay(z, t) = LocalDay(z, today)
  BY DEF CellAt, isSameLocalDay

LEMMA ColumnOfDay ==
  ASSUME NEW d \in Int, NEW sunday \in Int, sunday % 7 = 0
  PROVE  (d + 1 - sunday) % 7 = (d + 1) % 7
  OBVIOUS

\* The clocks skip no two days in a row: a skipped day has the midnight of the next.
LEMMA SkipsNoTwoDays ==
  ASSUME NEW z \in Zones, NEW d \in Int
  PROVE  LocalDay(z, MidnightOf(z, d)) \in {d, d + 1}
  <1> DEFINE m == MidnightOf(z, d)
             n == MidnightOf(z, d + 2)
  <1>1. z.before \in Int /\ z.after \in Int /\ z.change \in Int
    BY ZoneTypes DEF Zone
  <1>2. z.after - z.before < 2 * HOURS_PER_DAY
    <2> DEFINE new == z.change + z.after - 1
               old == z.change + z.before
    <2>1. new \in Int /\ old \in Int /\ new \div HOURS_PER_DAY <= old \div HOURS_PER_DAY
      BY <1>1, ZonesAssumption
    <2> HIDE DEF new, old
    <2>2. new < old + HOURS_PER_DAY
      BY <2>1, DayOfTime DEF HOURS_PER_DAY
    <2> QED
      BY <1>1, <2>2 DEF new, old, HOURS_PER_DAY
  <1>3. m < n
    BY <1>1, <1>2 DEF MidnightOf, HOURS_PER_DAY
  <1>4. m \in Int /\ n \in Int /\ LocalDay(z, m) \in Int
    BY LocalTypes
  <1>5. d <= LocalDay(z, m)
    BY <1>4, MidnightIsLeast
  <1>6. ~(d + 2 <= LocalDay(z, m))
    BY <1>3, <1>4, MidnightIsLeast
  <1> QED
    BY <1>4, <1>5, <1>6

\* The cell of a day of the month, and which other one shows it.
LEMMA GridOfMonth ==
  ASSUME NEW z \in Zones, NEW today, NEW month \in Int,
         NEW d \in FirstDay(month) .. FirstDay(month + 1) - 1,
         HasEnds(z, month), HasDay(z, d)
  PROVE  LET grid == buildMonthGrid(z, month, today)
         IN  \E k \in DOMAIN grid :
               /\ k % DAYS_PER_WEEK = (d + 1) % DAYS_PER_WEEK
               /\ grid[k].dateMs = MidnightOf(z, d)
               /\ grid[k].inMonth
               /\ \A j \in DOMAIN grid :
                    LocalDay(z, grid[j].dateMs) = d => j = k \/ (j = k - 1 /\ ~HasDay(z, d - 1))
  <1> DEFINE grid == buildMonthGrid(z, month, today)
             F == FirstDay(month)
             shape == MonthShape(z, month)
             sunday == F - shape.leading
             k == d + 1 - sunday
  <1>1. MonthDays \in Nat \ {0}
    BY ZonesAssumption
  <1>2. /\ shape.month = month /\ F \in Int
        /\ sunday \in Int /\ shape.weeks \in Int /\ sunday % 7 = 0
        /\ sunday <= F /\ F + MonthDays <= sunday + 7 * shape.weeks
    BY <1>1, WeeksOfMonth DEF DAYS_PER_WEEK
  <1>3. FirstDay(month + 1) = F + MonthDays
    BY MonthLengths, month < month + 1
  <1>4. /\ DOMAIN grid = 1 .. 7 * shape.weeks
        /\ \A j \in DOMAIN grid :
             grid[j] = CellAt(z, month, MidnightOf(z, sunday + j - 1), today)
    BY <1>2 DEF buildMonthGrid, DAYS_PER_WEEK
  <1>5. d \in Int /\ F <= d /\ d < F + MonthDays
    BY <1>1, <1>2, <1>3
  <1>6. /\ LocalDay(z, MidnightOf(z, d)) = d
        /\ LocalDay(z, MidnightOf(z, d - 1)) # d - 1 => ~HasDay(z, d - 1)
    BY DEF HasDay
  <1> HIDE DEF grid, F, shape, sunday
  <1>7. k \in DOMAIN grid /\ sunday + k - 1 = d
    BY <1>1, <1>2, <1>4, <1>5
  <1>8. k % 7 = (d + 1) % 7
    BY <1>2, <1>5, ColumnOfDay
  <1> HIDE DEF k
  <1>9. grid[k].dateMs = MidnightOf(z, d) /\ grid[k].inMonth
    <2>1. grid[k] = CellAt(z, month, MidnightOf(z, d), today)
      BY <1>4, <1>7
    <2>2. MonthOf(d) = month
      BY <1>5, DayInMonth DEF F
    <2> QED
      BY <1>6, <2>1, <2>2, CellFields
  <1>10. ASSUME NEW j \in DOMAIN grid, LocalDay(z, grid[j].dateMs) = d
        PROVE  j = k \/ (j = k - 1 /\ ~HasDay(z, d - 1))
    <2> DEFINE e == sunday + j - 1
    <2>1. j \in Int /\ k \in Int /\ e \in Int
      BY <1>2, <1>4, <1>7
    <2>2. grid[j].dateMs = MidnightOf(z, e)
      BY <1>4, CellFields
    <2>3. LocalDay(z, MidnightOf(z, e)) = d
      BY <1>10, <2>2
    <2>4. d = e \/ d = e + 1
      BY <1>1, <2>1, <2>3, SkipsNoTwoDays
    <2>5. CASE d = e
      <3>1. sunday + j = sunday + k
        BY <1>2, <1>7, <2>1, <2>5
      <3> QED
        BY <1>2, <2>1, <3>1
    <2>6. CASE d = e + 1
      <3>1. e = d - 1 /\ j = k - 1
        BY <1>2, <1>5, <1>7, <2>1, <2>6
      <3>2. ~HasDay(z, d - 1)
        BY <1>5, <1>6, <2>3, <3>1
      <3> QED
        BY <3>1, <3>2
    <2> QED
      BY <2>4, <2>5, <2>6
  <1> QED
    BY <1>7, <1>8, <1>9, <1>10 DEF grid, DAYS_PER_WEEK

\* Where the zone has the first and the last day of the months on display, whichever
\* other day it skips, each day of them is a button in the column of its weekday, and
\* in one cell only, but for a day that follows a skipped one, which is also in its
\* place.
THEOREM GridsShowTheirMonths ==
  Spec => []((\A month \in MonthsFrom(visibleMonth) : HasEnds(zone, month)) => GridShowsTheMonth)
  <1>1. TypeOK => ((\A month \in MonthsFrom(visibleMonth) : HasEnds(zone, month)) => GridShowsTheMonth)
    <2> SUFFICES ASSUME TypeOK, NEW month \in MonthsFrom(visibleMonth),
                        NEW d \in FirstDay(month) .. FirstDay(month + 1) - 1,
                        HasEnds(zone, month), HasDay(zone, d)
                 PROVE  LET grid == GridOf(month)
                        IN  \E k \in DOMAIN grid :
                              /\ k % DAYS_PER_WEEK = (d + 1) % DAYS_PER_WEEK
                              /\ grid[k].dateMs = MidnightOf(zone, d)
                              /\ grid[k].inMonth
                              /\ \A j \in DOMAIN grid :
                                   LocalDay(zone, grid[j].dateMs) = d =>
                                     j = k \/ (j = k - 1 /\ ~HasDay(zone, d - 1))
      BY DEF GridShowsTheMonth
    <2>1. month \in Int /\ zone \in Zones
      BY DEF TypeOK, MonthsFrom, MonthIndex, MonthFrom, MONTHS_PER_YEAR
    <2> QED
      BY <2>1, GridOfMonth DEF GridOf
  <1> QED
    BY <1>1, TypeCorrect, PTL

================================================================================
