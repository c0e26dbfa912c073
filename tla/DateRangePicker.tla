---------------------------- MODULE DateRangePicker ----------------------------
(***************************************************************************)
(* The date range picker of the dashboard                                  *)
(* (apps/web/src/dashboard/dateRangePicker/{model,update,view}.ts): a      *)
(* popover with the presets and two months of days, whose choice becomes   *)
(* the dashboard's date range when it is applied                           *)
(* (dashboard/update.ts:377-423) and is resolved to a window of instants   *)
(* by dashboard/dateRange.ts.                                              *)
(*                                                                         *)
(* An applied range of days is kept as instants, across page loads and     *)
(* into whatever zone the device is in at the next one.                    *)
(***************************************************************************)
EXTENDS LocalDays

CONSTANTS
  None,        \* Option.none()
  Presets,     \* PresetKey
  Times,       \* the values of the clock
  Earliest,    \* the possible times of the first sample
  Instants,    \* the instants windows are compared on
  FirstMonth,  \* bounds of the months the user turns to,
  LastMonth,
  Picks        \* and of the days the user points at

VARIABLES
  open,              \* popover.isOpen
  visibleMonth,      \* [year, month] of the left one of the two months
  maybeRangeStart,   \* the first day of a range, until its last one is clicked
  maybeHoveredDay,
  maybeDraftRange,
  maybeDraftPreset,
  dateRange,         \* the dashboard's applied selection
  maybeEarliest,     \* maybeEarliestDataMs
  zone,              \* of the device
  now

draft == <<maybeRangeStart, maybeHoveredDay, maybeDraftRange, maybeDraftPreset>>
device == <<maybeEarliest, zone, now>>
vars == <<open, visibleMonth, draft, dateRange, device>>

Preset(p) == [tag |-> "Preset", preset |-> p]
Custom(start, end) == [tag |-> "Custom", startTime |-> start, endTime |-> end]
Ranges == [start : Int, end : Int]

ASSUME InputsAssumption ==
  /\ Presets \subseteq {"last1h", "last24h", "last7d", "last30d", "mtd", "qtd", "ytd",
                        "last12m", "allTime"}
  /\ Times \cup Earliest \cup Instants \subseteq Int

\* The device's clock is past the epoch and past the first sample.
ASSUME ClocksAssumption == \A t \in Times : 0 <= t /\ \A e \in Earliest : e <= t

ASSUME NoneAssumption == None \notin Int \cup Presets \cup Ranges

-----------------------------------------------------------------------------
(* Windows.                                                                *)

UTC == [before |-> 0, after |-> 0, change |-> 0]
UTCMonth(t) == MonthOf(LocalDay(UTC, t))

\* PRESET_START_MS, but for "allTime".
PresetStart(p, t) ==
  CASE p = "last1h"  -> t - 1
    [] p = "last24h" -> t - HOURS_PER_DAY
    [] p = "last7d"  -> t - 7 * HOURS_PER_DAY
    [] p = "last30d" -> t - 30 * HOURS_PER_DAY
    [] p = "mtd"     -> MidnightOf(UTC, FirstDay(UTCMonth(t)))
    [] p = "qtd"     -> MidnightOf(UTC, FirstDay(3 * (UTCMonth(t) \div 3)))
    [] p = "ytd"     -> MidnightOf(UTC, FirstDay(12 * (UTCMonth(t) \div 12)))
    [] p = "last12m" -> t - HOURS_PER_DAY * FirstDay(12)

getPresetRange(p) ==
  [startTime |-> IF p # "allTime" THEN PresetStart(p, now)
                 ELSE IF maybeEarliest = None THEN 0 ELSE maybeEarliest,
   endTime |-> now]

getDateRangeWindow(selection) ==
  IF selection.tag = "Preset" THEN getPresetRange(selection.preset)
  ELSE [startTime |-> selection.startTime, endTime |-> selection.endTime]

MonthAt(t) == MonthOf(LocalDay(zone, t))
MonthIndex(ym) == ym.year * MONTHS_PER_YEAR + ym.month
MonthFrom(index) == [year |-> index \div MONTHS_PER_YEAR, month |-> index % MONTHS_PER_YEAR]

\* Mutant: the calendar opens where the range begins.
visibleMonthFromWindowStart(w) == MonthFrom(MonthAt(w.startTime))

\* Never further back than the month before the one the range ends in.
visibleMonthFromWindow(w) ==
  LET s == MonthAt(w.startTime)
      e == MonthAt(w.endTime) - 1
  IN  MonthFrom(IF s > e THEN s ELSE e)

selectionToCustomWindow(range) ==
  Custom(startOfLocalDay(zone, range.start), endOfLocalDay(zone, range.end))

\* Mutant: a first day alone is applied as a range of one day.
draftToSelectionWithStart ==
  IF maybeDraftPreset # None THEN Preset(maybeDraftPreset)
  ELSE IF maybeRangeStart # None
       THEN selectionToCustomWindow([start |-> maybeRangeStart, end |-> maybeRangeStart])
  ELSE IF maybeDraftRange # None THEN selectionToCustomWindow(maybeDraftRange)
  ELSE dateRange

draftToSelection ==
  IF maybeDraftPreset # None THEN Preset(maybeDraftPreset)
  ELSE IF maybeDraftRange # None THEN selectionToCustomWindow(maybeDraftRange)
  ELSE dateRange

\* The draft that shows a Custom selection.
RangeOf(selection) ==
  [start |-> startOfLocalDay(zone, selection.startTime),
   end |-> startOfLocalDay(zone, selection.endTime)]

-----------------------------------------------------------------------------
(* What the panel shows.                                                   *)

\* The two months, the right one by addMonths, which has the next year's January.
MonthsFrom(ym) == {MonthIndex(ym), MonthIndex(MonthFrom(MonthIndex(ym) + 1))}

GridOf(month) == buildMonthGrid(zone, month, now)

\* The buttons of two months: only the cells of a month itself are.
DayButtons(ym) ==
  UNION {LET grid == GridOf(month) IN {c \in {grid[k] : k \in DOMAIN grid} : c.inMonth} :
           month \in MonthsFrom(ym)}

Between(t, a, b) == (a <= t /\ t <= b) \/ (b <= t /\ t <= a)

\* highlightFor: the days that are lit as picked, and those lit as a preview of a range.
Committed(t, start, range) ==
  start = None /\ range # None /\ range.start <= t /\ t <= range.end

Preview(t, start, hovered) ==
  start # None /\ Between(t, start, IF hovered # None THEN hovered ELSE start)

-----------------------------------------------------------------------------
(* The messages of the picker.                                             *)

Init ==
  /\ open = FALSE
  /\ visibleMonth = [year |-> 0, month |-> 0]
  /\ maybeRangeStart = None
  /\ maybeHoveredDay = None
  /\ maybeDraftRange = None
  /\ maybeDraftPreset = None
  /\ dateRange \in {Preset(p) : p \in Presets}
  /\ maybeEarliest = None
  /\ zone \in Zones
  /\ now \in Times

resetDraftFromSelection(selection) ==
  /\ maybeDraftPreset' = IF selection.tag = "Preset" THEN selection.preset ELSE None
  /\ maybeDraftRange' = IF selection.tag = "Custom" THEN RangeOf(selection) ELSE None
  /\ maybeRangeStart' = None
  /\ maybeHoveredDay' = None

Opened ==
  /\ ~open
  /\ open' = TRUE
  /\ visibleMonth' = visibleMonthFromWindow(getDateRangeWindow(dateRange))
  /\ resetDraftFromSelection(dateRange)
  /\ UNCHANGED <<dateRange, device>>

\* Escape, a click beside the panel or a blur: the draft stays behind.
Closed ==
  /\ open
  /\ open' = FALSE
  /\ UNCHANGED <<visibleMonth, draft, dateRange, device>>

ClickedPreset(p) ==
  /\ open
  /\ maybeDraftPreset' = p
  /\ maybeDraftRange' = None
  /\ maybeRangeStart' = None
  /\ maybeHoveredDay' = None
  /\ UNCHANGED <<open, visibleMonth, dateRange, device>>

\* Mutant: the second day is taken for the later one.
ClickedLastDayInOrder(t) ==
  /\ open
  /\ maybeRangeStart # None
  /\ maybeDraftRange' = [start |-> maybeRangeStart, end |-> t]
  /\ maybeRangeStart' = None
  /\ maybeHoveredDay' = None
  /\ maybeDraftPreset' = None
  /\ UNCHANGED <<open, visibleMonth, dateRange, device>>

\* ClickedDay, for the second day of a range.
ClickedLastDay(t) ==
  /\ open
  /\ maybeRangeStart # None
  /\ maybeDraftRange' = IF maybeRangeStart <= t THEN [start |-> maybeRangeStart, end |-> t]
                        ELSE [start |-> t, end |-> maybeRangeStart]
  /\ maybeRangeStart' = None
  /\ maybeHoveredDay' = None
  /\ maybeDraftPreset' = None
  /\ UNCHANGED <<open, visibleMonth, dateRange, device>>

\* ClickedDay, for the first one.
ClickedFirstDay(t) ==
  /\ open
  /\ maybeRangeStart = None
  /\ maybeRangeStart' = t
  /\ maybeDraftPreset' = None
  /\ maybeDraftRange' = None
  /\ maybeHoveredDay' = None
  /\ UNCHANGED <<open, visibleMonth, dateRange, device>>

\* Mutant: a day is remembered as hovered whether or not a range has been begun.
HoveredDayAlways(t) ==
  /\ open
  /\ maybeHoveredDay' = t
  /\ UNCHANGED <<open, visibleMonth, maybeRangeStart, maybeDraftRange, maybeDraftPreset,
                 dateRange, device>>

HoveredDay(t) ==
  /\ open
  /\ maybeRangeStart # None
  /\ maybeHoveredDay' = t
  /\ UNCHANGED <<open, visibleMonth, maybeRangeStart, maybeDraftRange, maybeDraftPreset,
                 dateRange, device>>

OnDay(t) == ClickedFirstDay(t) \/ ClickedLastDay(t) \/ HoveredDay(t)

ClickedPreviousMonth ==
  /\ open
  /\ MonthIndex(visibleMonth) > FirstMonth
  /\ visibleMonth' = IF visibleMonth.month = 0
                     THEN [year |-> visibleMonth.year - 1, month |-> 11]
                     ELSE [visibleMonth EXCEPT !.month = @ - 1]
  /\ UNCHANGED <<open, draft, dateRange, device>>

ClickedNextMonth ==
  /\ open
  /\ MonthIndex(visibleMonth) + 1 < LastMonth
  /\ visibleMonth' = IF visibleMonth.month = 11
                     THEN [year |-> visibleMonth.year + 1, month |-> 0]
                     ELSE [visibleMonth EXCEPT !.month = @ + 1]
  /\ UNCHANGED <<open, draft, dateRange, device>>

\* The picker closes and the dashboard takes the selection over.
ClickedApply ==
  /\ open
  /\ open' = FALSE
  /\ dateRange' = draftToSelection
  /\ UNCHANGED <<visibleMonth, draft, device>>

ClickedCancel ==
  /\ open
  /\ open' = FALSE
  /\ resetDraftFromSelection(dateRange)
  /\ UNCHANGED <<visibleMonth, dateRange, device>>

-----------------------------------------------------------------------------
(* Around the picker.                                                      *)

TimePasses ==
  /\ now' \in {t \in Times : t > now}
  /\ UNCHANGED <<open, visibleMonth, draft, dateRange, maybeEarliest, zone>>

SucceededFetchEarliestData ==
  /\ maybeEarliest = None
  /\ maybeEarliest' \in Earliest
  /\ UNCHANGED <<open, visibleMonth, draft, dateRange, zone, now>>

\* The applied range is restored from the settings, wherever the device is by then.
LoadPage ==
  /\ open' = FALSE
  /\ visibleMonth' = [year |-> 0, month |-> 0]
  /\ maybeRangeStart' = None
  /\ maybeHoveredDay' = None
  /\ maybeDraftRange' = None
  /\ maybeDraftPreset' = None
  /\ maybeEarliest' = None
  /\ zone' \in Zones
  /\ UNCHANGED <<dateRange, now>>

Next ==
  \/ Opened \/ Closed
  \/ \E p \in Presets : ClickedPreset(p)
  \/ \E c \in DayButtons(visibleMonth) : LocalDay(zone, c.dateMs) \in Picks /\ OnDay(c.dateMs)
  \/ ClickedPreviousMonth \/ ClickedNextMonth
  \/ ClickedApply \/ ClickedCancel
  \/ TimePasses \/ SucceededFetchEarliestData \/ LoadPage

Spec == Init /\ [][Next]_vars

-----------------------------------------------------------------------------
(* Correctness.                                                            *)

IsLocalMidnight(t) == t = startOfLocalDay(zone, t)

Selections ==
  [tag : {"Preset"}, preset : Presets] \cup [tag : {"Custom"}, startTime : Int, endTime : Int]

\* The types, of which one is a promise of update.ts:25-28: the days of a draft are
\* local midnights, those of the zone the grid is drawn in.
TypeOK ==
  /\ open \in BOOLEAN
  /\ visibleMonth \in [year : Int, month : 0 .. MONTHS_PER_YEAR - 1]
  /\ \A t \in {maybeRangeStart, maybeHoveredDay} : t # None => t \in Int /\ IsLocalMidnight(t)
  /\ maybeDraftRange # None =>
       /\ maybeDraftRange \in Ranges
       /\ IsLocalMidnight(maybeDraftRange.start)
       /\ IsLocalMidnight(maybeDraftRange.end)
       /\ maybeDraftRange.start <= maybeDraftRange.end
  /\ maybeDraftPreset \in Presets \cup {None}
  /\ dateRange \in Selections
  /\ dateRange.tag = "Custom" => dateRange.startTime <= dateRange.endTime
  /\ maybeEarliest \in Earliest \cup {None}
  /\ zone \in Zones
  /\ now \in Times

\* A preset, a range and the first day of a range exclude each other, and a day is
\* hovered only while a range is being picked (view.ts:114-117, 335-337).
OneChoiceAtATime ==
  /\ maybeDraftPreset # None => maybeDraftRange = None /\ maybeRangeStart = None
  /\ maybeDraftRange # None => maybeRangeStart = None
  /\ maybeHoveredDay # None => maybeRangeStart # None

\* The clocks of the zone do not skip the day.
HasDay(z, d) == LocalDay(z, MidnightOf(z, d)) = d

\* The zone has the first and the last day of a month: buildMonthGrid asks it for both.
HasEnds(z, month) == HasDay(z, FirstDay(month)) /\ HasDay(z, FirstDay(month + 1) - 1)

\* Every day of the two months of the panel that its zone has is a button, in the
\* column of its weekday, and no other cell of the month's grid shows it but, where
\* the clocks skip the day before it, the one in that day's place.
GridShowsTheMonth ==
  open => \A month \in MonthsFrom(visibleMonth) :
    LET grid == GridOf(month)
    IN  \A d \in FirstDay(month) .. FirstDay(month + 1) - 1 : HasDay(zone, d) =>
          \E k \in DOMAIN grid :
            /\ k % DAYS_PER_WEEK = (d + 1) % DAYS_PER_WEEK
            /\ grid[k].dateMs = MidnightOf(zone, d)
            /\ grid[k].inMonth
            /\ \A j \in DOMAIN grid :
                 LocalDay(zone, grid[j].dateMs) = d =>
                   j = k \/ (j = k - 1 /\ ~HasDay(zone, d - 1))

\* The window of a range of days has the instants of these days and no other, across
\* whatever change of the clocks lies in it or at its ends.
PickedDaysAreCovered ==
  maybeDraftRange # None =>
    LET window == selectionToCustomWindow(maybeDraftRange)
    IN  \A t \in Instants :
          (window.startTime <= t /\ t <= window.endTime) <=>
            /\ LocalDay(zone, maybeDraftRange.start) <= LocalDay(zone, t)
            /\ LocalDay(zone, t) <= LocalDay(zone, maybeDraftRange.end)

\* A range that is applied and opened again is the range that was picked
\* (update.ts:25-28).
DraftsRoundTrip ==
  maybeDraftRange # None => RangeOf(selectionToCustomWindow(maybeDraftRange)) = maybeDraftRange

\* Whether a selection has an instant of the day of t.
Touches(selection, t) ==
  /\ selection.tag = "Custom"
  /\ LocalDay(zone, selection.startTime) <= LocalDay(zone, t)
  /\ LocalDay(zone, t) <= LocalDay(zone, selection.endTime)

\* The choice on display is the selection: the lit preset, or the lit days.
Shows(selection, ym, start, range, preset) ==
  /\ \A p \in Presets : preset = p <=> selection = Preset(p)
  /\ \A c \in DayButtons(ym) : Committed(c.dateMs, start, range) <=> Touches(selection, c.dateMs)

\* What is lit is what is taken.  Apply takes over the lit preset or days, and with
\* nothing lit, a first day at most, it leaves the applied range as it was; a range
\* that ends on the hovered day has the days of the preview.
TakesWhatIsLit ==
  /\ ClickedApply =>
       IF maybeDraftPreset = None /\ maybeDraftRange = None
       THEN dateRange' = dateRange
       ELSE Shows(dateRange', visibleMonth, maybeRangeStart, maybeDraftRange, maybeDraftPreset)
  /\ maybeHoveredDay # None /\ ClickedLastDay(maybeHoveredDay) =>
       \A c \in DayButtons(visibleMonth) :
         Preview(c.dateMs, maybeRangeStart, maybeHoveredDay)
           <=> Committed(c.dateMs, maybeRangeStart', maybeDraftRange')

\* No step takes anything but what is lit.
LitIsTaken == [][TakesWhatIsLit]_vars

\* The panel opens on the applied range, in whatever zone that was applied: it is lit,
\* its last day is in one of the two months, and so is its first one if it can be.
OpenShowsApplied ==
  [][Opened =>
       LET window == getDateRangeWindow(dateRange)
           first == MonthAt(window.startTime)
           last == MonthAt(window.endTime)
       IN  /\ Shows(dateRange, visibleMonth', maybeRangeStart', maybeDraftRange', maybeDraftPreset')
           /\ last \in MonthsFrom(visibleMonth')
           /\ last <= first + 1 => first \in MonthsFrom(visibleMonth')]_vars

================================================================================
