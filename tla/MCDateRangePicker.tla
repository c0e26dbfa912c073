--------------------------- MODULE MCDateRangePicker ---------------------------
(* DateRangePicker on small instances for TLC: months of three days, around the    *)
(* turn of the year 0, on the days 33 to 38.                                       *)
EXTENDS DateRangePicker

AtDay(d) == d * HOURS_PER_DAY

\* Clocks that never change, that skip a midnight, that go back to 23:00 at the turn
\* of the year, that show a midnight twice, and that skip a day within a month.
MCZones == {
  [before |->  -5, after |->  -5, change |-> 0],
  [before |->  -3, after |->  -2, change |-> AtDay(35) + 3],
  [before |->   1, after |->   0, change |-> AtDay(36) - 1],
  [before |->   3, after |->   2, change |-> AtDay(34) - 2],
  [before |-> -11, after |->  13, change |-> AtDay(34) + 11]}

MCTimes == {AtDay(35) + 7, AtDay(36) - 1}
MCEarliest == {AtDay(34) + 3}

\* The first and the last hours of the days of every zone, and the changes.
MCInstants ==
  UNION {{MidnightOf(z, d) - 1, MidnightOf(z, d), MidnightOf(z, d) + 1} : z \in Zones, d \in 32 .. 38}
  \cup UNION {{z.change - 1, z.change, z.change + 1} : z \in Zones}

\* A range that is applied again in another zone grows there, by a day at an end: the
\* run follows it to one day beyond those the user points at.
Bounds ==
  dateRange.tag = "Custom" =>
    {LocalDay(zone, dateRange.startTime), LocalDay(zone, dateRange.endTime)} \subseteq 32 .. 37

\* What GridShowsTheMonth needs of a zone.
ASSUME \A z \in Zones, m \in FirstMonth .. LastMonth : HasEnds(z, m)

================================================================================
