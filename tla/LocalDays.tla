------------------------------- MODULE LocalDays -------------------------------
(***************************************************************************)
(* The calendar of a time zone, as the browser's Date has it, and the      *)
(* month grids of apps/web/src/dashboard/calendarGrid.ts.  An instant is a *)
(* number of hours since the epoch and stands for the hour that begins     *)
(* there; a day is a number of days since the epoch, and a month a number  *)
(* of months.                                                              *)
(*                                                                         *)
(* A zone changes its offset from UTC once.  Months have equal lengths:    *)
(* nothing here depends on which of them are longer.                       *)
(***************************************************************************)
EXTENDS Integers

CONSTANTS
  Zones,     \* [before, after, change]: the offsets before and from an instant on
  MonthDays  \* days of a month

HOURS_PER_DAY == 24
DAYS_PER_WEEK == 7
MONTHS_PER_YEAR == 12

LocalTime(z, t) == t + (IF t < z.change THEN z.before ELSE z.after)

\* getFullYear, getMonth and getDate of new Date(t), as one number.
LocalDay(z, t) == LocalTime(z, t) \div HOURS_PER_DAY

\* new Date(year, month, day): the first instant the clocks show 00:00 of that day,
\* and for one they skip, 00:00 by the offset before the change.
MidnightOf(z, d) ==
  LET wall == d * HOURS_PER_DAY
  IN  IF wall - z.before >= z.change /\ wall - z.after >= z.change
      THEN wall - z.after ELSE wall - z.before

MonthOf(d) == d \div MonthDays
FirstDay(m) == m * MonthDays

\* The clocks may show a midnight twice, and where they skip one or a whole day they
\* do so from a midnight on; they do not go back over a midnight to the day before.
ASSUME ZonesAssumption ==
  /\ MonthDays \in Nat \ {0}
  /\ \A z \in Zones :
       /\ z.before \in Int /\ z.after \in Int /\ z.change \in Int
       /\ (z.change - 1 + z.before) \div HOURS_PER_DAY
            <= (z.change + z.after) \div HOURS_PER_DAY
       /\ (z.change + z.after - 1) \div HOURS_PER_DAY
            <= (z.change + z.before) \div HOURS_PER_DAY

startOfLocalDay(z, t) == MidnightOf(z, LocalDay(z, t))

\* Mutant: a day is twenty-four hours long.
endOfLocalDayByHours(z, t) == startOfLocalDay(z, t) + HOURS_PER_DAY - 1

endOfLocalDay(z, t) == MidnightOf(z, LocalDay(z, t) + 1) - 1

isSameLocalDay(z, t, u) == LocalDay(z, t) = LocalDay(z, u)

-----------------------------------------------------------------------------
(* The grid of a month: the cells of its weeks, one after the other.       *)

\* What the grid needs to know of a month: its number, the cells before its first
\* day, and the cells of its weeks.
MonthShape(z, month) ==
  LET first == LocalDay(z, MidnightOf(z, FirstDay(month)))
      last == LocalDay(z, MidnightOf(z, FirstDay(month + 1) - 1))
      leading == first % DAYS_PER_WEEK
      total == leading + ((last % MonthDays) + 1) + (DAYS_PER_WEEK - 1 - (last % DAYS_PER_WEEK))
  IN  [month |-> MonthOf(first),
       leading |-> leading,
       weeks |-> (total + DAYS_PER_WEEK - 1) \div DAYS_PER_WEEK]

CellAt(z, month, t, now) ==
  [dateMs |-> t, inMonth |-> MonthOf(LocalDay(z, t)) = month, isToday |-> isSameLocalDay(z, t, now)]

\* Mutant: the cells are twenty-four hours apart.
buildMonthGridByHours(z, month, now) ==
  LET shape == MonthShape(z, month)
  IN  [k \in 1 .. DAYS_PER_WEEK * shape.weeks |->
         CellAt(z, shape.month,
                MidnightOf(z, FirstDay(shape.month)) + HOURS_PER_DAY * (k - 1 - shape.leading), now)]

buildMonthGrid(z, month, now) ==
  LET shape == MonthShape(z, month)
  IN  [k \in 1 .. DAYS_PER_WEEK * shape.weeks |->
         CellAt(z, shape.month,
                MidnightOf(z, FirstDay(shape.month) - shape.leading + k - 1), now)]

================================================================================
