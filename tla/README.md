# wan-monitor in TLA+

`wan-monitor` watches an internet connection: a server pings a list of hosts and runs speed tests,
writes the results to QuestDB and serves them; a single-page application shows them. This directory
models the parts of both that keep state, checks the models with TLC on small instances, and proves
with TLAPS, for every value of their constants, all of the safety that the passing runs check.

`PROJECT.json` is the index: components, runs, the mutants that each property is tested against, the
source lines behind every definition, the hazards of the code, the findings and the theorems.
Paths below are relative to `src/`.

1. [The system](#1-the-system)
2. [The modules](#2-the-modules)
3. [The runs](#3-the-runs)
4. [Where code and documentation disagree](#4-where-code-and-documentation-disagree)
5. [Fairness](#5-fairness)
6. [The proofs](#6-the-proofs)
7. [What is not modelled](#7-what-is-not-modelled)
8. [Plan](#8-plan)

## 1. The system

Effect fibers (server) and foldkit's update loop (browser) are both cooperative: code between two
awaits, and a whole `update`, run without interruption. Everything hard lies between those steps.

**QuestDB connection** — `apps/server/src/infrastructure/database/questdb/connection.ts`.
*State*: a Ref with the published connection (an ILP sender and a pgwire Pool), `isConnecting`,
`lastError`. *Operations*: the connection loop (connect with a timeout, bootstrap the schema, publish,
health-check, sleep), `getConnection`, `markDisconnected`, `close`, the Pool's `error` event, the
finalizer. *Hard*: closing takes three awaits between reading the Ref and setting it, and any fiber may
do it; `Effect.timeout` interrupts an attempt without its cleanups; the finalizer runs beside the loop.
*Correct if* a closed connection does not stay published, a connection under construction is nobody
else's, a published one is never exchanged under its users, and a working one always comes back.

**Schema bootstrap** — `questdb/bootstrap.ts`, `packages/shared/src/db-schema.ts`. *State*: none of its
own; the table it works on. *Operations*: CREATE TABLE IF NOT EXISTS, an introspection, one ALTER TABLE
per missing column. *Hard*: senders create columns too, an abandoned attempt's statement may still be
executed, and QuestDB shows a column some time after it accepted it. *Correct if* no connection is
published over an incomplete table, and no race keeps it from being published.

**Queries and writes** — `questdb/service.ts`, `questdb/ilp.ts`. Stateless: take the published
connection, use it, and call `markDisconnected` when it breaks. `row.at` is not awaited, so a write
ends before its row has left the sender's buffer; `retry_timeout` makes the sender repeat requests, into a
table without DEDUP.

**Monitor** — `core/monitoring/network-monitor.ts`, `ping-executor.ts`. *State*: the statistics and
two schedules. *Operations*: a ping cycle (all hosts at once, one timestamp), a speed test cycle.
`POST /ping/trigger` and `POST /speedtest/trigger` run the same beside them; speed test requests
exclude each other with `isRunningRef`. *Hard*: a cycle's rows share the sender's buffer with those
of other cycles and leave it at arbitrary moments; a native speed test cannot be cancelled and outlives
the fiber that awaits it; connection loss and crashes at any point. *Correct if* rows and statistics
tell the same truth about every ping and test, a row is there again only where a request was repeated, and
nobody waits for ever.

**Readers** — `core/api/handlers/connectivity-status.ts`, `questdb/queries.ts`. Stateless: the live
indicator classifies the newest second with rows, the timeline counts classified cycles in buckets.

**Dashboard** — `apps/web/src/dashboard`. *State*: the selected range, pause, idleness and theme, an
`AsyncData` per data set, the speed test's button, what is mounted and painted. *Operations*: ticks,
buttons, the range picker's result, responses. *Hard*: responses do not say which request they answer
and come in any order; several fetches share one tag; a chart needs mount, data, window and theme,
which come in any order. *Correct if* nothing is pending without a fetch, charts show the model, and
what is shown converges to what is selected.

**Date range picker** — `dashboard/dateRangePicker`, `calendarGrid.ts`, `dateRange.ts`. *State*: the
popover, the months on display, four optional fields of the draft; the dashboard's applied range.
*Operations*: opening, closing, presets, days, hovers, months, Apply, Cancel. *Hard*: local midnights
are skipped, repeated and not 24 hours apart; the view looks at two fields of the draft and Apply at
two others; an applied range is kept as instants and may be opened in another time zone. *Correct if*
what is lit is what is applied, and a range has exactly the days that were picked.

**Timeline on the screen** — `dashboard/connectivity.ts`, `charts/timeline.ts`: puts the server's
points on a grid the client computes for itself. *Correct if* no point lacks a slot, and bars, headline
and coverage tell one story.

**Session** — `apps/web/src/auth`. *State*: Checking, LoggedOut or LoggedIn, and a token in
localStorage. *Hard*: one page has several dashboards after another and late answers of an earlier one
reach the current one; localStorage may refuse a write; the page may be loaded again at any moment.
*Correct if* a session that was ended stays ended and the settings survive.

**Interactions.** Monitor and handlers call the query service, which reads the connection's Ref and
reports failures to it. The dashboard calls the handlers over HTTP, its Commands answering with
messages through the session's `GotDashboardMessage`. Nothing else is shared: the server does not
know sessions (a signed token decides), and the browser does not see the connection (only failures).

The rest of the repository (API schemas, views, configuration, deployment) keeps no state; section 7.

## 2. The modules

| Module | Models | Is |
|---|---|---|
| `ConnectionSlot` | what the connection promises to its users | abstract specification |
| `ConnectionLink` | what a write finds of the connection: there, being closed, or gone | abstract specification, of the connection to the pings |
| `QuestDBConnection` | connection.ts, and how service.ts uses it | component, implements `ConnectionSlot` and `ConnectionLink` |
| `QuestDBConnectionProofs` | | invariant, refinements, action property |
| `SchemaBootstrap` | bootstrap.ts within an attempt of the connection, and the table's other users | extends and implements `QuestDBConnection` |
| `SchemaBootstrapProofs` | | refinement, invariant |
| `RowCopies` | a table without DEDUP: the copies of its rows | operators |
| `RowDelivery` | what the write path promises of a ping's row: one delivery, and one more for each retry of its request | abstract specification |
| `PingCycles` | monitor's pings, write path, sender, live indicator | composition of monitor, executor, sender and reader, over `ConnectionLink`; implements `RowDelivery` |
| `PingCyclesProofs` | | invariants, refinement |
| `Speedtests` | both kinds of speed tests | component |
| `SpeedtestsProofs` | | invariants |
| `Timeline` | buckets, points, coverage, slots, bars | algorithms, against the history they summarise |
| `TimelineProofs` | | the grid, the fold into bars, invariants |
| `LocalDays` | days, midnights and month grids of a time zone (calendarGrid.ts) | algorithms |
| `DateRangePicker` | the picker, and the windows of dateRange.ts | component, over `LocalDays` |
| `DateRangePickerProofs` | | calendar lemmas, invariants, action properties |
| `Dashboard` | dashboard/update.ts and its commands | handlers, composed by `Session` |
| `Session` | auth/update.ts around one dashboard after another | composition |
| `SessionProofs` | | invariants and action property of both |
| `MC…` | | instances for TLC |

Definitions keep the names of the source where they can. A definition whose comment begins with
"Mutant:" is a bug the code could have had; no specification uses it. It stands before the definition
it replaces, and the property listed with it in `PROJECT.json` is violated once it does.

**QuestDBConnection.** `connection`, `isConnecting` and `lastError` are the Ref. `pc` says what each
fiber is awaiting, `conn` which connection it does that with, `how` whether its closing belongs to
`markDisconnected`, `close` or the finalizer. `openSenders`, `openPools`, `watched` are the resources in
the world outside. One action per stretch of code between two awaits: `markDisconnected` is
`ReadRefToClose`, `CloseSender`, `EndPool`, `MarkDisconnected` (flush, close, end, Ref.set).
`createConnection` is `SenderReady`, `Verified`, `Publish`, with `SenderFails`, `DiscardSender`,
`DiscardPool`, `Discarded` for errors and `AttemptTimesOut`, `DiscardTimesOut` for the interruption.
A JavaScript promise goes on when its fiber is interrupted: `detached` holds the connections such
promises still close. `UncaughtPoolError` is the process dying of an `error` event nobody listens to.
QuestDB is `db`: up (answers in time) or down (fails, or is late).
Identities of connections are reused when nothing of them is left, so that runs are unbounded.

**SchemaBootstrap.** The phase `"bootstrap"` of `QuestDBConnection` is one stretch in which the loop may
fail, time out or publish; here it is the statements of `bootstrapSchema`, in `statement` and `toAdd`, over
a table that is `tableExists` and `column`. A step of the connection goes with `AttemptOf`: only
an attempt whose last ALTER was answered publishes, and one that ends otherwise leaves nothing to the next.
`OthersAddColumn` and `OthersCreateTable` are senders and abandoned statements. A column is
`"committing"` between its acceptance and the moment an introspection shows it, so that an ALTER may meet a
column the introspection missed (the error "duplicate column", which the code takes for success).

**PingCycles.** Per fiber the cycle's number, timestamp, entries waited for and results; the statistics;
the connection as seen by a write (`connected`, and `closing` while `closeConnection` awaits); the
sender as `pending`, `sending`, `lastFlush`; the rows that can be read. A list of hosts may name a host twice, and
`POST /ping/trigger` takes any list: every element is pinged and writes a row, so that a ping is an *entry* of
its cycle's list and what its host is called plays no part. `Configured` are the entries of `PING_HOSTS`. Time is in
steps of one second, and `Tick` cannot pass what the code does without waiting nor a ping's deadline.
The sender is a library: `Append` is its documented auto-flush with the parameters of
`buildSenderConnectionString`, "a second or more since the last flush" being open at the boundary because the two
clocks are not aligned. `sending` is a set of requests: one takes up to `request_timeout`, ten times the flush
interval by default, so later ones may overtake it. It ends well (`SendSucceeds`); or it stored its rows, its
answer was lost or an error, and it is sent again (`AnswerIsLost`), which `Retries` bounds in the place of
`retry_timeout` and which leaves another copy of each row (`table` counts copies); or it fails for good
(`SendFails`), which ends the process, as nobody handles the rejection of `row.at`, with all its requests, any of which
may have stored its rows. What the connection may do is `ConnectionLink`: `Connect`,
`CloseConnection` and `Disconnect` are its steps, together with what they do to the sender, and section 6 proves that
`QuestDBConnection` does no others. `Disconnect` without a close before it is the late Ref.set of
`connection_cap`.

**Speedtests.** Each fiber's test, the native tests still running (`inFlight`), and what became of each
(`outcome`). `NativeEndsUnheard` is the end of a test whose fiber gave up. `ClientGone` is the
interruption of a handler.

**Timeline.** `cycles` is the history of the line, second by second; `FetchConnectivityStatus` takes any
window over it at any moment, as the server would answer it; the operators of the dashboard's side
turn the answer into `Segments` and bars. The earliest sample is asked for once per page load and may
be stale. SQL is modelled by what its clauses mean (`BETWEEN` inclusive, `SAMPLE BY … ALIGN TO
CALENDAR`), not by its text.

**LocalDays and DateRangePicker.** An instant is an hour, a day a number, and a zone changes its offset
once: `MidnightOf` is what `new Date(y, m, d)` does with a midnight that is skipped or shown twice, which is
where `startOfLocalDay`, `endOfLocalDay` and `buildMonthGrid` could go wrong. Months have equal lengths. The
draft's four fields are four variables, `Opened`, `ClickedFirstDay`, `ClickedApply`… the messages of
update.ts; the days that can be clicked are the buttons of the two grids on display (`DayButtons`), and
`Committed` and `Preview` are what `highlightFor` lights. `LoadPage` restores the applied range from the settings
in whatever zone the device is by then. The picker is not composed with `Dashboard`, which has its one
message to the outside as `AppliedRange`.

**Dashboard.** A slot is one `AsyncData` with its tag (`tag`) and the query whose rows it holds
(`shown`); `fetches` counts the requests in flight for each query. A query stands for its rows: the
model tells data apart by what was asked, which is what the properties are about. `window` is
the stored window, a field of its own in the code. `AsyncData` is foldkit's; `revalidate` is taken
from its use here and the tests of update.test.ts (it acts on Success and on Stale, and on nothing
else). The three charts of the metrics are always painted together and are one here. Toasts and the
hovered segment are left out, nothing depends on them. `Update` is the dashboard's next-state
relation; `Session` lifts it with `GotDashboardMessage`.

**Session.** `stage` is the tag of the model (LoggedIn split by whether there is a session: `User`,
`Guest`), `request` the request about the session in flight (one at most: the form's button is disabled
while a login is), `stored` whether localStorage has a token. `EnterLoggedIn` begins a
dashboard (`Enter` of `Dashboard`), `ClickedLogout` ends it (`Leave`). `LoadPage` forgets everything but localStorage and drops
the requests. `Dropped` and `DroppedOther` are answers that find no dashboard. The server's answers
are nondeterministic, which covers configuration changes, expired tokens and lost requests.

## 3. The runs

Twelve runs, of which seven pass and five are the counterexamples of section 4.

| Run | Instance | Distinct states | Question |
|---|---|---|---|
| `connection_safety` | 3 connections, 2 fibers, finalizer, close, timeouts | 676,208 | invariants of the Ref, and that the service implements `ConnectionSlot` |
| `schema_bootstrap` | 3 connections, 1 fiber, timeouts, 2 columns | 161,956 | are published tables complete; do connection and columns come back |
| `ping_cycles` | 2 entries, 3 cycles, 1 trigger beside the schedule, 1 retry, 6 s | 987,358 | do rows and statistics tell the truth, how long rows stay unsent, has the live indicator data |
| `speedtests` | 2 requests, monitor, 3 tests | 9,816 | flag, late results, statistics, nobody stuck |
| `timeline` | 4 s of history, windows up to 6 s, buckets of 2 s | 180,205 | do server, slots, bars and headline agree |
| `session` | 1 charted slot, 2 ranges, 2 themes | 517,808 | pending, painted, logged in, settings, convergence |
| `date_range_picker` | 5 zones, 3 months of 3 days, 9 presets | 239,568 | is what is lit what is applied, and is it the days picked |

What they show, by property (each has its comment in its module):

- *Connection.* `DeadIsBeingWithdrawn`: whoever closes the published connection is still on the way to
  withdraw it, so `getConnection` cannot return a dead one for good. `CandidateIsPrivate`: what is being
  built is reachable by the loop only. `PublishedPoolIsWatched`: an open published Pool has its
  listener. `OrphanedOnlyByLateReset`: the only way a Pool leaks while published is a late Ref.set (the
  finding of `connection_cap`). `ImplementsSlot`: users never see a connection exchanged.
- *Bootstrap.* `PublishedTablesAreComplete`: whoever finds a connection finds every column accepted, although
  columns are looked at in one statement and added in others. `Recovers` (a working connection comes back) and
  `ColumnsArrive` (so does every column), both once QuestDB stays up. `ImplementsConnection`: the statements
  are stutters of `QuestDBConnection`, its fairness included, so no race keeps an attempt from its end.
- *Pings.* `OneRowButForRetries`: whatever flush, loss, crash and overlap do, an entry of a cycle's list has one row, a
  cycle's rows share one timestamp, and a row has no copies but those of a request that was sent again: none
  while it is buffered, `Retries` while it is on its way, one more in the end. That a row is stored once is *not* so:
  nothing in the code prevents it. `StatsCountAcceptedRows`: of the pings of ended scheduled cycles, successes are those
  of reachable hosts whose row was taken, failures all others. `BufferedForOneInterval`: no row stays in the
  buffer longer than an interval, two trains and a second. `FreshWhileKeepingUp`: while every cycle gets
  through, the indicator has data. `DeliversRows`: the write path implements `RowDelivery`; no row that was lost, refused
  or done with comes back.
- *Speed tests.* `GateIsHeldByOne`, `LateResultsAreDropped`, `CyclesAreCountedOnce`; and under
  fairness `TestsAreConcluded` and `MonitorKeepsTesting`, although nothing says a native test ends.
- *Timeline.* `PointsFindTheirSlots`: server and chart have one grid, and the coverage is off by one bucket at most
  (which `coverage_gap` makes use of). `GreyMeansUnobserved`, `BarsAreTheSlots`, `HeadlineAgreesWithBars`.
- *Dashboard and session.* `PendingIsFetching`: a spinner always waits for an answer that can
  come. `ChartsShowTheModel`: in every order of mount, data and theme. `EndedSessionsStayEnded`: once the
  token was cleared only a login leads to a user's dashboard. `SettingsSurvive`: page loads, logouts
  and logins keep the settings, unless localStorage refused them. `RefreshConverges`: if the user leaves
  the range alone with the dashboard open, a slot whose fetches succeed ends up with the
  selected range, whatever older answers were on their way.
- *Picker.* `OneChoiceAtATime`: a preset, a range and a first day exclude each other in every order of
  messages. `LitIsTaken`: Apply takes what is lit, nothing lit means nothing changes, and the last day of a range
  takes its preview. `PickedDaysAreCovered`: the window of a range has exactly the instants of
  its days; that it opens as those days again (`DraftsRoundTrip`) follows and is a theorem only. `OpenShowsApplied`: the panel opens on the applied range, also one
  that was applied in another zone. `GridShowsTheMonth`: each day of a
  month that the zone has is a button in the column of its weekday, and no other cell shows it but the one before,
  where the zone skips the day before: `Date` takes the skipped day's midnight to the next day, which is in the grid
  twice then.

**Bounds and why they are enough.**

- *Connection.* The hazards need two connections (the one a fiber is closing, the one the loop has
  published meanwhile) and two fibers reporting one failure; the third connection is for leaks.
  Since identities are reused, runs are not bounded in length. `Recovers` excepts `Exhausted`, a state in
  which leaks have used up all identities: an artefact of the bound. Liveness is checked in
  `schema_bootstrap`, with one fiber and without the finalizer, after which there is nothing to recover.
  Connections and fibers are symmetric in the safety run.
- *Bootstrap.* Two columns make "one of several" and "all" different: one added by a sender while the other
  waits for its ALTER, or an attempt given up between them.
- *Pings.* Two entries make "one of several" and "all" different; the interval is 2 s, a train 1 s, so a
  window covers an integral number of both; three cycles and one failure put a failure before,
  within and after a cycle; one retry leaves a second copy. Once a triggered cycle or a retry has left a trace, `Bounds`
  follows the run to `TracedSecond` and `TracedCycle` only: the schedule alone is explored to the end, its overlap with a
  trigger or with repeated requests for two cycles. After a failure (of the connection or a request) it follows the
  runs in which no ping failed (`FailedPings`); before it, pings fail in every combination, and before the first
  connection all their rows are refused. The proofs hold for any number. `LastSecond`, `LastCycle` and `LastFailure` stop
  the instance, which is why these runs do not check for deadlock. `auto_flush_rows` is above what two entries produce.
  `"lossy"` is out of `Outcomes` in the runs: only `CycleStatus` tells it from `"clean"`, and no property on the
  runs does.
- *Speed tests.* `Tests` is used up, each once, and then the model stops (no deadlock check): two
  requests and the monitor can each hold one, or one of them all three in a row.
- *Timeline.* A bucket of 2 s can have its cycles before, in or after any unaligned edge of a window;
  4 s and windows up to 6 s give partial buckets at both ends and windows into the future. 60% of
  a bucket of 2 is both reachable and missable.
- *Session.* `MaxFetches` 2 makes two fetches of one query and two of another overlap; `MaxAsks` 2 lets
  the earliest datapoint of the previous dashboard answer the current one; `MaxTests` 1. Slots do not
  influence each other except through a common query, so one slot stands for each. `Refused` is the
  token only: a refused settings write makes `SettingsSurvive` vacuous by its premise, and is
  exercised in `dashboard_stale`. Larger instances that were checked once and are too slow to keep:
  `MaxTests` 2 (823,536 states), and the metrics together with the live indicator at `MaxFetches`,
  `MaxAsks` 1 (481,136 states): no property failed.
- *Picker.* The zones never change, skip a midnight, go back to 23:00 at the turn of a year, show a midnight
  twice, and skip a whole day. Days picked are those around the changes; months 10 to 12 of year -1 and 0 put the
  turn of a year between the two months on display. Time and the earliest sample take one or two values: they
  matter to presets only. A range applied again in another zone grows to whole days of that zone, by a day at an end, so `Bounds` follows
  ranges to one day beyond the picks.

## 4. Where code and documentation disagree

Each is a run that TLC must find violated, by a property that states the quoted line. The quotes and
the sequences of events are in `PROJECT.json`, "findings".

- `connection_cap`: the Pool's `max` is said to cap the backing connections; a late Ref.set
  drops a published connection unclosed, and two Pools are open (connection.ts:115, 185).
- `live_down`: "down" is said to mean that every host was unreachable; the auto-flush may make the
  failed host's row readable before the reachable host's (README.md:159, ilp.ts:32).
- `live_window`: one dropped cycle is said not to turn the indicator to "no data"; the interval is
  counted from the end of a cycle and the stamp from its begin (constants.ts:49).
- `dashboard_stale`: a fetch in flight at a change of the range is said to belong to a query that no
  longer applies; its answer is stored like any other, and stays if it comes last (update.ts:180, 433).
- `coverage_gap`: the coverage is said to be shown whenever it falls short; the bucket a window ends in
  counts as observed and not as expected and hides one gap (README.md:167, connectivity-status.ts:104).

## 5. Fairness

Liveness is claimed only where the code schedules its end:

- *Connection loop*: weak fairness on the loop's step, the statements of the bootstrap included. Every await
  has an `Effect.timeout` or is a sleep. The same for a fiber that reports an error or closes (its awaits
  are those of `closeConnection`, whose promises settle) and for detached promises. Not for queries, nor for
  QuestDB: `Recovers` and `ColumnsArrive` have `<>[](db = "up")` as their premise.
- *Table*: weak fairness on `Commit`, QuestDB applying what it accepted; not on senders.
- *Speed tests*: weak fairness on timeouts, on the end of a write, and on the monitor's schedule. Not on
  native tests, results or clients.
- *Session*: weak fairness on the 30 s tick, and per slot on the end of *some* request: the browser
  ends every request. It is per slot and not per query, so a particular answer may be overtaken for as
  long as others keep coming. That fetches succeed is a premise of `RefreshConverges`.

`PingCycles` and `Timeline` have no liveness properties: the bounded clock is their measure of time, and
"within" is stated as safety (`BufferedForOneInterval`). Nothing makes a user of the picker go on.

## 6. The proofs

`tlapm` checks the seven proof modules to the last leaf, with Z3, Zenon and LS4. Connections, fibers,
lists of hosts, triggers, retries, requests, tests, slots, ranges, columns, zones, months and all bounds are arbitrary but for the
named assumptions, which TLC evaluates in the runs:

- `DistinctNames`: the loop, the finalizer, the request fibers and "no connection" are different;
- `SpeedtestAssumption`: the monitor is not a request, `NoTest` not a test, finitely many tests;
- `PingAssumption`: finitely many entries, the configured ones among them, the monitor is not a trigger, a positive interval;
- `TimelineAssumption`: positive widths, `DegradedShare` a percentage; `DashboardAssumption`: the slots are those of
  the code;
- `ZonesAssumption`: months have days, and a zone does not go back over a midnight to the day before (section 7);
  `ClocksAssumption`: the device's clock is past the epoch and past the first sample; `InputsAssumption`,
  `NoneAssumption`: types.

**QuestDBConnectionProofs.** First `Holds` = `TypeOK /\ LoopHolds /\ FibersHold`: in which phases each
fiber holds a connection, and that while the loop watches or closes one the Ref has this one or none.
It is inductive by itself and gives `TypeCorrect`. Then `IInv` adds

- `CandidateOwns`: what of the candidate exists in which phase (without it `Publish` could publish a
  connection that is not open);
- `ListenersAndCleanups`: listeners only on open pools, and a detached cleanup never at the published
  connection before the end (without it a cleanup could break `DeadIsBeingWithdrawn`);
- `EndedStaysEnded`: no one reopens a pool while the fiber that ended it awaits;
- and the three safety invariants, which need one another: a connection under
  construction is safe from other fibers only because it is not published, and so on.

`Invariance` is `Spec => []IInv`; each of the three (`DeadConnectionsAreWithdrawn`,
`CandidatesArePrivate`, `PublishedPoolsAreWatched`) follows. `ConnectionImplementsSlot` maps every step to
`Build`, `Offer`, `Break`, `Withdraw`, `Restart` or a stutter of `ConnectionSlot`, with
`slot <- connection` and `usable <- openSenders \cap openPools`; `OrphansComeFromLateResets` is the
action property, from the same invariant. `ConnectionImplementsLink` goes on from there: a step of the slot is at
most one of `ConnectionLink`, with `connected <- connection # NoConn` and `closing` for a connection that is published
and not usable. It is what joins the two models: all `PingCycles` takes from the connection is this link.

**SchemaBootstrapProofs.** `BootstrapImplementsConnection` (without fairness) hands every invariant of the
connection on. `TablesAreComplete` needs `Progress`: after CREATE TABLE there is a table, and after the introspection
each column is accepted or still in `toAdd`; nobody removes a column, and `AttemptOf` ties publishing to
the last ALTER.

**PingCyclesProofs.** `OneRowButForRetries` (`RowsTellTheTruth`) is not inductive: it takes the history of pings
(`Pings`: a cycle has one fiber and one timestamp, and waits for no ping that settled), of which the rows buffered, those
of each request and those in the table are parts, no two requests have a row in common, and a row has the copies its place
allows (`Buffers`). `StatsCountAcceptedRows` adds `Tally`: the results of the cycle that runs are the entries of its
rows, so that what it adds at its end is what `Ended`, the pings that are counted, gains from `Running`; by
cardinalities. `RowsAreSentSoon` follows from `Pace`: counted from the last flush, the monitor's next ping settles within
an interval and a train, so its row flushes the buffer; the theorem is for a list of hosts that is not empty. So is
`IndicatorIsFresh`, which takes `Order` (timestamps never go back) and `Recent` (how old the last ended cycle can be), and
the assumption `PingInterval + 2 * PingDeadline <= LiveWindow`, i.e. that the window covers an interval and the trains at
both its ends; with a train longer than half the interval and beyond `LIVE_WINDOW_MIN_SECONDS` the indicator may lose its
data although nothing failed. `RowsAreDeliveredAsPromised` is the refinement, from `Pings` and `Buffers`: a ping that settles
is `Offer` (its row is new because no settled ping is still waited for), with a connection or without one; a request
that ends, is sent again or fails is `Deliver`, the loss or the last flush of the buffer `Empty`; everything else is a
stutter.

**SpeedtestsProofs.** `Ownership` says which fiber has which test: two fibers never the same, the
monitor's are the scheduled ones, and no other scheduled test is still awaited. With it
`GateIsHeldByOne`, `LateResultsAreDropped` and `CyclesAreCountedOnce` are inductive. The last one is
about cardinalities: a step that concludes the monitor's test adds it to the tests that are over and to
exactly one of the counts (`CountConcluded`, from `FiniteSetTheorems`), every other step leaves
them (`CountUntouched`).

**TimelineProofs.** The grid: multiples of a width are a width apart, `Aligned` is the one below, and the client's
slots are the multiples in its window (`SlotsAreTheGrid`). With `AnswersHistory`, that the points are the buckets of
the cycles known when the answer was given, the server's grid and the client's are the same
(`GridsAgree`) and grey means unobserved. Coloured slots and points are then one-to-one but for the bucket the
window ends in, which is what the coverage is off by (`CoverageIsOfTheSlots`). `Headline` relates the counts to each
point for `HeadlineIsTrue`. `BarsTellTheSlots` is about a fold over a sequence of any length. The induction is by a
least counterexample: `FoldExists` unfolds the fold one element at a time, `Covers` says what the bars so far make of
the slots so far, and the first slot at which it fails (`LeastElement`, from the well-foundedness of <) would be one
that `NextBar` shows to keep it.

**DateRangePickerProofs.** All arithmetic of midnights is in `MidnightIsLeast`: the midnight of a day is the first
instant whose day is not an earlier one. From it, days are intervals of instants, and `WindowsCoverTheirDays`,
`DraftsComeBack` and `LitIsWhatIsTaken` compare ends of intervals. The invariant is `TypeOK /\ OneChoiceAtATime`; what
makes it work is that `TypeOK` has the days of a draft as midnights of the zone the grid is drawn in, so that two
buttons of one day are one instant. `PanelOpensOnTheRange` needs that windows are in order: those of the presets go
from a start to now, by `PresetsInOrder` and `ClocksAssumption`; and that the month opened shows the last day
(`MonthsRoundTrip`: a month written as a year and a month of it is that month again). `GridsShowTheirMonths` counts weeks: the cells of a month
are the days from the Sunday before its first one (`WeeksOfMonth`, `ColumnOfDay`), and only a skipped day's cell shows
the day after it (`SkipsNoTwoDays`, `GridOfMonth`). It holds for a month whose first and
last day the zone has (`HasEnds`), which is the theorem's premise; in the runs every month has them, which TLC
evaluates. Where a zone skips the last day of a month (section 7) the code asks `Date` for a day that is not there.

**SessionProofs.** `Stages` says which requests are in flight at which stage and that nothing is pending outside
a dashboard: without it an answer that finds no dashboard would have to be one that something waits for.
`WindowsMatch` (the stored window is that of the stored rows) gives `ChartsAreCurrent`, and `SettingsAreSaved`
(localStorage has what is shown unless it refused the last write) `SettingsAreKept`.

**Only model-checked.** Liveness (`Recovers`, `ColumnsArrive`, `TestsAreConcluded`, `MonitorKeepsTesting`,
`RefreshConverges`, the fairness in `ImplementsConnection`): fairness and ENABLED are out of the prover's reach. So are
the five properties of section 4, which do not hold.

## 7. What is not modelled

- *Server authorization* (jwt.ts, middleware.ts): stateless, decides a request by its header, the
  configuration and the clock; `Session` takes its answers as arbitrary.
- *Calendars*: months of different lengths (the code never uses a length, it asks `Date` for the day before
  the next month); zones with more than one change in sight; zones that go back over a midnight to the day before (as
  Newfoundland did until 2011) or skip the first or last day of a month (Kiritimati, 31 December 1994), where the
  grid and the windows do what the calendar cannot express; a device whose zone changes without a page load.
- *Date range label, granularity*: the label of a range and the choice of a bucket's width from a window.
- *Column types*: a column that a sender created with another type counts as there, as it does for the code.
- *The picker's popover*: focus and its own messages, reduced to opened and closed.
- *Damaged or newer blobs in localStorage*: decoding falls back to defaults. A second tab of the same browser, which
  shares localStorage.
- *Failed chart mounts*: a chart that is mounted comes up.
- *Slow name resolution*: a ping train ends by its deadline. `ping` may resolve a host's name for longer than that, and
  `BufferedForOneInterval` and `FreshWhileKeepingUp` are late by as much then.
- *A request's rows that are stored after the process gave it up*: `SendFails` and `CloseConnection` settle at once which
  rows of their requests are stored.
- *Metrics, health and earliest-sample endpoints, row mappers, shared schemas*: translations without state
  or order.
- *Views, chart options, summary statistics*: functions of the model; the buttons they disable are
  guards.
- *The ping binary, the speed test library, QuestDB, the ILP sender, pg's Pool, foldkit, Effect*: external,
  by what the code relies on.
- *Hazards without a property* (each in `PROJECT.json` with its reason): what a timed-out attempt to connect leaves open
  (connection.ts:211), slots whose first fetch failed
  (dashboard/update.ts:121), an earliest sample asked for on an empty database (:107), an expired token under an open
  dashboard (auth/update.ts:134). The models have these steps, but the repository does not say what should
  happen, or it depends on what foldkit does.
- *Startup and configuration, deployment scripts, end-to-end tests*: read once, or no part of the running
  system. That supervisord restarts the server is used by the crash actions.

## 8. Plan

Done, in this order: the connection and its abstract slot, with proofs; ping cycles with the sender and
the live indicator; speed tests, with proofs; the dashboard; the timeline; the session around the
dashboard; the bootstrap of the schema as a refinement of the connection, with proofs; the date range picker over a
calendar with zones, with proofs; the proofs of ping cycles, session and timeline, the fold of the bars and the month
grids included; the delivery of rows with its retries, and the link between pings and connection.

Next, by what they would show:

1. `DateRangePicker` composed with `Dashboard`: drafts against a range that a page load or another message
   changes under them; the dashboard's `AppliedRange` becomes the picker's.
2. Slots that fail at the first fetch: `revalidate` passes over them although the message says
   "Retrying automatically." (dashboard/command.ts:34); needs a reading of foldkit's rule the tests of the
   repository do not give.
3. Storage decoding: a page load with a blob of another version.
4. The intervals of the subscriptions, so that how soon a slot converges can be said, not only that it does.
5. Proofs: how many Pools can be open at once, by what each is (published, under construction, being closed, or
   dropped by a late Ref.set); abstract specifications of the speed test's flag and of a session, with refinements.

New runs of later modules take the place of runs that answer a smaller question, or merge with them.
