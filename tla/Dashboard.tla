------------------------------ MODULE Dashboard ------------------------------
(***************************************************************************)
(* The dashboard of a logged-in user: the Model and update of              *)
(* apps/web/src/dashboard/update.ts with the commands it issues.  Each     *)
(* slot (the metrics, the speed test history, the connectivity status and  *)
(* the live indicator) holds an AsyncData that fetches fill.  A fetch      *)
(* carries the date range it was issued for; its response does not, and    *)
(* responses arrive in any order.  Session.tla is the application around   *)
(* it: a page has one dashboard after another, and a response reaches the  *)
(* one there is.                                                           *)
(*                                                                         *)
(* A query stands for what its rows and its window say; the three charts   *)
(* of the metrics are painted together and stand here as one.              *)
(***************************************************************************)

EXTENDS Naturals, FiniteSets

CONSTANTS
  Slots,       \* the slots of this instance, among AllSlots
  Ranges,      \* the date ranges a user selects
  AllTime,     \* the preset whose start is the earliest datapoint
  Now,         \* stands for the range of the live indicator, which has none
  NoData,
  Themes,
  Refused,     \* the writes localStorage may refuse: "settings", "token"
  MaxFetches,  \* bound: fetches of one query in flight at once
  MaxAsks,     \* bound: fetches of the earliest datapoint in flight at once
  MaxTests     \* bound: speed tests of this page in flight at once

AllSlots == {"metrics", "history", "status", "live"}

ASSUME DashboardAssumption ==
  /\ {"metrics"} \subseteq Slots /\ Slots \subseteq AllSlots
  /\ AllTime \in Ranges
  /\ Now \notin Ranges
  /\ Refused \subseteq {"settings", "token"}
  /\ {MaxFetches, MaxAsks, MaxTests} \subseteq Nat \ {0}

VARIABLES
  dateRange,      \* model.dateRange
  known,          \* whether model.maybeEarliestDataMs is Some
  asking,         \* how many FetchEarliestData are in flight
  tag,            \* the tag of each slot's AsyncData
  shown,          \* the query whose rows the AsyncData holds
  window,         \* the query whose window is stored beside them
  fetches,        \* how many fetches of each query are in flight
  isPaused, isIdle, theme,
  trigger,        \* the tag of model.speedtestTrigger
  testing,        \* how many TriggerSpeedtest are in flight
  mounted,        \* the slots whose chart is mounted
  painted,        \* what each chart shows
  saved,          \* the settings in localStorage
  saveFailed      \* whether the last write of the settings failed (history)

asyncData == <<tag, shown, window>>
activity == <<isPaused, isIdle>>
speedtest == <<trigger, testing>>
charts == <<mounted, painted>>
storage == <<saved, saveFailed>>
flights == <<fetches, asking, testing>>
dashboard == <<dateRange, known, asyncData, activity, theme, trigger, charts>>

Ranged == Slots \ {"live"}

\* The slots with charts, whose window is a field of its own.
Charted == Slots \cap {"metrics", "history"}

\* The query a slot's fetch resolves: getDateRangeWindow looks at the earliest
\* datapoint for "All time" only, and the live indicator at no range.
QueryOf(s, range, k) ==
  IF s = "live" THEN [range |-> Now, resolved |-> TRUE]
  ELSE [range |-> range, resolved |-> (range = AllTime => k)]

Queries == {QueryOf(s, range, k) : s \in Slots, range \in Ranges, k \in BOOLEAN}

Tags == {"Idle", "Loading", "Refreshing", "Success", "Stale", "Failure"}
Pending == {"Loading", "Refreshing"}

Settings == [theme : Themes, dateRange : Ranges, isPaused : BOOLEAN]
Paintings == [data : Queries, window : Queries, theme : Themes] \cup {NoData}

DashboardTypes ==
  /\ dateRange \in Ranges
  /\ known \in BOOLEAN
  /\ asking \in 0..MaxAsks
  /\ tag \in [Slots -> Tags]
  /\ shown \in [Slots -> Queries \cup {NoData}]
  /\ window \in [Charted -> Queries \cup {NoData}]
  /\ fetches \in [Slots -> [Queries -> 0..MaxFetches]]
  /\ isPaused \in BOOLEAN
  /\ isIdle \in BOOLEAN
  /\ theme \in Themes
  /\ trigger \in Tags
  /\ testing \in 0..MaxTests
  /\ mounted \subseteq Charted
  /\ painted \in [Charted -> Paintings]
  /\ saved \in Settings
  /\ saveFailed \in BOOLEAN

-----------------------------------------------------------------------------
(* What the handlers are made of.                                          *)

\* A fetch for every target, with the range and the earliest datapoint given.
Fetch(targets, range, k) ==
  /\ \A s \in targets : fetches[s][QueryOf(s, range, k)] < MaxFetches
  /\ fetches' = [s \in Slots |->
                   IF s \in targets
                   THEN [fetches[s] EXCEPT ![QueryOf(s, range, k)] = @ + 1] ELSE fetches[s]]

\* forceReload: pending again, with the data it has.
ForceReload(targets) ==
  tag' = [s \in Slots |->
            IF s \notin targets THEN tag[s]
            ELSE IF shown[s] = NoData THEN "Loading" ELSE "Refreshing"]

Reload(targets, range, k) ==
  /\ Fetch(targets, range, k)
  /\ ForceReload(targets)
  /\ UNCHANGED <<shown, window>>

\* Mutant: only the slots whose last refresh failed are asked again.
RevalidatedIfStale == {s \in Slots : tag[s] = "Stale"}

\* AsyncData.revalidate: a slot that has data and is not pending.
Revalidated == {s \in Slots : tag[s] \in {"Success", "Stale"}}

\* Mutant: a response is handled twice.
AnsweredAgain(s, q) == fetches' = [fetches EXCEPT ![s][q] = @ - 1]

\* A response leaves the fetches in flight.
Answered(s, q) ==
  /\ fetches[s][q] > 0
  /\ fetches' = [fetches EXCEPT ![s][q] = @ - 1]

AnsweredEarliestData == asking > 0 /\ asking' = asking - 1

AnsweredTrigger == testing > 0 /\ testing' = testing - 1

\* A chart is painted if it is mounted and there are data and a window.
Paint(s, host, data, win, th) ==
  IF s \in host /\ data # NoData /\ win # NoData
  THEN [data |-> data, window |-> win, theme |-> th] ELSE painted[s]

\* SaveSettings, with the settings of the next model.
SaveSettings ==
  \/ /\ saved' = [theme |-> theme', dateRange |-> dateRange', isPaused |-> isPaused']
     /\ saveFailed' = FALSE
  \/ /\ "settings" \in Refused
     /\ saveFailed' = TRUE
     /\ UNCHANGED saved

-----------------------------------------------------------------------------
(* A dashboard comes and goes.                                             *)

\* Of initModel, nothing but the settings has survived the previous dashboard.
Blank(tags) ==
  /\ known' = FALSE
  /\ tag' = [s \in Slots |-> tags]
  /\ shown' = [s \in Slots |-> NoData]
  /\ window' = [s \in Charted |-> NoData]
  /\ isIdle' = FALSE
  /\ trigger' = "Idle"
  /\ mounted' = {}
  /\ painted' = [s \in Charted |-> NoData]

\* initModel, and EnteredDashboard: every slot is empty and loads.  Requests of
\* an earlier dashboard may still be in flight.
Enter ==
  /\ Blank("Loading")
  /\ Fetch(Slots, dateRange, FALSE)
  /\ asking < MaxAsks
  /\ asking' = asking + 1
  /\ UNCHANGED <<dateRange, isPaused, theme, testing>>

\* The dashboard is gone, and the requests it made are not.
Leave ==
  /\ Blank("Idle")
  /\ UNCHANGED <<dateRange, isPaused, theme, flights>>

-----------------------------------------------------------------------------
(* The user and the clock.                                                 *)

\* Every 30 seconds while the dashboard is neither paused nor idle.
TickedRefresh ==
  /\ ~isPaused /\ ~isIdle
  /\ Revalidated # {}
  /\ Fetch(Revalidated, dateRange, known)
  /\ tag' = [s \in Slots |-> IF s \in Revalidated THEN "Refreshing" ELSE tag[s]]
  /\ UNCHANGED <<dateRange, known, asking, shown, window, activity, theme, speedtest, charts, storage>>

\* Mutant: the settings of the model before the selection are saved.
AppliedRangeSavedOld(range) ==
  /\ dateRange' = range
  /\ Reload(Ranged, range, known)
  /\ saved' = [theme |-> theme, dateRange |-> dateRange, isPaused |-> isPaused]
  /\ saveFailed' = FALSE
  /\ UNCHANGED <<known, asking, activity, theme, speedtest, charts>>

\* The picker applied a range: everything but the live indicator starts afresh.
AppliedRange(range) ==
  /\ dateRange' = range
  /\ Reload(Ranged, range, known)
  /\ UNCHANGED <<known, asking, activity, theme, speedtest, charts>>
  /\ SaveSettings

\* The button is disabled while the metrics are pending.
ClickedRefreshNow ==
  /\ tag["metrics"] \notin Pending
  /\ Reload(Slots, dateRange, known)
  /\ UNCHANGED <<dateRange, known, asking, activity, theme, speedtest, charts, storage>>

\* While idle the button wakes the dashboard instead.
ClickedTogglePause ==
  /\ ~isIdle
  /\ isPaused' = ~isPaused
  /\ UNCHANGED <<dateRange, known, asking, asyncData, fetches, isIdle, theme, speedtest, charts>>
  /\ SaveSettings

\* Interacted and WentIdle.
ChangedActivity ==
  /\ isIdle' = ~isIdle
  /\ UNCHANGED <<dateRange, known, asking, asyncData, fetches, isPaused, theme, speedtest, charts,
                 storage>>

ClickedToggleTheme ==
  /\ theme' \in Themes \ {theme}
  /\ painted' = [s \in Charted |-> Paint(s, mounted, shown[s], window[s], theme')]
  /\ UNCHANGED <<dateRange, known, asking, asyncData, fetches, activity, speedtest, mounted>>
  /\ SaveSettings

\* The button is disabled while a test runs.
ClickedTriggerSpeedtest ==
  /\ trigger \notin Pending
  /\ testing < MaxTests
  /\ testing' = testing + 1
  /\ trigger' = "Loading"
  /\ UNCHANGED <<dateRange, known, asking, asyncData, fetches, activity, theme, charts, storage>>

SucceededMountChart(s) ==
  /\ s \notin mounted
  /\ mounted' = mounted \cup {s}
  /\ painted' = [painted EXCEPT ![s] = Paint(s, mounted', shown[s], window[s], theme)]
  /\ UNCHANGED <<dateRange, known, asking, asyncData, fetches, activity, theme, speedtest, storage>>

-----------------------------------------------------------------------------
(* Responses.                                                              *)

\* Mutant: the window of the current range is stored with the response.
FetchSucceedsRewindowed(s, q) ==
  /\ Answered(s, q)
  /\ tag' = [tag EXCEPT ![s] = "Success"]
  /\ shown' = [shown EXCEPT ![s] = q]
  /\ IF s \in Charted
       THEN /\ window' = [window EXCEPT ![s] = QueryOf(s, dateRange, known)]
            /\ painted' = [painted EXCEPT ![s] = Paint(s, mounted, q, window'[s], theme)]
       ELSE UNCHANGED <<window, painted>>
  /\ UNCHANGED <<dateRange, known, asking, activity, theme, speedtest, mounted, storage>>

\* Succeeded*: the slot holds the response, whatever it was asked since.
FetchSucceeds(s, q) ==
  /\ Answered(s, q)
  /\ tag' = [tag EXCEPT ![s] = "Success"]
  /\ shown' = [shown EXCEPT ![s] = q]
  /\ IF s \in Charted
       THEN /\ window' = [window EXCEPT ![s] = q]
            /\ painted' = [painted EXCEPT ![s] = Paint(s, mounted, q, q, theme)]
       ELSE UNCHANGED <<window, painted>>
  /\ UNCHANGED <<dateRange, known, asking, activity, theme, speedtest, mounted, storage>>

\* Mutant: a refresh that fails is ignored.
FetchFailsSilently(s, q) ==
  /\ Answered(s, q)
  /\ tag' = [tag EXCEPT ![s] = IF shown[s] = NoData THEN "Failure" ELSE @]
  /\ UNCHANGED <<dateRange, known, asking, shown, window, activity, theme, speedtest, charts, storage>>

\* Failed*: an error, beside the data if there are any.
FetchFails(s, q) ==
  /\ Answered(s, q)
  /\ tag' = [tag EXCEPT ![s] = IF shown[s] = NoData THEN "Failure" ELSE "Stale"]
  /\ UNCHANGED <<dateRange, known, asking, shown, window, activity, theme, speedtest, charts, storage>>

\* SucceededFetchEarliestData: "All time" is asked again once its start is known.
SucceededFetchEarliestData(some) ==
  /\ AnsweredEarliestData
  /\ known' = some
  /\ IF dateRange = AllTime /\ ~known /\ some
       THEN Reload(Ranged, dateRange, some)
       ELSE UNCHANGED <<asyncData, fetches>>
  /\ UNCHANGED <<dateRange, activity, theme, speedtest, charts, storage>>

FailedFetchEarliestData ==
  /\ AnsweredEarliestData
  /\ UNCHANGED <<dateRange, known, asyncData, fetches, activity, theme, speedtest, charts, storage>>

\* The test was run: its row is fetched, beside any fetch there is.
SucceededTriggerSpeedtest ==
  /\ AnsweredTrigger
  /\ trigger' = "Success"
  /\ Fetch(Charted, dateRange, known)
  /\ UNCHANGED <<dateRange, known, asking, asyncData, activity, theme, charts, storage>>

FailedTriggerSpeedtest ==
  /\ AnsweredTrigger
  /\ trigger' = "Failure"
  /\ UNCHANGED <<dateRange, known, asking, asyncData, fetches, activity, theme, charts, storage>>

-----------------------------------------------------------------------------
Answer(s, q) == FetchSucceeds(s, q) \/ FetchFails(s, q)

Update ==
  \/ TickedRefresh \/ ClickedRefreshNow
  \/ \E range \in Ranges : AppliedRange(range)
  \/ ClickedTogglePause \/ ChangedActivity \/ ClickedToggleTheme
  \/ ClickedTriggerSpeedtest \/ SucceededTriggerSpeedtest \/ FailedTriggerSpeedtest
  \/ \E s \in Charted : SucceededMountChart(s)
  \/ \E s \in Slots, q \in Queries : Answer(s, q)
  \/ \E some \in BOOLEAN : SucceededFetchEarliestData(some)
  \/ FailedFetchEarliestData

-----------------------------------------------------------------------------
(* Correctness, of a dashboard within whatever session.                    *)

\* A slot is pending only while a fetch of it is in flight, and so is the speed
\* test: a spinner, and the button it disables, wait for a response that can still
\* come, although responses are not matched with requests and those of an earlier
\* dashboard of the page count as well.
PendingIsFetching ==
  /\ \A s \in Slots : tag[s] \in Pending => \E q \in Queries : fetches[s][q] > 0
  /\ trigger \in Pending => testing > 0

\* A mounted chart shows the rows of the model, in the window of the fetch that
\* brought them and in the current theme, in whatever order the chart was
\* mounted, the data came and the theme was changed.
ChartsShowTheModel ==
  \A s \in mounted :
    shown[s] # NoData =>
      painted[s] = [data |-> shown[s], window |-> shown[s], theme |-> theme]

\* The query a slot should answer.
Current(s) == QueryOf(s, dateRange, known)

-----------------------------------------------------------------------------
(* What comments say, and the code does not keep.                          *)

\* update.ts:180: a fetch in flight when the range changes "belongs to a query
\* that no longer applies", so what a settled slot holds answers the current one.
SettledSlotsAreCurrent ==
  \A s \in Slots :
    tag[s] = "Success" /\ (\A q \in Queries : fetches[s][q] = 0) => shown[s] = Current(s)

=============================================================================
