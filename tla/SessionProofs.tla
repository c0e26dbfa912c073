---------------------------- MODULE SessionProofs ----------------------------
(***************************************************************************)
(* Safety of the application for any slots, ranges and themes, and any     *)
(* number of requests in flight.                                           *)
(*                                                                         *)
(* The dashboard's properties depend on the session around it (an answer   *)
(* that finds no dashboard must find nothing pending either) and the       *)
(* session's on what may be in flight at which stage: Stages says both.    *)
(***************************************************************************)
EXTENDS Session, TLAPS

\* Requests about the session are made outside a dashboard, and outside a
\* dashboard nothing is pending.
Stages ==
  /\ request \in {"status", "me"} => stage = "Checking"
  /\ request = "login" => stage = "LoggedOut"
  /\ request = "me" => stored
  /\ stage \notin LoggedIn => trigger = "Idle" /\ \A s \in Slots : tag[s] = "Idle"

\* The window is stored with the rows it belongs to.
WindowsMatch == \A s \in Charted : window[s] = shown[s]

\* Unless the last write was refused, localStorage has the settings shown.
SettingsAreSaved ==
  ~saveFailed => saved = [theme |-> theme, dateRange |-> dateRange, isPaused |-> isPaused]

Holds == TypeOK /\ Stages

IInv ==
  /\ Holds
  /\ WindowsMatch
  /\ SettingsAreSaved
  /\ PendingIsFetching
  /\ ChartsShowTheModel
  /\ EndedSessionsStayEnded

-----------------------------------------------------------------------------
(* What the handlers are made of.                                          *)

LEMMA QueryType ==
  ASSUME NEW s \in Slots, NEW range \in Ranges, NEW k \in BOOLEAN
  PROVE  QueryOf(s, range, k) \in Queries
  BY DEF Queries

\* A fetch is one more in flight for each of its targets, and none less for any.
LEMMA FetchAdds ==
  ASSUME TypeOK, NEW targets \in SUBSET Slots, NEW range \in Ranges, NEW k \in BOOLEAN,
         Fetch(targets, range, k)
  PROVE  /\ fetches' \in [Slots -> [Queries -> 0..MaxFetches]]
         /\ \A s \in targets : \E q \in Queries : fetches'[s][q] > 0
         /\ \A s \in Slots, q \in Queries : fetches[s][q] > 0 => fetches'[s][q] > 0
  <1>1. fetches \in [Slots -> [Queries -> 0..MaxFetches]] /\ MaxFetches \in Nat
    BY DashboardAssumption DEF TypeOK, DashboardTypes
  <1>2. \A s \in targets : QueryOf(s, range, k) \in Queries
    BY QueryType
  <1>3. /\ \A s \in targets : fetches[s][QueryOf(s, range, k)] < MaxFetches
        /\ fetches' = [s \in Slots |->
                        IF s \in targets
                        THEN [fetches[s] EXCEPT ![QueryOf(s, range, k)] = @ + 1] ELSE fetches[s]]
    BY DEF Fetch
  <1>4. ASSUME NEW s \in targets
        PROVE  /\ fetches'[s] \in [Queries -> 0..MaxFetches]
               /\ fetches'[s][QueryOf(s, range, k)] > 0
               /\ \A q \in Queries : fetches[s][q] > 0 => fetches'[s][q] > 0
    <2> DEFINE q0 == QueryOf(s, range, k)
    <2>1. /\ q0 \in Queries
          /\ fetches[s] \in [Queries -> 0..MaxFetches]
          /\ fetches[s][q0] < MaxFetches
          /\ fetches'[s] = [fetches[s] EXCEPT ![q0] = @ + 1]
      BY <1>1, <1>2, <1>3
    <2> HIDE DEF q0
    <2>2. /\ fetches'[s] \in [Queries -> 0..MaxFetches]
          /\ fetches'[s][q0] > 0
          /\ \A q \in Queries : fetches[s][q] > 0 => fetches'[s][q] > 0
      BY <1>1, <2>1
    <2> QED
      BY <2>2 DEF q0
  <1>5. \A s \in Slots \ targets : fetches'[s] = fetches[s]
    BY <1>3
  <1>6. fetches' \in [Slots -> [Queries -> 0..MaxFetches]]
    <2>1. \A s \in Slots : fetches'[s] \in [Queries -> 0..MaxFetches]
      BY <1>1, <1>4, <1>5
    <2>2. fetches' = [s \in Slots |-> fetches'[s]]
      BY <1>3
    <2> QED
      BY <2>1, <2>2
  <1> QED
    BY <1>2, <1>4, <1>5, <1>6

\* A response is one less in flight, of its slot and query only.
LEMMA AnsweredTakes ==
  ASSUME TypeOK, NEW s \in Slots, NEW q \in Queries, Answered(s, q)
  PROVE  /\ fetches' \in [Slots -> [Queries -> 0..MaxFetches]]
         /\ \A t \in Slots \ {s} : fetches'[t] = fetches[t]
  <1>1. fetches \in [Slots -> [Queries -> 0..MaxFetches]] /\ MaxFetches \in Nat
    BY DashboardAssumption DEF TypeOK, DashboardTypes
  <1>2. fetches[s] \in [Queries -> 0..MaxFetches] /\ fetches[s][q] > 0
    BY <1>1 DEF Answered
  <1>3. [fetches[s] EXCEPT ![q] = @ - 1] \in [Queries -> 0..MaxFetches]
    BY <1>1, <1>2
  <1>4. fetches' = [fetches EXCEPT ![s] = [fetches[s] EXCEPT ![q] = @ - 1]]
    BY <1>1 DEF Answered
  <1> QED
    BY <1>1, <1>3, <1>4

LEMMA ReloadTypes ==
  ASSUME TypeOK, NEW targets \in SUBSET Slots, NEW range \in Ranges, NEW k \in BOOLEAN,
         Reload(targets, range, k)
  PROVE  /\ fetches' \in [Slots -> [Queries -> 0..MaxFetches]]
         /\ tag' \in [Slots -> Tags]
         /\ UNCHANGED <<shown, window>>
         /\ \A s \in Slots : tag'[s] \in Pending =>
              s \in targets \/ (tag'[s] = tag[s])
  <1>1. fetches' \in [Slots -> [Queries -> 0..MaxFetches]]
    BY FetchAdds DEF Reload
  <1>2. tag' = [s \in Slots |->
                 IF s \notin targets THEN tag[s]
                 ELSE IF shown[s] = NoData THEN "Loading" ELSE "Refreshing"]
    BY DEF Reload, ForceReload
  <1>3. tag \in [Slots -> Tags]
    BY DEF TypeOK, DashboardTypes
  <1>4. tag' \in [Slots -> Tags]
    BY <1>2, <1>3 DEF Tags
  <1>5. \A s \in Slots : s \notin targets => tag'[s] = tag[s]
    BY <1>2
  <1> QED
    BY <1>1, <1>4, <1>5 DEF Reload

LEMMA PaintType ==
  ASSUME TypeOK, NEW s \in Charted, NEW host, NEW data \in Queries \cup {NoData},
         NEW win \in Queries \cup {NoData}, NEW th \in Themes
  PROVE  Paint(s, host, data, win, th) \in Paintings
  <1>1. painted[s] \in Paintings
    BY DEF TypeOK, DashboardTypes
  <1>2. ASSUME data # NoData, win # NoData
        PROVE  [data |-> data, window |-> win, theme |-> th] \in Paintings
    BY <1>2 DEF Paintings
  <1> QED
    BY <1>1, <1>2 DEF Paint

LEMMA SaveTypes ==
  ASSUME TypeOK, SaveSettings, theme' \in Themes, dateRange' \in Ranges, isPaused' \in BOOLEAN
  PROVE  saved' \in Settings /\ saveFailed' \in BOOLEAN /\ SettingsAreSaved'
  <1> DEFINE next == [theme |-> theme', dateRange |-> dateRange', isPaused |-> isPaused']
  <1>1. next \in Settings
    BY DEF Settings
  <1>2. \/ saved' = next /\ saveFailed' = FALSE
        \/ saved' = saved /\ saveFailed' = TRUE
    BY DEF SaveSettings
  <1>3. saved \in Settings
    BY DEF TypeOK, DashboardTypes
  <1> QED
    BY <1>1, <1>2, <1>3 DEF SettingsAreSaved

-----------------------------------------------------------------------------
(* The dashboard's own steps.                                              *)

\* What of the invariant a step of the dashboard has to keep.
Kept ==
  /\ DashboardTypes
  /\ WindowsMatch
  /\ SettingsAreSaved
  /\ PendingIsFetching
  /\ ChartsShowTheModel

\* A step that leaves rows, charts and settings alone has the pending left to show.
LEMMA KeptByFetching ==
  ASSUME IInv, UNCHANGED <<dateRange, shown, window, isPaused, theme, charts, storage>>,
         known' \in BOOLEAN, asking' \in 0..MaxAsks, tag' \in [Slots -> Tags],
         fetches' \in [Slots -> [Queries -> 0..MaxFetches]], isIdle' \in BOOLEAN,
         trigger' \in Tags, testing' \in 0..MaxTests,
         PendingIsFetching'
  PROVE  Kept'
  BY DEF IInv, Holds, TypeOK, DashboardTypes, Kept, WindowsMatch, SettingsAreSaved,
         ChartsShowTheModel, charts, storage

LEMMA TickedRefreshKeeps == IInv /\ TickedRefresh => Kept'
  <1> SUFFICES ASSUME IInv, TickedRefresh PROVE Kept'
    OBVIOUS
  <1>1. TypeOK /\ Revalidated \in SUBSET Slots /\ dateRange \in Ranges /\ known \in BOOLEAN
    BY DEF IInv, Holds, TypeOK, DashboardTypes, Revalidated
  <1>2. /\ fetches' \in [Slots -> [Queries -> 0..MaxFetches]]
        /\ \A s \in Revalidated : \E q \in Queries : fetches'[s][q] > 0
        /\ \A s \in Slots, q \in Queries : fetches[s][q] > 0 => fetches'[s][q] > 0
    BY <1>1, FetchAdds DEF TickedRefresh
  <1>3. tag' = [s \in Slots |-> IF s \in Revalidated THEN "Refreshing" ELSE tag[s]]
    BY DEF TickedRefresh
  <1>4. UNCHANGED <<dateRange, known, asking, shown, window, isPaused, isIdle, theme, trigger,
                    testing, charts, storage>>
    BY DEF TickedRefresh, activity, speedtest
  <1>5. PendingIsFetching'
    BY <1>2, <1>3, <1>4 DEF IInv, PendingIsFetching
  <1>6. tag' \in [Slots -> Tags]
    BY <1>1, <1>3 DEF TypeOK, DashboardTypes, Tags
  <1> QED
    BY <1>1, <1>2, <1>4, <1>5, <1>6, KeptByFetching DEF TypeOK, DashboardTypes

\* Slots that are reloaded are pending and fetched; the others are as before.
LEMMA ReloadKeepsPending ==
  ASSUME IInv, NEW targets \in SUBSET Slots, NEW range \in Ranges, NEW k \in BOOLEAN,
         Reload(targets, range, k), UNCHANGED <<trigger, testing>>
  PROVE  PendingIsFetching'
  <1>1. /\ \A s \in targets : \E q \in Queries : fetches'[s][q] > 0
        /\ \A s \in Slots, q \in Queries : fetches[s][q] > 0 => fetches'[s][q] > 0
    BY FetchAdds DEF IInv, Holds, Reload
  <1>2. \A s \in Slots : tag'[s] \in Pending => s \in targets \/ tag'[s] = tag[s]
    BY ReloadTypes DEF IInv, Holds
  <1> QED
    BY <1>1, <1>2 DEF IInv, PendingIsFetching

LEMMA AppliedRangeKeeps ==
  ASSUME IInv, NEW range \in Ranges, AppliedRange(range)
  PROVE  Kept'
  <1>1. /\ Reload(Ranged, range, known)
        /\ dateRange' = range
        /\ UNCHANGED <<known, asking, isPaused, isIdle, theme, trigger, testing, charts>>
    BY DEF AppliedRange, activity, speedtest
  <1>2. TypeOK /\ known \in BOOLEAN /\ Ranged \in SUBSET Slots
    BY DEF IInv, Holds, TypeOK, DashboardTypes, Ranged
  <1>3. /\ fetches' \in [Slots -> [Queries -> 0..MaxFetches]]
        /\ tag' \in [Slots -> Tags]
        /\ UNCHANGED <<shown, window>>
    BY <1>1, <1>2, ReloadTypes
  <1>4. saved' \in Settings /\ saveFailed' \in BOOLEAN /\ SettingsAreSaved'
    BY <1>1, <1>2, SaveTypes DEF AppliedRange, TypeOK, DashboardTypes
  <1>5. PendingIsFetching'
    BY <1>1, <1>2, ReloadKeepsPending
  <1> QED
    BY <1>1, <1>2, <1>3, <1>4, <1>5
    DEF IInv, TypeOK, DashboardTypes, Kept, WindowsMatch, ChartsShowTheModel, charts

LEMMA ReloadKeeps ==
  ASSUME IInv, NEW targets \in SUBSET Slots, NEW k \in BOOLEAN,
         Reload(targets, dateRange, k), known' \in BOOLEAN, asking' \in 0..MaxAsks,
         UNCHANGED <<dateRange, isPaused, isIdle, theme, trigger, testing, charts, storage>>
  PROVE  Kept'
  <1>1. TypeOK /\ dateRange \in Ranges
    BY DEF IInv, Holds, TypeOK, DashboardTypes
  <1>2. /\ fetches' \in [Slots -> [Queries -> 0..MaxFetches]]
        /\ tag' \in [Slots -> Tags]
        /\ UNCHANGED <<shown, window>>
    BY <1>1, ReloadTypes
  <1>3. PendingIsFetching'
    BY <1>1, ReloadKeepsPending
  <1> QED
    BY <1>1, <1>2, <1>3, KeptByFetching DEF TypeOK, DashboardTypes

LEMMA SettingKeeps ==
  ASSUME IInv, SaveSettings, UNCHANGED <<dateRange, known, asking, asyncData, fetches, isIdle,
         theme, speedtest, charts>>, isPaused' \in BOOLEAN
  PROVE  Kept'
  <1>1. TypeOK /\ dateRange' \in Ranges /\ theme' \in Themes
    BY DEF IInv, Holds, TypeOK, DashboardTypes
  <1>2. saved' \in Settings /\ saveFailed' \in BOOLEAN /\ SettingsAreSaved'
    BY <1>1, SaveTypes
  <1> QED
    BY <1>1, <1>2 DEF IInv, TypeOK, DashboardTypes, Kept, WindowsMatch, ChartsShowTheModel,
                      PendingIsFetching, asyncData, speedtest, charts

LEMMA ToggleThemeKeeps == IInv /\ ClickedToggleTheme => Kept'
  <1> SUFFICES ASSUME IInv, ClickedToggleTheme PROVE Kept'
    OBVIOUS
  <1>1. /\ TypeOK
        /\ theme' \in Themes
        /\ painted' = [s \in Charted |-> Paint(s, mounted, shown[s], window[s], theme')]
        /\ UNCHANGED <<dateRange, known, asking, tag, shown, window, fetches, isPaused, isIdle,
                       trigger, testing, mounted>>
    BY DEF ClickedToggleTheme, IInv, Holds, asyncData, activity, speedtest
  <1>2. Charted \subseteq Slots
    BY DEF Charted
  <1>3. painted' \in [Charted -> Paintings]
    BY <1>1, <1>2, PaintType DEF TypeOK, DashboardTypes
  <1>4. dateRange' \in Ranges /\ isPaused' \in BOOLEAN
    BY <1>1 DEF TypeOK, DashboardTypes
  <1>5. saved' \in Settings /\ saveFailed' \in BOOLEAN /\ SettingsAreSaved'
    BY <1>1, <1>4, SaveTypes DEF ClickedToggleTheme
  <1>6. ChartsShowTheModel'
    BY <1>1 DEF ChartsShowTheModel, Paint, IInv, WindowsMatch, TypeOK, DashboardTypes
  <1> QED
    BY <1>1, <1>3, <1>5, <1>6 DEF IInv, TypeOK, DashboardTypes, Kept, WindowsMatch, PendingIsFetching

LEMMA MountKeeps ==
  ASSUME IInv, NEW s \in Charted, SucceededMountChart(s)
  PROVE  Kept'
  <1>1. /\ TypeOK
        /\ mounted' = mounted \cup {s}
        /\ painted' = [painted EXCEPT ![s] = Paint(s, mounted', shown[s], window[s], theme)]
        /\ UNCHANGED <<dateRange, known, asking, tag, shown, window, fetches, isPaused, isIdle,
                       theme, trigger, testing, storage>>
    BY DEF SucceededMountChart, IInv, Holds, asyncData, activity, speedtest
  <1>2. painted \in [Charted -> Paintings] /\ theme \in Themes /\ s \in Slots
    BY <1>1 DEF TypeOK, DashboardTypes, Charted
  <1>3. Paint(s, mounted', shown[s], window[s], theme) \in Paintings
    BY <1>1, <1>2, PaintType DEF TypeOK, DashboardTypes
  <1>4. painted' \in [Charted -> Paintings]
    BY <1>1, <1>2, <1>3
  <1>5. ChartsShowTheModel'
    BY <1>1, <1>2 DEF ChartsShowTheModel, Paint, IInv, WindowsMatch, TypeOK, DashboardTypes
  <1> QED
    BY <1>1, <1>4, <1>5 DEF IInv, TypeOK, DashboardTypes, Kept, WindowsMatch, PendingIsFetching,
                            SettingsAreSaved, storage

LEMMA SucceedsKeeps ==
  ASSUME IInv, NEW s \in Slots, NEW q \in Queries, FetchSucceeds(s, q)
  PROVE  Kept'
  <1>1. /\ TypeOK
        /\ Answered(s, q)
        /\ tag' = [tag EXCEPT ![s] = "Success"]
        /\ shown' = [shown EXCEPT ![s] = q]
        /\ UNCHANGED <<dateRange, known, asking, isPaused, isIdle, theme, trigger, testing,
                       mounted, storage>>
    BY DEF FetchSucceeds, IInv, Holds, activity, speedtest
  <1>2. /\ fetches' \in [Slots -> [Queries -> 0..MaxFetches]]
        /\ \A t \in Slots \ {s} : fetches'[t] = fetches[t]
    BY <1>1, AnsweredTakes
  <1>3. /\ tag' \in [Slots -> Tags]
        /\ shown' \in [Slots -> Queries \cup {NoData}]
        /\ shown'[s] = q /\ \A t \in Slots \ {s} : shown'[t] = shown[t]
        /\ tag'[s] = "Success" /\ \A t \in Slots \ {s} : tag'[t] = tag[t]
    BY <1>1 DEF TypeOK, DashboardTypes, Tags
  <1>4. PendingIsFetching'
    BY <1>1, <1>2, <1>3 DEF IInv, PendingIsFetching, Pending
  <1>5. /\ window' \in [Charted -> Queries \cup {NoData}]
        /\ painted' \in [Charted -> Paintings]
        /\ WindowsMatch'
        /\ ChartsShowTheModel'
    <2>1. CASE s \in Charted
      <3>1. /\ window' = [window EXCEPT ![s] = q]
            /\ painted' = [painted EXCEPT ![s] = Paint(s, mounted, q, q, theme)]
        BY <2>1 DEF FetchSucceeds
      <3>2. Paint(s, mounted, q, q, theme) \in Paintings
        BY <1>1, <2>1, PaintType DEF TypeOK, DashboardTypes
      <3>3. /\ window' \in [Charted -> Queries \cup {NoData}]
            /\ painted' \in [Charted -> Paintings]
        BY <1>1, <3>1, <3>2 DEF TypeOK, DashboardTypes
      <3>4. WindowsMatch'
        BY <1>1, <1>3, <2>1, <3>1 DEF IInv, WindowsMatch, TypeOK, DashboardTypes, Charted
      <3>5. ChartsShowTheModel'
        BY <1>1, <1>3, <2>1, <3>1
        DEF IInv, ChartsShowTheModel, Paint, TypeOK, DashboardTypes, Charted
      <3> QED
        BY <3>3, <3>4, <3>5
    <2>2. CASE s \notin Charted
      <3>1. UNCHANGED <<window, painted>>
        BY <2>2 DEF FetchSucceeds
      <3>2. \A t \in Charted : t \in Slots \ {s}
        BY <2>2 DEF Charted
      <3> QED
        BY <1>1, <1>3, <3>1, <3>2
        DEF IInv, WindowsMatch, ChartsShowTheModel, TypeOK, DashboardTypes
    <2> QED
      BY <2>1, <2>2
  <1> QED
    BY <1>1, <1>2, <1>3, <1>4, <1>5 DEF IInv, TypeOK, DashboardTypes, Kept, SettingsAreSaved, storage

LEMMA FailsKeeps ==
  ASSUME IInv, NEW s \in Slots, NEW q \in Queries, FetchFails(s, q)
  PROVE  Kept'
  <1>1. /\ TypeOK
        /\ Answered(s, q)
        /\ tag' = [tag EXCEPT ![s] = IF shown[s] = NoData THEN "Failure" ELSE "Stale"]
        /\ UNCHANGED <<dateRange, known, asking, shown, window, isPaused, isIdle, theme, trigger,
                       testing, charts, storage>>
    BY DEF FetchFails, IInv, Holds, activity, speedtest
  <1>2. /\ fetches' \in [Slots -> [Queries -> 0..MaxFetches]]
        /\ \A t \in Slots \ {s} : fetches'[t] = fetches[t]
    BY <1>1, AnsweredTakes
  <1>3. /\ tag' \in [Slots -> Tags]
        /\ tag'[s] \notin Pending /\ \A t \in Slots \ {s} : tag'[t] = tag[t]
    BY <1>1 DEF TypeOK, DashboardTypes, Tags, Pending
  <1>4. PendingIsFetching'
    BY <1>1, <1>2, <1>3 DEF IInv, PendingIsFetching
  <1> QED
    BY <1>1, <1>2, <1>3, <1>4, KeptByFetching DEF TypeOK, DashboardTypes

\* The three answers to a speed test's button.
LEMMA SpeedtestKeeps ==
  IInv /\ (ClickedTriggerSpeedtest \/ SucceededTriggerSpeedtest \/ FailedTriggerSpeedtest) => Kept'
  <1> SUFFICES ASSUME IInv, ClickedTriggerSpeedtest \/ SucceededTriggerSpeedtest
                              \/ FailedTriggerSpeedtest
               PROVE  Kept'
    OBVIOUS
  <1>1. /\ TypeOK /\ dateRange \in Ranges /\ known \in BOOLEAN
        /\ Charted \in SUBSET Slots
        /\ testing \in Nat /\ testing \in 0..MaxTests /\ MaxTests \in Nat
    BY DashboardAssumption DEF IInv, Holds, TypeOK, DashboardTypes, Charted
  <1>2. CASE ClickedTriggerSpeedtest
    <2>1. /\ testing' = testing + 1 /\ testing < MaxTests
          /\ trigger' = "Loading"
          /\ UNCHANGED <<dateRange, known, asking, tag, shown, window, fetches, isPaused, isIdle,
                         theme, charts, storage>>
      BY <1>2 DEF ClickedTriggerSpeedtest, asyncData, activity
    <2>2. PendingIsFetching' /\ testing' \in 0..MaxTests /\ trigger' \in Tags
      BY <1>1, <2>1 DEF IInv, PendingIsFetching, Tags
    <2> QED
      BY <1>1, <2>1, <2>2, KeptByFetching DEF TypeOK, DashboardTypes
  <1>3. CASE SucceededTriggerSpeedtest
    <2>1. /\ testing' = testing - 1 /\ testing > 0
          /\ trigger' = "Success"
          /\ Fetch(Charted, dateRange, known)
          /\ UNCHANGED <<dateRange, known, asking, tag, shown, window, isPaused, isIdle,
                         theme, charts, storage>>
      BY <1>3 DEF SucceededTriggerSpeedtest, AnsweredTrigger, asyncData, activity
    <2>2. /\ fetches' \in [Slots -> [Queries -> 0..MaxFetches]]
          /\ \A s \in Slots, q \in Queries : fetches[s][q] > 0 => fetches'[s][q] > 0
      BY <1>1, <2>1, FetchAdds
    <2>3. PendingIsFetching' /\ testing' \in 0..MaxTests /\ trigger' \in Tags
      BY <1>1, <2>1, <2>2 DEF IInv, PendingIsFetching, Tags, Pending
    <2> QED
      BY <1>1, <2>1, <2>2, <2>3, KeptByFetching DEF TypeOK, DashboardTypes
  <1>4. CASE FailedTriggerSpeedtest
    <2>1. /\ testing' = testing - 1 /\ testing > 0
          /\ trigger' = "Failure"
          /\ UNCHANGED <<dateRange, known, asking, tag, shown, window, fetches, isPaused, isIdle,
                         theme, charts, storage>>
      BY <1>4 DEF FailedTriggerSpeedtest, AnsweredTrigger, asyncData, activity
    <2>2. PendingIsFetching' /\ testing' \in 0..MaxTests /\ trigger' \in Tags
      BY <1>1, <2>1 DEF IInv, PendingIsFetching, Tags, Pending
    <2> QED
      BY <1>1, <2>1, <2>2, KeptByFetching DEF TypeOK, DashboardTypes
  <1> QED
    BY <1>2, <1>3, <1>4

LEMMA EarliestDataKeeps ==
  ASSUME IInv, FailedFetchEarliestData \/ \E some \in BOOLEAN : SucceededFetchEarliestData(some)
  PROVE  Kept'
  <1>1. /\ TypeOK /\ Ranged \in SUBSET Slots
        /\ asking \in 0..MaxAsks /\ MaxAsks \in Nat
    BY DashboardAssumption DEF IInv, Holds, TypeOK, DashboardTypes, Ranged
  <1>2. asking' \in 0..MaxAsks
    BY <1>1 DEF FailedFetchEarliestData, SucceededFetchEarliestData, AnsweredEarliestData
  <1>3. ASSUME NEW some \in BOOLEAN, SucceededFetchEarliestData(some)
        PROVE  Kept'
    <2>1. /\ known' = some
          /\ UNCHANGED <<dateRange, isPaused, isIdle, theme, trigger, testing, charts, storage>>
      BY <1>3 DEF SucceededFetchEarliestData, activity, speedtest
    <2>2. CASE dateRange = AllTime /\ ~known /\ some
      <3>1. Reload(Ranged, dateRange, some)
        BY <1>3, <2>2 DEF SucceededFetchEarliestData
      <3> QED
        BY <1>1, <1>2, <2>1, <3>1, ReloadKeeps
    <2>3. CASE ~(dateRange = AllTime /\ ~known /\ some)
      <3>1. UNCHANGED <<tag, shown, window, fetches>>
        BY <1>3, <2>3 DEF SucceededFetchEarliestData, asyncData
      <3>2. PendingIsFetching'
        BY <2>1, <3>1 DEF IInv, PendingIsFetching
      <3> QED
        BY <1>1, <1>2, <2>1, <3>1, <3>2, KeptByFetching DEF TypeOK, DashboardTypes
    <2> QED
      BY <2>2, <2>3
  <1>4. CASE FailedFetchEarliestData
    <2>1. UNCHANGED <<dateRange, known, tag, shown, window, fetches, isPaused, isIdle, theme,
                      trigger, testing, charts, storage>>
      BY <1>4 DEF FailedFetchEarliestData, asyncData, activity, speedtest
    <2>2. PendingIsFetching'
      BY <2>1 DEF IInv, PendingIsFetching
    <2> QED
      BY <1>1, <1>2, <2>1, <2>2, KeptByFetching DEF TypeOK, DashboardTypes
  <1> QED
    BY <1>3, <1>4

LEMMA UpdateKeeps == IInv /\ Update => Kept'
  <1> SUFFICES ASSUME IInv, Update PROVE Kept'
    OBVIOUS
  <1>1. TypeOK /\ known \in BOOLEAN /\ asking \in 0..MaxAsks /\ isPaused \in BOOLEAN
        /\ isIdle \in BOOLEAN
    BY DEF IInv, Holds, TypeOK, DashboardTypes
  <1>2. CASE ClickedRefreshNow
    BY <1>1, <1>2, ReloadKeeps DEF ClickedRefreshNow, activity, speedtest
  <1>3. CASE ClickedTogglePause
    BY <1>1, <1>3, SettingKeeps DEF ClickedTogglePause
  <1>4. CASE ChangedActivity
    <2>1. /\ isIdle' \in BOOLEAN
          /\ UNCHANGED <<dateRange, known, asking, tag, shown, window, fetches, isPaused, theme,
                         trigger, testing, charts, storage>>
      BY <1>1, <1>4 DEF ChangedActivity, asyncData, speedtest
    <2>2. PendingIsFetching'
      BY <2>1 DEF IInv, PendingIsFetching
    <2> QED
      BY <1>1, <2>1, <2>2, KeptByFetching DEF TypeOK, DashboardTypes
  <1>5. ASSUME NEW s \in Slots, NEW q \in Queries, Answer(s, q) PROVE Kept'
    BY <1>5, SucceedsKeeps, FailsKeeps DEF Answer
  <1> QED
    BY <1>2, <1>3, <1>4, <1>5, TickedRefreshKeeps, AppliedRangeKeeps, ToggleThemeKeeps,
       MountKeeps, SpeedtestKeeps, EarliestDataKeeps DEF Update

-----------------------------------------------------------------------------
(* The session's steps.                                                    *)

\* A dashboard that is gone, or not there yet, has nothing pending or painted.
LEMMA BlankKeeps ==
  ASSUME IInv, Blank("Idle"), UNCHANGED storage,
         fetches' \in [Slots -> [Queries -> 0..MaxFetches]],
         asking' \in 0..MaxAsks, testing' \in 0..MaxTests,
         dateRange' \in Ranges, isPaused' \in BOOLEAN, theme' \in Themes, SettingsAreSaved'
  PROVE  Kept' /\ trigger' = "Idle" /\ \A s \in Slots : tag'[s] = "Idle"
  <1>1. /\ known' = FALSE /\ isIdle' = FALSE /\ trigger' = "Idle" /\ mounted' = {}
        /\ tag' = [s \in Slots |-> "Idle"]
        /\ shown' = [s \in Slots |-> NoData]
        /\ window' = [s \in Charted |-> NoData]
        /\ painted' = [s \in Charted |-> NoData]
    BY DEF Blank
  <1>2. saved' \in Settings /\ saveFailed' \in BOOLEAN
    BY DEF IInv, Holds, TypeOK, DashboardTypes, storage
  <1>3. DashboardTypes'
    BY <1>1, <1>2 DEF DashboardTypes, Tags, Paintings
  <1>4. WindowsMatch' /\ PendingIsFetching' /\ ChartsShowTheModel'
    BY <1>1 DEF WindowsMatch, PendingIsFetching, Pending, ChartsShowTheModel, Charted
  <1> QED
    BY <1>1, <1>3, <1>4 DEF Kept

LEMMA EnterKeeps ==
  ASSUME IInv, Enter, UNCHANGED storage
  PROVE  Kept'
  <1>1. /\ known' = FALSE /\ isIdle' = FALSE /\ trigger' = "Idle" /\ mounted' = {}
        /\ tag' = [s \in Slots |-> "Loading"]
        /\ shown' = [s \in Slots |-> NoData]
        /\ window' = [s \in Charted |-> NoData]
        /\ painted' = [s \in Charted |-> NoData]
        /\ Fetch(Slots, dateRange, FALSE)
        /\ asking' = asking + 1 /\ asking < MaxAsks
        /\ UNCHANGED <<dateRange, isPaused, theme, testing, storage>>
    BY DEF Enter, Blank
  <1>2. TypeOK /\ dateRange \in Ranges /\ asking \in 0..MaxAsks /\ MaxAsks \in Nat
    BY DashboardAssumption DEF IInv, Holds, TypeOK, DashboardTypes
  <1>3. /\ fetches' \in [Slots -> [Queries -> 0..MaxFetches]]
        /\ \A s \in Slots : \E q \in Queries : fetches'[s][q] > 0
    BY <1>1, <1>2, FetchAdds
  <1>4. asking' \in 0..MaxAsks
    BY <1>1, <1>2
  <1>5. DashboardTypes'
    BY <1>1, <1>2, <1>3, <1>4 DEF TypeOK, DashboardTypes, Tags, Paintings, storage
  <1>6. /\ WindowsMatch' /\ PendingIsFetching' /\ ChartsShowTheModel' /\ SettingsAreSaved'
    BY <1>1, <1>3 DEF IInv, WindowsMatch, PendingIsFetching, Pending, ChartsShowTheModel,
                      SettingsAreSaved, Charted, storage
  <1> QED
    BY <1>5, <1>6 DEF Kept

LEMMA Untouched ==
  ASSUME IInv, UNCHANGED <<dashboard, speedtest, flights, storage>>
  PROVE  Kept'
  BY DEF IInv, Holds, TypeOK, DashboardTypes, Kept, WindowsMatch, SettingsAreSaved,
         PendingIsFetching, ChartsShowTheModel, dashboard, speedtest, flights, storage,
         asyncData, activity, charts

\* The invariant of the whole, from the dashboard's part and the session's.
LEMMA Combine ==
  ASSUME Kept', Stages', EndedSessionsStayEnded',
         stage' \in {"Checking", "LoggedOut"} \cup LoggedIn,
         request' \in {"none", "status", "me", "login"}, stored' \in BOOLEAN, left' \in BOOLEAN
  PROVE  IInv'
  BY DEF Kept, IInv, Holds, TypeOK, LoggedIn

\* Outside a dashboard no response finds anything pending.
LEMMA DroppedKeeps ==
  ASSUME IInv, stage \notin LoggedIn,
         UNCHANGED <<dashboard, storage, auth>>,
         fetches' \in [Slots -> [Queries -> 0..MaxFetches]],
         asking' \in 0..MaxAsks, testing' \in 0..MaxTests
  PROVE  IInv'
  <1>1. UNCHANGED <<dateRange, known, tag, shown, window, isPaused, isIdle, theme, trigger,
                    charts, storage, stage, request, stored, left>>
    BY DEF dashboard, auth, asyncData, activity
  <1>2. trigger' = "Idle" /\ \A s \in Slots : tag'[s] = "Idle"
    BY <1>1 DEF IInv, Holds, Stages
  <1>3. PendingIsFetching'
    BY <1>2 DEF PendingIsFetching, Pending
  <1>4. Kept'
    BY <1>1, <1>3, KeptByFetching DEF IInv, Holds, TypeOK, DashboardTypes
  <1>5. Stages' /\ EndedSessionsStayEnded'
    BY <1>1 DEF IInv, Holds, Stages, EndedSessionsStayEnded
  <1> QED
    BY <1>1, <1>4, <1>5, Combine DEF IInv, Holds, TypeOK

LEMMA NextKeeps == IInv /\ [Next]_vars => IInv'
  <1> SUFFICES ASSUME IInv, [Next]_vars PROVE IInv'
    OBVIOUS
  <1> USE DEF LoggedIn
  <1>1. /\ TypeOK /\ Stages /\ EndedSessionsStayEnded
        /\ stored \in BOOLEAN /\ left \in BOOLEAN
        /\ stage \in {"Checking", "LoggedOut", "Guest", "User"}
        /\ request \in {"none", "status", "me", "login"}
    BY DEF IInv, Holds, TypeOK
  <1>2. /\ fetches \in [Slots -> [Queries -> 0..MaxFetches]]
        /\ asking \in 0..MaxAsks /\ testing \in 0..MaxTests
        /\ MaxFetches \in Nat /\ MaxAsks \in Nat /\ MaxTests \in Nat
        /\ dateRange \in Ranges /\ isPaused \in BOOLEAN /\ theme \in Themes
        /\ saved \in Settings
    BY <1>1, DashboardAssumption DEF TypeOK, DashboardTypes
  <1>3. CASE LoadPage
    <2>1. /\ Blank("Idle")
          /\ dateRange' = saved.dateRange /\ isPaused' = saved.isPaused /\ theme' = saved.theme
          /\ fetches' = [s \in Slots |-> [q \in Queries |-> 0]] /\ asking' = 0 /\ testing' = 0
          /\ stage' = "Checking" /\ request' = "status"
          /\ UNCHANGED <<storage, stored, left>>
      BY <1>3 DEF LoadPage
    <2>2. /\ dateRange' \in Ranges /\ isPaused' \in BOOLEAN /\ theme' \in Themes
          /\ SettingsAreSaved'
      BY <1>2, <2>1 DEF Settings, SettingsAreSaved, storage
    <2>3. /\ fetches' \in [Slots -> [Queries -> 0..MaxFetches]]
          /\ asking' \in 0..MaxAsks /\ testing' \in 0..MaxTests
      BY <1>2, <2>1
    <2>4. Kept' /\ trigger' = "Idle" /\ \A s \in Slots : tag'[s] = "Idle"
      BY <2>1, <2>2, <2>3, BlankKeeps
    <2>5. Stages' /\ EndedSessionsStayEnded'
      BY <1>1, <2>1, <2>4 DEF Stages, EndedSessionsStayEnded
    <2> QED
      BY <1>1, <2>1, <2>4, <2>5, Combine
  <1>4. ASSUME NEW authRequired \in BOOLEAN, SucceededFetchAuthStatus(authRequired) PROVE IInv'
    <2>1. UNCHANGED <<storage, stored, left>> /\ stage = "Checking" /\ request = "status"
      BY <1>1, <1>4 DEF SucceededFetchAuthStatus, Stages
    <2>2. CASE EnterLoggedIn("Guest")
      <3>1. request' = "none" /\ stage' = "Guest" /\ Enter
        BY <2>2 DEF EnterLoggedIn
      <3>2. Kept'
        BY <2>1, <3>1, EnterKeeps
      <3>3. Stages' /\ EndedSessionsStayEnded'
        BY <1>1, <2>1, <3>1 DEF Stages, EndedSessionsStayEnded
      <3> QED
        BY <1>1, <2>1, <3>1, <3>2, <3>3, Combine
    <2>3. CASE /\ UNCHANGED <<dashboard, speedtest, flights>>
               /\ \/ stage' = "LoggedOut" /\ request' = "none"
                  \/ stored /\ request' = "me" /\ UNCHANGED stage
      <3>1. Kept'
        BY <2>1, <2>3, Untouched
      <3>2. UNCHANGED <<tag, trigger>>
        BY <2>3 DEF dashboard, asyncData
      <3>3. Stages' /\ EndedSessionsStayEnded'
        BY <1>1, <2>1, <2>3, <3>2 DEF Stages, EndedSessionsStayEnded
      <3> QED
        BY <1>1, <2>1, <2>3, <3>1, <3>3, Combine
    <2> QED
      BY <1>4, <2>2, <2>3 DEF SucceededFetchAuthStatus
  <1>5. CASE FailedFetchAuthStatus \/ SubmittedLogin \/ FailedLogin
    <2>1. /\ UNCHANGED <<dashboard, speedtest, flights, storage, stored, left>>
          /\ stage \notin LoggedIn
          /\ \/ stage' = "LoggedOut" /\ request' = "none"
             \/ stage' = "LoggedOut" /\ request' = "login"
      BY <1>1, <1>5 DEF FailedFetchAuthStatus, SubmittedLogin, FailedLogin, Stages
    <2>2. Kept'
      BY <2>1, Untouched
    <2>3. UNCHANGED <<tag, trigger>>
      BY <2>1 DEF dashboard, asyncData
    <2>4. Stages' /\ EndedSessionsStayEnded'
      BY <1>1, <2>1, <2>3 DEF Stages, EndedSessionsStayEnded
    <2> QED
      BY <1>1, <2>1, <2>2, <2>4, Combine
  <1>6. CASE SucceededFetchMe \/ SucceededLogin
    <2>1. /\ request' = "none" /\ stage' = "User" /\ Enter
          /\ UNCHANGED storage
      BY <1>6 DEF SucceededFetchMe, SucceededLogin, EnterLoggedIn
    <2>2. Kept'
      BY <2>1, EnterKeeps
    <2>3. left' = FALSE /\ stored' \in BOOLEAN
      BY <1>1, <1>6 DEF SucceededFetchMe, SucceededLogin, SaveSession, Stores, Stages,
                        EndedSessionsStayEnded
    <2>4. Stages' /\ EndedSessionsStayEnded'
      BY <2>1, <2>3 DEF Stages, EndedSessionsStayEnded
    <2> QED
      BY <2>1, <2>2, <2>3, <2>4, Combine
  <1>7. CASE FailedFetchMe
    <2>1. /\ request' = "none" /\ stage' = "LoggedOut" /\ stage = "Checking"
          /\ UNCHANGED <<dashboard, speedtest, flights, storage>>
          /\ stored' \in BOOLEAN /\ left' = ~stored'
      BY <1>1, <1>7 DEF FailedFetchMe, ClearSession, Stores, Stages
    <2>2. Kept'
      BY <2>1, Untouched
    <2>3. UNCHANGED <<tag, trigger>>
      BY <2>1 DEF dashboard, asyncData
    <2>4. Stages' /\ EndedSessionsStayEnded'
      BY <1>1, <2>1, <2>3 DEF Stages, EndedSessionsStayEnded
    <2> QED
      BY <2>1, <2>2, <2>4, Combine
  <1>8. CASE ClickedLogout
    <2>1. /\ stage' = "LoggedOut" /\ request' = "none"
          /\ Blank("Idle")
          /\ UNCHANGED <<dateRange, isPaused, theme, fetches, asking, testing, storage>>
          /\ stored' \in BOOLEAN /\ left' = ~stored'
      BY <1>1, <1>8 DEF ClickedLogout, Leave, ClearSession, Stores, Stages, flights
    <2>2. SettingsAreSaved'
      BY <2>1 DEF IInv, SettingsAreSaved, storage
    <2>3. Kept' /\ trigger' = "Idle" /\ \A s \in Slots : tag'[s] = "Idle"
      BY <1>2, <2>1, <2>2, BlankKeeps
    <2>4. Stages' /\ EndedSessionsStayEnded'
      BY <2>1, <2>3 DEF Stages, EndedSessionsStayEnded
    <2> QED
      BY <2>1, <2>3, <2>4, Combine
  <1>9. CASE GotDashboardMessage
    <2>1. stage \in LoggedIn /\ UNCHANGED <<stage, request, stored, left>>
      BY <1>9 DEF GotDashboardMessage, auth
    <2>2. Kept'
      BY <1>9, UpdateKeeps DEF GotDashboardMessage
    <2>3. Stages' /\ EndedSessionsStayEnded'
      BY <1>1, <2>1 DEF Stages, EndedSessionsStayEnded
    <2> QED
      BY <1>1, <2>1, <2>2, <2>3, Combine
  <1>10. ASSUME NEW s \in Slots, NEW q \in Queries, Dropped(s, q) PROVE IInv'
    <2>1. fetches' \in [Slots -> [Queries -> 0..MaxFetches]]
      BY <1>1, <1>10, AnsweredTakes DEF Dropped
    <2>2. stage \notin LoggedIn /\ UNCHANGED <<dashboard, asking, testing, storage, auth>>
      BY <1>10 DEF Dropped, speedtest
    <2> QED
      BY <1>2, <2>1, <2>2, DroppedKeeps
  <1>11. CASE DroppedOther
    <2>1. /\ stage \notin LoggedIn
          /\ UNCHANGED <<dashboard, fetches, storage, auth>>
          /\ \/ asking > 0 /\ asking' = asking - 1 /\ UNCHANGED testing
             \/ testing > 0 /\ testing' = testing - 1 /\ UNCHANGED asking
      BY <1>11 DEF DroppedOther, AnsweredEarliestData, AnsweredTrigger
    <2>2. asking' \in 0..MaxAsks /\ testing' \in 0..MaxTests
      BY <1>2, <2>1
    <2> QED
      BY <1>2, <2>1, <2>2, DroppedKeeps
  <1>12. CASE UNCHANGED vars
    <2>1. UNCHANGED <<dashboard, speedtest, flights, storage>>
          /\ UNCHANGED <<stage, request, stored, left, tag, trigger>>
      BY <1>12 DEF vars, auth, dashboard, asyncData
    <2>2. Kept'
      BY <2>1, Untouched
    <2>3. Stages' /\ EndedSessionsStayEnded'
      BY <1>1, <2>1 DEF Stages, EndedSessionsStayEnded
    <2> QED
      BY <1>1, <2>1, <2>2, <2>3, Combine
  <1> QED
    BY <1>3, <1>4, <1>5, <1>6, <1>7, <1>8, <1>9, <1>10, <1>11, <1>12 DEF Next

-----------------------------------------------------------------------------
(* The results.                                                            *)

LEMMA InitIInv == Init => IInv
  <1> SUFFICES ASSUME Init PROVE IInv
    OBVIOUS
  <1>1. TypeOK
    <2>1. 0 \in 0..MaxFetches /\ 0 \in 0..MaxAsks /\ 0 \in 0..MaxTests
      BY DashboardAssumption
    <2> QED
      BY <2>1 DEF Init, TypeOK, DashboardTypes, Settings, Tags, Paintings
  <1>2. /\ Stages /\ WindowsMatch /\ PendingIsFetching /\ ChartsShowTheModel
        /\ EndedSessionsStayEnded
    BY DEF Init, Stages, WindowsMatch, PendingIsFetching, Pending, ChartsShowTheModel,
           EndedSessionsStayEnded, LoggedIn, Charted
  <1>3. SettingsAreSaved
    BY DEF Init, SettingsAreSaved, Settings
  <1> QED
    BY <1>1, <1>2, <1>3 DEF IInv, Holds

LEMMA Invariance == Spec => []IInv
  BY InitIInv, NextKeeps, PTL DEF Spec

\* Every reachable state of the page has its types: no response is counted twice.
THEOREM TypeCorrect == Spec => []TypeOK
  <1>1. IInv => TypeOK
    BY DEF IInv, Holds
  <1> QED
    BY <1>1, Invariance, PTL

\* A pending slot, or speed test, of update.ts waits for a request in flight,
\* whatever the number of requests and of earlier dashboards.
THEOREM SpinnersWaitForAnswers == Spec => []PendingIsFetching
  <1>1. IInv => PendingIsFetching
    BY DEF IInv
  <1> QED
    BY <1>1, Invariance, PTL

\* A mounted chart shows the model's rows, in their window and the current theme.
THEOREM ChartsAreCurrent == Spec => []ChartsShowTheModel
  <1>1. IInv => ChartsShowTheModel
    BY DEF IInv
  <1> QED
    BY <1>1, Invariance, PTL

\* A session whose token was cleared does not come back without a login.
THEOREM SessionsStayEnded == Spec => []EndedSessionsStayEnded
  <1>1. IInv => EndedSessionsStayEnded
    BY DEF IInv
  <1> QED
    BY <1>1, Invariance, PTL

\* No step of the session changes the settings that localStorage took.
THEOREM SettingsAreKept == Spec => SettingsSurvive
  <1>1. IInv /\ [Next]_vars =>
          [~saveFailed /\ ~UNCHANGED auth => UNCHANGED <<dateRange, isPaused, theme>>]_vars
    <2> SUFFICES ASSUME IInv, Next, ~saveFailed, ~UNCHANGED auth
                 PROVE  UNCHANGED <<dateRange, isPaused, theme>>
      OBVIOUS
    <2>1. CASE LoadPage
      BY <2>1 DEF LoadPage, IInv, SettingsAreSaved
    <2>2. ASSUME NEW authRequired \in BOOLEAN, SucceededFetchAuthStatus(authRequired)
          PROVE  UNCHANGED <<dateRange, isPaused, theme>>
      BY <2>2 DEF SucceededFetchAuthStatus, EnterLoggedIn, Enter, dashboard, activity
    <2>3. CASE FailedFetchAuthStatus \/ SubmittedLogin \/ FailedLogin \/ FailedFetchMe
      BY <2>3 DEF FailedFetchAuthStatus, SubmittedLogin, FailedLogin, FailedFetchMe, dashboard,
                  activity
    <2>4. CASE SucceededFetchMe \/ SucceededLogin
      BY <2>4 DEF SucceededFetchMe, SucceededLogin, EnterLoggedIn, Enter
    <2>5. CASE ClickedLogout
      BY <2>5 DEF ClickedLogout, Leave
    <2>6. CASE GotDashboardMessage
      BY <2>6 DEF GotDashboardMessage
    <2>7. ASSUME DroppedOther \/ \E s \in Slots, q \in Queries : Dropped(s, q)
          PROVE  UNCHANGED auth
      BY <2>7 DEF DroppedOther, Dropped
    <2> QED
      BY <2>1, <2>2, <2>3, <2>4, <2>5, <2>6, <2>7 DEF Next
  <1> QED
    BY <1>1, Invariance, PTL DEF Spec, SettingsSurvive
=============================================================================
