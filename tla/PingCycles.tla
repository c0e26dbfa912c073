----------------------------- MODULE PingCycles -----------------------------
(***************************************************************************)
(* The ping half of the monitor, from the schedule to the rows a reader    *)
(* sees: network-monitor.ts repeats cycles, ping-executor.ts pings every   *)
(* host of a cycle at once and writes one row per host, service.ts hands   *)
(* the row to the ILP sender of the current connection, and the sender     *)
(* (@questdb/nodejs-client, outside the repository) buffers it until its   *)
(* auto-flush sends it, and again where retry_timeout lets it.  POST       *)
(* /ping/trigger runs further cycles beside the scheduled ones.  The live  *)
(* indicator (connectivity-status.ts, queries.ts) classifies the newest    *)
(* second that has rows.                                                   *)
(*                                                                         *)
(* The list of a cycle's hosts may name a host twice (PING_HOSTS, or the   *)
(* array of POST /ping/trigger), and every entry of it is pinged: a row    *)
(* belongs to an entry.                                                    *)
(*                                                                         *)
(* Time is taken in whole units of `clock`, the grid of SAMPLE BY 1s.      *)
(***************************************************************************)

EXTENDS Naturals, FiniteSets, RowCopies

CONSTANTS
  Entries,        \* the entries of lists of hosts, whichever hosts they name
  Configured,     \* those of config.ping.hosts
  Monitor,        \* the fiber of the scheduled cycles
  Triggers,       \* the fibers of POST /ping/trigger at once
  PingInterval,   \* config.ping.intervalSeconds
  PingDeadline,   \* the longest a ping train takes
  LiveWindowMin,  \* LIVE_WINDOW_MIN_SECONDS
  Retries,        \* how often retry_timeout lets a request that stored its rows be sent again
  LastSecond,     \* bound: the clock stops here
  LastCycle,      \* bound: cycles are numbered up to here
  LastFailure,    \* bound: closed connections and failed requests
  Outcomes        \* how pings settle here

\* A ping settles reachable under the loss floor, reachable but lossy, or with
\* an error (a host that is not alive is one: pingWithConfig throws).
ASSUME PingAssumption ==
  /\ Outcomes \subseteq {"clean", "lossy", "failed"}
  /\ IsFiniteSet(Entries)
  /\ Configured \subseteq Entries
  /\ Monitor \notin Triggers
  /\ PingInterval \in Nat \ {0}
  /\ PingDeadline \in Nat
  /\ LiveWindowMin \in Nat
  /\ Retries \in Nat
  /\ LastSecond \in Nat
  /\ LastCycle \in Nat
  /\ LastFailure \in Nat

VARIABLES
  clock,            \* the time, in seconds
  begun,            \* cycles begun so far
  cycle,            \* the number of each fiber's cycle, 0 when it runs none
  stamp,            \* cycleTimestamp of each fiber's cycle
  waiting,          \* the entries of the cycle whose ping has not settled
  succeeded,        \* the entries of the cycle with {success: true}
  failed,           \* the entries of the cycle with {success: false}
  initial,          \* whether start() still runs its own first cycle
  nextPing,         \* when the schedule lets the next scheduled cycle begin
  successfulPings,  \* statsRef.successfulPings
  failedPings,      \* statsRef.failedPings
  lastPingTime,     \* statsRef.lastPingTime
  connected,        \* whether getConnection succeeds
  closing,          \* whether the connection it returns is being closed
  failures,         \* failures so far
  pending,          \* rows in the sender's buffer
  sending,          \* the senders' requests on their way, each the set of its rows
  lastFlush,        \* when the sender last sent its buffer
  table,            \* network_metrics, which keeps every copy of a row
  settled,          \* every ping that settled, with its outcome (history)
  accepted,         \* the rows this process's senders accepted (history)
  earlier           \* the cycles begun by earlier processes (history)

fibers == <<cycle, stamp, waiting, succeeded, failed>>
schedule == <<initial, nextPing>>
stats == <<successfulPings, failedPings, lastPingTime>>
sender == <<pending, sending, lastFlush>>
link == <<connected, closing, failures>>
history == <<settled, accepted, earlier>>
vars == <<clock, begun, fibers, schedule, stats, link, sender, table, history>>

Fibers == Triggers \cup {Monitor}

Rows == [cycle : 1..LastCycle, by : Fibers, at : 0..LastSecond, entry : Entries, outcome : Outcomes]

TypeOK ==
  /\ clock \in 0..LastSecond
  /\ begun \in 0..LastCycle
  /\ cycle \in [Fibers -> 0..LastCycle]
  /\ stamp \in [Fibers -> 0..LastSecond]
  /\ waiting \in [Fibers -> SUBSET Entries]
  /\ succeeded \in [Fibers -> SUBSET Entries]
  /\ failed \in [Fibers -> SUBSET Entries]
  /\ initial \in BOOLEAN
  /\ nextPing \in Nat
  /\ successfulPings \in Nat
  /\ failedPings \in Nat
  /\ lastPingTime \in 0..LastSecond
  /\ connected \in BOOLEAN
  /\ closing \in BOOLEAN
  /\ failures \in 0..LastFailure
  /\ pending \subseteq Rows
  /\ sending \subseteq SUBSET Rows
  /\ lastFlush \in 0..LastSecond
  /\ DOMAIN table \subseteq Rows
  /\ table \in [DOMAIN table -> Nat \ {0}]
  /\ settled \subseteq Rows
  /\ accepted \subseteq Rows
  /\ earlier \in 0..LastCycle

Init ==
  /\ clock = 0
  /\ begun = 0
  /\ table = [row \in {} |-> 0]
  /\ settled = {}
  /\ cycle = [r \in Fibers |-> 0]
  /\ stamp = [r \in Fibers |-> 0]
  /\ waiting = [r \in Fibers |-> {}]
  /\ succeeded = [r \in Fibers |-> {}]
  /\ failed = [r \in Fibers |-> {}]
  /\ initial = TRUE
  /\ nextPing = 0
  /\ successfulPings = 0
  /\ failedPings = 0
  /\ lastPingTime = 0
  /\ connected = FALSE
  /\ closing = FALSE
  /\ failures = 0
  /\ pending = {}
  /\ sending = {}
  /\ lastFlush = 0
  /\ accepted = {}
  /\ earlier = 0

-----------------------------------------------------------------------------
(* Cycles.                                                                 *)

\* executeHosts: one timestamp for the cycle, then every entry at once.
Begin(r, entries) ==
  /\ cycle[r] = 0
  /\ begun < LastCycle
  /\ begun' = begun + 1
  /\ cycle' = [cycle EXCEPT ![r] = begun + 1]
  /\ stamp' = [stamp EXCEPT ![r] = clock]
  /\ waiting' = [waiting EXCEPT ![r] = entries]
  /\ succeeded' = [succeeded EXCEPT ![r] = {}]
  /\ failed' = [failed EXCEPT ![r] = {}]

BeginScheduled ==
  /\ clock >= nextPing
  /\ Begin(Monitor, Configured)
  /\ UNCHANGED <<clock, schedule, stats, link, sender, table, history>>

\* POST /ping/trigger, with a list of its own, of any hosts, or the configured one.
Trigger(t) ==
  /\ \E entries \in SUBSET Entries : Begin(t, entries)
  /\ UNCHANGED <<clock, schedule, stats, link, sender, table, history>>

\* Mutant: the row is stamped when its ping settles.
RowStampedLate(r, e, o) ==
  [cycle |-> cycle[r], by |-> r, at |-> clock, entry |-> e, outcome |-> o]

\* The row of an entry in r's cycle: the cycle's timestamp, not the ping's.
Row(r, e, o) ==
  [cycle |-> cycle[r], by |-> r, at |-> stamp[r], entry |-> e, outcome |-> o]

\* Mutant: only a full buffer is sent.
AppendUntimed(row) ==
  /\ pending' = pending \cup {row}
  /\ UNCHANGED <<sending, lastFlush>>

\* sender.at: the row joins the buffer, which is sent as a whole if the last
\* time it was is auto_flush_interval (a second, not aligned to the clock) ago.
\* A buffer of auto_flush_rows rows is larger than what this instance holds.
Append(row) ==
  \/ /\ clock > lastFlush
     /\ sending' = sending \cup {pending \cup {row}}
     /\ pending' = {}
     /\ lastFlush' = clock
  \/ /\ clock <= lastFlush + 1
     /\ pending' = pending \cup {row}
     /\ UNCHANGED <<sending, lastFlush>>

\* Mutant: success says that a row was written.
PingSettlesAsWritten(r, e, o) ==
  /\ e \in waiting[r]
  /\ waiting' = [waiting EXCEPT ![r] = @ \ {e}]
  /\ settled' = settled \cup {Row(r, e, o)}
  /\ IF connected
       THEN /\ Append(Row(r, e, o))
            /\ accepted' = accepted \cup {Row(r, e, o)}
            /\ succeeded' = [succeeded EXCEPT ![r] = @ \cup {e}]
            /\ UNCHANGED failed
       ELSE /\ failed' = [failed EXCEPT ![r] = @ \cup {e}]
            /\ UNCHANGED <<succeeded, sender, accepted>>
  /\ UNCHANGED <<clock, begun, cycle, stamp, schedule, stats, link, table, earlier>>

\* executePingAt: the ping settles and its row is written, whatever the outcome.
\* Success means a reachable host and an accepted row; without a connection
\* nothing is written and nothing is retried.
PingSettles(r, e, o) ==
  /\ e \in waiting[r]
  /\ waiting' = [waiting EXCEPT ![r] = @ \ {e}]
  /\ settled' = settled \cup {Row(r, e, o)}
  /\ IF connected
       THEN /\ Append(Row(r, e, o))
            /\ accepted' = accepted \cup {Row(r, e, o)}
       ELSE UNCHANGED <<sender, accepted>>
  /\ IF connected /\ o # "failed"
       THEN /\ succeeded' = [succeeded EXCEPT ![r] = @ \cup {e}]
            /\ UNCHANGED failed
       ELSE /\ failed' = [failed EXCEPT ![r] = @ \cup {e}]
            /\ UNCHANGED succeeded
  /\ UNCHANGED <<clock, begun, cycle, stamp, schedule, stats, link, table, earlier>>

\* The cycle is over, and with it its results.
Forget(r) ==
  /\ cycle' = [cycle EXCEPT ![r] = 0]
  /\ stamp' = [stamp EXCEPT ![r] = 0]
  /\ waiting' = [waiting EXCEPT ![r] = {}]
  /\ succeeded' = [succeeded EXCEPT ![r] = {}]
  /\ failed' = [failed EXCEPT ![r] = {}]

\* Mutant: lastPingTime says when the next cycle is due.
ScheduledCycleEndsAhead ==
  /\ cycle[Monitor] # 0
  /\ waiting[Monitor] = {}
  /\ Forget(Monitor)
  /\ successfulPings' = successfulPings + Cardinality(succeeded[Monitor])
  /\ failedPings' = failedPings + Cardinality(failed[Monitor])
  /\ initial' = FALSE
  /\ nextPing' = IF initial THEN clock ELSE clock + PingInterval
  /\ lastPingTime' = nextPing'
  /\ UNCHANGED <<clock, begun, link, sender, table, history>>

\* Every ping of the scheduled cycle settled: its results are counted.  The
\* cycle of start() is followed at once by the first of the repeated ones.
ScheduledCycleEnds ==
  /\ cycle[Monitor] # 0
  /\ waiting[Monitor] = {}
  /\ Forget(Monitor)
  /\ successfulPings' = successfulPings + Cardinality(succeeded[Monitor])
  /\ failedPings' = failedPings + Cardinality(failed[Monitor])
  /\ lastPingTime' = stamp[Monitor]
  /\ initial' = FALSE
  /\ nextPing' = IF initial THEN clock ELSE clock + PingInterval
  /\ UNCHANGED <<clock, begun, link, sender, table, history>>

\* The handler answers, or its client is gone and its pings are forgotten.
TriggerEnds(t) ==
  /\ cycle[t] # 0
  /\ Forget(t)
  /\ UNCHANGED <<clock, begun, schedule, stats, link, sender, table, history>>

-----------------------------------------------------------------------------
(* The connection and its sender.                                          *)

\* What QuestDBConnection makes of the connection, as a writer sees it.
Link == INSTANCE ConnectionLink

\* The table with n more copies of rows.
Stored(rows, n) == Inserted(table, rows, n)

\* A request of the sender's ended well: its rows can be read.
SendSucceeds(request) ==
  /\ table' = Stored(request, 1)
  /\ sending' = sending \ {request}
  /\ UNCHANGED <<clock, begun, fibers, schedule, stats, link, pending, lastFlush, history>>

\* A request stored its rows, but its answer was lost or an error: the sender
\* sends it again, for retry_timeout.
AnswerIsLost(request) ==
  /\ \A x \in request : Copies(x, table) < Retries
  /\ table' = Stored(request, 1)
  /\ UNCHANGED <<clock, begun, fibers, schedule, stats, link, sender, history>>

\* The connection service publishes a new connection with an empty buffer.  The
\* sender counts from its construction, earlier in the attempt to connect.
Connect ==
  /\ Link!Connect
  /\ lastFlush' \in 0..clock
  /\ UNCHANGED <<clock, begun, fibers, schedule, stats, failures, pending, sending, table,
                 history>>

\* Mutant: the buffer is kept after the last flush.
CloseConnectionKeepingRows ==
  /\ Link!Close
  /\ failures < LastFailure
  /\ failures' = failures + 1
  /\ \E n \in 0..Retries + 1 : table' = Stored(pending, n)
  /\ UNCHANGED <<clock, begun, fibers, schedule, stats, sender, history>>

\* The connection is being closed: its last flush, which is tried as often as any
\* request, works, or its error is ignored.  Until the Ref is set, getConnection
\* still returns it.
CloseConnection ==
  /\ Link!Close
  /\ failures < LastFailure
  /\ failures' = failures + 1
  /\ pending' = {}
  /\ \E n \in 0..Retries + 1 : table' = Stored(pending, n)
  /\ UNCHANGED <<clock, begun, fibers, schedule, stats, sending, lastFlush, history>>

\* The Ref is set: what was written since the last flush is gone.  The late end of
\* closing an earlier connection sets it too, which drops one that nobody closes.
Disconnect ==
  /\ Link!Drop
  /\ closing \/ failures < LastFailure
  /\ failures' = IF closing THEN failures ELSE failures + 1
  /\ pending' = {}
  /\ UNCHANGED <<clock, begun, fibers, schedule, stats, sending, lastFlush, table, history>>

\* A request fails for good.  Nobody awaits the promise of row.at, so its rejection
\* ends the process, with all its requests, stored or not, and supervisord starts
\* another one.
SendFails ==
  /\ sending # {}
  /\ failures < LastFailure
  /\ failures' = failures + 1
  /\ \E stored \in SUBSET sending : table' = Stored(UNION stored, 1)
  /\ earlier' = begun
  /\ UNCHANGED <<clock, begun, settled>>
  /\ cycle' = [r \in Fibers |-> 0]
  /\ stamp' = [r \in Fibers |-> 0]
  /\ waiting' = [r \in Fibers |-> {}]
  /\ succeeded' = [r \in Fibers |-> {}]
  /\ failed' = [r \in Fibers |-> {}]
  /\ initial' = TRUE
  /\ nextPing' = clock
  /\ successfulPings' = 0
  /\ failedPings' = 0
  /\ lastPingTime' = 0
  /\ connected' = FALSE
  /\ closing' = FALSE
  /\ pending' = {}
  /\ sending' = {}
  /\ lastFlush' = clock
  /\ accepted' = {}

\* Time passes, but not past a ping's deadline, nor past a cycle that is due.
Tick ==
  /\ clock < LastSecond
  /\ \A r \in Fibers : waiting[r] # {} => clock < stamp[r] + PingDeadline
  /\ cycle[Monitor] # 0 => waiting[Monitor] # {}
  /\ cycle[Monitor] = 0 => clock < nextPing
  /\ clock' = clock + 1
  /\ UNCHANGED <<begun, fibers, schedule, stats, link, sender, table, history>>

-----------------------------------------------------------------------------
FiberStep(r) == \E e \in Entries, o \in Outcomes : PingSettles(r, e, o)

SenderStep == \E request \in sending : SendSucceeds(request) \/ AnswerIsLost(request)

Next ==
  \/ BeginScheduled \/ ScheduledCycleEnds
  \/ \E t \in Triggers : Trigger(t) \/ TriggerEnds(t)
  \/ \E r \in Fibers : FiberStep(r)
  \/ SenderStep \/ SendFails
  \/ Connect \/ CloseConnection \/ Disconnect
  \/ Tick

Spec == Init /\ [][Next]_vars

-----------------------------------------------------------------------------
(* What the live indicator reads.                                          *)

\* Mutant: one interval of slack.
LiveWindowOfOneInterval == IF PingInterval > LiveWindowMin THEN PingInterval ELSE LiveWindowMin

\* liveConnectivityWindowSeconds.
LiveWindow == IF 2 * PingInterval > LiveWindowMin THEN 2 * PingInterval ELSE LiveWindowMin

\* CYCLE_STATUS_CASE over the rows of one second: all down, or any that is not
\* clean, however many copies there are of a row.
CycleStatus(rows) ==
  IF \A x \in rows : x.outcome = "failed" THEN "down"
  ELSE IF \E x \in rows : x.outcome # "clean" THEN "degraded"
  ELSE "up"

\* The rows of the newest second that has any.
Newest == {x \in DOMAIN table : \A y \in DOMAIN table : y.at <= x.at}

\* getLiveConnectivityHandler.
LiveStatus ==
  IF \E x \in Newest : x.at + LiveWindow >= clock THEN CycleStatus(Newest) ELSE "noInfo"

-----------------------------------------------------------------------------
(* Safety.                                                                 *)

InFlight == UNION sending

\* Whatever becomes of the sender, the rows in the buffer, on their way and in the
\* table tell the truth about a ping that settled; no cycle has two rows for an
\* entry of its list, and all rows of a cycle carry one timestamp (so that a query
\* can find a cycle's rows by it).  A row has no copy but those of a request that
\* was sent again: none while it is in the buffer, at most one for each retry
\* while it is on its way, and one more in the end.
OneRowButForRetries ==
  LET rows == pending \cup InFlight \cup DOMAIN table IN
    /\ rows \subseteq settled
    /\ \A x, y \in rows : x.cycle = y.cycle => x.at = y.at /\ (x.entry = y.entry => x = y)
    /\ \A x \in rows :
         Copies(x, table) <= IF x \in pending THEN 0
                             ELSE IF x \in InFlight THEN Retries ELSE Retries + 1
    /\ pending \cap InFlight = {}

\* Rows are delivered as RowDelivery says: whatever the sender, its connection and
\* the process go through, a row is written twice only by a request that was sent
\* again, and none that failed to be written or was done with comes back.
Delivery == INSTANCE RowDelivery WITH
  offered <- settled, buffered <- pending, underway <- InFlight, delivered <- table

DeliversRows == Delivery!Spec

\* The statistics count the scheduled cycles that ended in this process, entry by
\* entry: a success is a reachable host whose row a sender took, everything else a
\* failure, a row that nobody could write among them.  Neither a triggered cycle
\* nor one still running counts.
StatsCountAcceptedRows ==
  LET ended == {x \in settled : x.by = Monitor /\ x.cycle > earlier /\ x.cycle # cycle[Monitor]}
      successes == {x \in ended \cap accepted : x.outcome # "failed"}
  IN  /\ successfulPings = Cardinality(successes)
      /\ failedPings = Cardinality(ended \ successes)

\* An accepted row is not left in the buffer: a later scheduled cycle writes to
\* the sender and takes it along.  The row waits for its own train, an interval,
\* the train after it, and the second in which the sender may hold rows back.
BufferedForOneInterval ==
  \A x \in pending : clock <= x.at + PingInterval + 2 * PingDeadline + 1

\* The scheduled cycles younger than any a reader sees.
Unseen ==
  {n \in {cycle[Monitor]} \cup {x.cycle : x \in {y \in settled : y.by = Monitor}} :
     \A x \in DOMAIN table : n > x.cycle}

\* As long as no scheduled cycle ended without a visible row since the newest
\* visible one, the live indicator of a running process has data: its window
\* covers the interval between two cycles and both their ping trains.
FreshWhileKeepingUp ==
  Newest \cap accepted # {} /\ Unseen \subseteq {cycle[Monitor]} => LiveStatus # "noInfo"

-----------------------------------------------------------------------------
(* What the documentation says, and the code does not keep.                *)

\* README.md:159: "down" says that every host of the cycle was unreachable, so
\* none of them answered and had its row accepted.
LiveDownMeansAllDown ==
  LiveStatus = "down" =>
    \A x \in accepted, y \in Newest : x.at = y.at => x.outcome = "failed"

\* constants.ts:49: one dropped cycle does not turn the indicator to "no data".
OneDroppedCycleIsCovered ==
  Newest \cap accepted # {} /\ Cardinality(Unseen \ {cycle[Monitor]}) <= 1 =>
    LiveStatus # "noInfo"

=============================================================================
