-------------------------- MODULE PingCyclesProofs --------------------------
(***************************************************************************)
(* Safety of PingCycles for any lists of hosts, any triggers and any       *)
(* bounds.                                                                 *)
(*                                                                         *)
(* That the rows of a ping are copies of one is not inductive: it takes    *)
(* the history of the pings (Pings), of which each fiber's cycle and the   *)
(* sender's buffers are parts, and how often what is not in the table for  *)
(* good is there already (Buffers).  The statistics take in addition that  *)
(* the results of the cycle that runs are the entries of its rows (Tally). *)
(* How long a row stays in the buffer follows from when the monitor's next *)
(* ping settles, counted from the last flush (Pace), and how old what the  *)
(* indicator sees may be from the order of the timestamps and the last     *)
(* scheduled cycle that ended (Order, Recent).                             *)
(***************************************************************************)
EXTENDS PingCycles, FiniteSetTheorems, TLAPS

\* A cycle has one fiber and one timestamp, and a ping that settled is not
\* waited for: no cycle settles the ping of an entry twice.
Pings ==
  /\ \A r \in Fibers : waiting[r] # {} => cycle[r] # 0
  /\ \A r \in Fibers : cycle[r] <= begun
  /\ \A r, s \in Fibers : cycle[r] # 0 /\ cycle[r] = cycle[s] => r = s
  /\ \A x \in settled : x.cycle <= begun
  /\ \A x \in settled, r \in Fibers :
       x.cycle = cycle[r] => x.by = r /\ x.at = stamp[r] /\ x.entry \notin waiting[r]
  /\ \A x, y \in settled :
       x.cycle = y.cycle => x.at = y.at /\ (x.entry = y.entry => x = y)

\* A row is buffered, belongs to one request that is on its way, or is done with,
\* and has at most the copies that its request may leave.
Buffers ==
  /\ pending \cup InFlight \cup DOMAIN table \subseteq settled
  /\ pending \cap InFlight = {}
  /\ \A p, q \in sending : p # q => p \cap q = {}
  /\ \A x \in pending : Copies(x, table) = 0
  /\ \A x \in InFlight : Copies(x, table) <= Retries
  /\ \A x \in settled : Copies(x, table) <= Retries + 1

\* The pings of the scheduled cycles that ended in this process, and of the one
\* that runs; the reachable ones whose row was accepted.
Ended == {x \in settled : x.by = Monitor /\ x.cycle > earlier /\ x.cycle # cycle[Monitor]}

Running == {x \in settled : x.by = Monitor /\ x.cycle = cycle[Monitor]}

Reached == {x \in accepted : x.outcome # "failed"}

Tally ==
  /\ IsFiniteSet(settled)
  /\ accepted \subseteq settled
  /\ earlier <= begun
  /\ cycle[Monitor] # 0 => cycle[Monitor] > earlier
  /\ succeeded[Monitor] = {x.entry : x \in Running \cap Reached}
  /\ failed[Monitor] = {x.entry : x \in Running \ Reached}
  /\ successfulPings = Cardinality(Ended \cap Reached)
  /\ failedPings = Cardinality(Ended \ Reached)

\* The clock waits for trains and for cycles that are due.
Clockwork ==
  /\ lastFlush <= clock
  /\ \A r \in Fibers : stamp[r] <= clock
  /\ \A r \in Fibers : waiting[r] # {} => clock <= stamp[r] + PingDeadline
  /\ cycle[Monitor] # 0 => clock <= stamp[Monitor] + PingDeadline
  /\ cycle[Monitor] = 0 => clock <= nextPing /\ nextPing <= clock + PingInterval

\* As long as rows are in the buffer, and if any hosts are configured, the next
\* scheduled cycle is due within an interval of the second after the last flush: the
\* first of its pings to settle later than that second takes the buffer along.
Pace ==
  Configured # {} /\ pending # {} =>
    /\ connected
    /\ \A x \in pending : lastFlush <= x.at + PingDeadline
    /\ IF cycle[Monitor] = 0
         THEN nextPing <= lastFlush + 1 + PingInterval
         ELSE /\ stamp[Monitor] <= lastFlush + 1 + PingInterval
              /\ waiting[Monitor] = {} => clock <= lastFlush + 1

Holds == TypeOK /\ Pings

\* Later cycles have later timestamps.
Order ==
  /\ \A x, y \in settled : x.cycle <= y.cycle => x.at <= y.at
  /\ \A x \in settled : x.at <= clock
  /\ \A x \in settled, r \in Fibers :
       cycle[r] # 0 => /\ x.cycle <= cycle[r] => x.at <= stamp[r]
                       /\ cycle[r] <= x.cycle => stamp[r] <= x.at
  /\ \A r, s \in Fibers :
       cycle[r] # 0 /\ cycle[s] # 0 /\ cycle[r] <= cycle[s] => stamp[r] <= stamp[s]

\* While start() runs its own first cycle, nothing of this process is older than
\* the cycle.  Later a scheduled cycle has ended, and the next is due within an
\* interval of its train.
Recent ==
  Configured # {} =>
    /\ cycle[Monitor] # 0 /\ waiting[Monitor] # Configured =>
         \E x \in settled : x.by = Monitor /\ x.cycle = cycle[Monitor]
    /\ initial =>
         /\ \A x \in accepted : nextPing <= x.at
         /\ nextPing <= clock
         /\ \A r \in Fibers : cycle[r] # 0 => nextPing <= stamp[r]
         /\ clock <= nextPing + PingDeadline
         /\ cycle[Monitor] # 0 => stamp[Monitor] = nextPing
    /\ ~initial =>
         \E x \in settled :
           /\ x.by = Monitor
           /\ x.cycle # cycle[Monitor]
           /\ IF cycle[Monitor] = 0
                THEN nextPing <= x.at + PingDeadline + PingInterval
                ELSE stamp[Monitor] <= x.at + PingDeadline + PingInterval

IInv == Holds /\ Buffers /\ Tally /\ Clockwork /\ Pace /\ Order /\ Recent

-----------------------------------------------------------------------------
(* Rows.                                                                   *)

LEMMA RowType ==
  ASSUME TypeOK, Pings, NEW r \in Fibers, NEW e \in Entries, NEW o \in Outcomes, e \in waiting[r]
  PROVE  Row(r, e, o) \in Rows
  BY PingAssumption DEF TypeOK, Pings, Row, Rows

LEMMA RowFields ==
  ASSUME NEW r, NEW e, NEW o
  PROVE  /\ Row(r, e, o).cycle = cycle[r]
         /\ Row(r, e, o).by = r
         /\ Row(r, e, o).at = stamp[r]
         /\ Row(r, e, o).entry = e
         /\ Row(r, e, o).outcome = o
  BY DEF Row

\* The row of a ping that settles is new.
LEMMA RowIsNew ==
  ASSUME Pings, NEW r \in Fibers, NEW e \in Entries, NEW o \in Outcomes, e \in waiting[r]
  PROVE  /\ Row(r, e, o) \notin settled
         /\ \A x \in settled : x.cycle = cycle[r] => x.at = stamp[r] /\ x.entry # e
  BY RowFields DEF Pings

LEMMA AppendType ==
  ASSUME TypeOK, NEW row \in Rows, Append(row)
  PROVE  /\ pending' \subseteq Rows
         /\ sending' \subseteq SUBSET Rows
         /\ lastFlush' \in 0..LastSecond
  BY DEF TypeOK, Append

\* Inserting rows adds to their copies and to no others'.
LEMMA InsertedCopies ==
  ASSUME NEW rowsOf, rowsOf \in [DOMAIN rowsOf -> Nat \ {0}], NEW rows, NEW n \in Nat
  PROVE  /\ DOMAIN Inserted(rowsOf, rows, n) \subseteq DOMAIN rowsOf \cup rows
         /\ Inserted(rowsOf, rows, n) \in [DOMAIN Inserted(rowsOf, rows, n) -> Nat \ {0}]
         /\ \A x : Copies(x, rowsOf) \in Nat
         /\ \A x : Copies(x, Inserted(rowsOf, rows, n)) =
                     Copies(x, rowsOf) + (IF x \in rows THEN n ELSE 0)
  BY DEF Inserted, Copies

\* A train's results are a finite set: they can be counted.
LEMMA ResultsAreFinite ==
  ASSUME TypeOK, NEW r \in Fibers
  PROVE  /\ IsFiniteSet(succeeded[r]) /\ Cardinality(succeeded[r]) \in Nat
         /\ IsFiniteSet(failed[r]) /\ Cardinality(failed[r]) \in Nat
  <1>1. succeeded[r] \in SUBSET Entries /\ failed[r] \in SUBSET Entries
    BY DEF TypeOK
  <1>2. IsFiniteSet(succeeded[r]) /\ IsFiniteSet(failed[r])
    BY <1>1, FS_Subset, PingAssumption
  <1> QED
    BY <1>2, FS_CardinalityType

-----------------------------------------------------------------------------
(* The types, and the history of the pings.                                *)

LEMMA InitHolds == Init => Holds
  <1> SUFFICES ASSUME Init PROVE Holds
    OBVIOUS
  <1>1. TypeOK
    <2>1. clock = 0 /\ 0 \in 0..LastSecond /\ 0 \in 0..LastCycle /\ 0 \in 0..LastFailure
      BY PingAssumption DEF Init
    <2> QED
      BY <2>1 DEF Init, TypeOK
  <1>2. Pings
    BY DEF Init, Pings
  <1> QED
    BY <1>1, <1>2 DEF Holds

LEMMA StoredType ==
  ASSUME TypeOK, NEW rows \in SUBSET Rows, NEW n \in Nat, table' = Stored(rows, n)
  PROVE  DOMAIN table' \subseteq Rows /\ table' \in [DOMAIN table' -> Nat \ {0}]
  BY InsertedCopies DEF TypeOK, Stored

LEMMA TypeStep == Holds /\ [Next]_vars => TypeOK'
  <1> SUFFICES ASSUME TypeOK, Pings, [Next]_vars PROVE TypeOK'
    BY DEF Holds
  <1> USE PingAssumption
  <1>1. CASE BeginScheduled
    BY <1>1 DEF TypeOK, BeginScheduled, Begin, schedule, stats, link, sender, history, Fibers
  <1>2. ASSUME NEW t \in Triggers, Trigger(t) PROVE TypeOK'
    BY <1>2 DEF TypeOK, Trigger, Begin, schedule, stats, link, sender, history, Fibers
  <1>3. ASSUME NEW r \in Fibers, NEW e \in Entries, NEW o \in Outcomes, PingSettles(r, e, o)
        PROVE TypeOK'
    <2>1. e \in waiting[r] /\ Row(r, e, o) \in Rows
      BY <1>3, RowType DEF PingSettles
    <2>2. /\ pending' \subseteq Rows
          /\ sending' \subseteq SUBSET Rows
          /\ lastFlush' \in 0..LastSecond
          /\ accepted' \subseteq Rows
      <3>1. CASE connected
        BY <1>3, <2>1, <3>1, AppendType DEF PingSettles, TypeOK
      <3>2. CASE ~connected
        BY <1>3, <3>2 DEF PingSettles, TypeOK, sender
      <3> QED
        BY <3>1, <3>2
    <2>3. /\ succeeded' \in [Fibers -> SUBSET Entries]
          /\ failed' \in [Fibers -> SUBSET Entries]
          /\ waiting' \in [Fibers -> SUBSET Entries]
          /\ settled' \subseteq Rows
      BY <1>3, <2>1 DEF PingSettles, TypeOK
    <2> QED
      BY <1>3, <2>2, <2>3 DEF PingSettles, TypeOK, schedule, stats, link
  <1>4. CASE ScheduledCycleEnds
    <2>1. Monitor \in Fibers
      BY DEF Fibers
    <2>2. successfulPings' \in Nat /\ failedPings' \in Nat
      BY <1>4, <2>1, ResultsAreFinite DEF ScheduledCycleEnds, TypeOK
    <2> QED
      <3>1. Forget(Monitor) /\ UNCHANGED <<clock, begun, link, sender, table, history>>
        BY <1>4 DEF ScheduledCycleEnds
      <3>2. lastPingTime' = stamp[Monitor] /\ initial' = FALSE
        BY <1>4 DEF ScheduledCycleEnds
      <3>3. nextPing' \in Nat
        BY <1>4 DEF ScheduledCycleEnds, TypeOK
      <3>4. /\ cycle' \in [Fibers -> 0..LastCycle]
            /\ stamp' \in [Fibers -> 0..LastSecond]
            /\ waiting' \in [Fibers -> SUBSET Entries]
            /\ succeeded' \in [Fibers -> SUBSET Entries]
            /\ failed' \in [Fibers -> SUBSET Entries]
        BY <3>1, <2>1 DEF Forget, TypeOK
      <3> QED
        BY <2>1, <2>2, <3>1, <3>2, <3>3, <3>4 DEF TypeOK, link, sender, history
  <1>5. ASSUME NEW t \in Triggers, TriggerEnds(t) PROVE TypeOK'
    BY <1>5 DEF TypeOK, TriggerEnds, Forget, schedule, stats, link, sender, history, Fibers
  <1>6. ASSUME NEW request \in sending, SendSucceeds(request) \/ AnswerIsLost(request)
        PROVE  TypeOK'
    <2>1. request \subseteq Rows
      BY DEF TypeOK
    <2>2. DOMAIN table' \subseteq Rows /\ table' \in [DOMAIN table' -> Nat \ {0}]
      BY <1>6, <2>1, StoredType DEF SendSucceeds, AnswerIsLost
    <2>3. sending' \subseteq SUBSET Rows /\ UNCHANGED <<pending, lastFlush>>
      BY <1>6 DEF SendSucceeds, AnswerIsLost, TypeOK, sender
    <2>4. UNCHANGED <<clock, begun, fibers, schedule, stats, link, history>>
      BY <1>6 DEF SendSucceeds, AnswerIsLost
    <2> QED
      BY <2>2, <2>3, <2>4 DEF TypeOK, fibers, schedule, stats, link, history
  <1>7. CASE SendFails
    <2>1. 0 \in 0..LastCycle /\ 0 \in 0..LastSecond /\ clock \in Nat
      BY DEF TypeOK
    <2>2. /\ cycle' \in [Fibers -> 0..LastCycle]
          /\ stamp' \in [Fibers -> 0..LastSecond]
          /\ waiting' \in [Fibers -> SUBSET Entries]
          /\ succeeded' \in [Fibers -> SUBSET Entries]
          /\ failed' \in [Fibers -> SUBSET Entries]
      BY <1>7, <2>1 DEF SendFails
    <2>3. failures' \in 0..LastFailure
      BY <1>7 DEF SendFails, TypeOK
    <2>4. DOMAIN table' \subseteq Rows /\ table' \in [DOMAIN table' -> Nat \ {0}]
      <3>1. PICK stored \in SUBSET sending : table' = Stored(UNION stored, 1)
        BY <1>7 DEF SendFails
      <3>2. UNION stored \subseteq Rows
        BY DEF TypeOK
      <3> QED
        BY <3>1, <3>2, StoredType
    <2> QED
      BY <1>7, <2>1, <2>2, <2>3, <2>4 DEF TypeOK, SendFails
  <1>8. CASE Connect
    BY <1>8 DEF TypeOK, Connect, Link!Connect, fibers, schedule, stats, history
  <1>9. CASE CloseConnection
    <2>1. PICK n \in 0..Retries + 1 : table' = Stored(pending, n)
      BY <1>9 DEF CloseConnection
    <2>2. n \in Nat /\ pending \subseteq Rows
      BY DEF TypeOK
    <2>3. DOMAIN table' \subseteq Rows /\ table' \in [DOMAIN table' -> Nat \ {0}]
      BY <2>1, <2>2, StoredType
    <2>4. failures' \in 0..LastFailure
      BY <1>9 DEF TypeOK, CloseConnection
    <2>5. closing' = TRUE /\ pending' = {} /\ UNCHANGED connected
      BY <1>9 DEF CloseConnection, Link!Close
    <2>6. UNCHANGED <<clock, begun, fibers, schedule, stats, sending, lastFlush, history>>
      BY <1>9 DEF CloseConnection
    <2> QED
      BY <2>3, <2>4, <2>5, <2>6 DEF TypeOK, fibers, schedule, stats, history
  <1>10. CASE Disconnect
    <2>1. failures' \in 0..LastFailure
      BY <1>10 DEF TypeOK, Disconnect
    <2>2. connected' = FALSE /\ closing' = FALSE /\ pending' = {}
      BY <1>10 DEF Disconnect, Link!Drop
    <2>3. UNCHANGED <<clock, begun, fibers, schedule, stats, sending, lastFlush, table, history>>
      BY <1>10 DEF Disconnect
    <2> QED
      BY <2>1, <2>2, <2>3 DEF TypeOK, fibers, schedule, stats, history
  <1>11. CASE Tick
    BY <1>11 DEF TypeOK, Tick, fibers, schedule, stats, link, sender, history
  <1>12. CASE UNCHANGED vars
    BY <1>12 DEF TypeOK, vars, fibers, schedule, stats, link, sender, history
  <1> QED
    BY <1>1, <1>2, <1>3, <1>4, <1>5, <1>6, <1>7, <1>8, <1>9, <1>10, <1>11, <1>12
    DEF Next, FiberStep, SenderStep

\* A cycle begins with a number nobody had.
LEMMA PingsBegin ==
  ASSUME Holds, NEW r \in Fibers, NEW entries \in SUBSET Entries, Begin(r, entries),
         UNCHANGED settled
  PROVE  Pings'
  <1>1. begun \in Nat /\ cycle \in [Fibers -> Nat]
    BY PingAssumption DEF Holds, TypeOK
  <1>2. \A x \in settled : x.cycle \in Nat
    BY PingAssumption DEF Holds, TypeOK, Rows
  <1> QED
    BY <1>1, <1>2 DEF Holds, TypeOK, Pings, Begin

\* A cycle that ends leaves its number to its rows: none of them has number 0.
LEMMA PingsForget ==
  ASSUME Holds, NEW r \in Fibers, Forget(r), UNCHANGED <<settled, begun>>
  PROVE  Pings'
  <1>1. begun \in Nat /\ \A x \in settled : x.cycle # 0
    BY PingAssumption DEF Holds, TypeOK, Rows
  <1> QED
    BY <1>1 DEF Holds, TypeOK, Pings, Forget

LEMMA PingsSettle ==
  ASSUME Holds, NEW r \in Fibers, NEW e \in Entries, NEW o \in Outcomes, PingSettles(r, e, o)
  PROVE  Pings'
  <1> DEFINE row == Row(r, e, o)
  <1>1. e \in waiting[r]
    BY DEF PingSettles
  <1>2. /\ settled' = settled \cup {row}
        /\ waiting' = [waiting EXCEPT ![r] = @ \ {e}]
        /\ UNCHANGED <<begun, cycle, stamp>>
    BY DEF PingSettles
  <1>3. waiting \in [Fibers -> SUBSET Entries]
    BY DEF Holds, TypeOK
  <1>4. row.cycle = cycle[r] /\ row.by = r /\ row.at = stamp[r] /\ row.entry = e
    BY RowFields
  <1>5. \A x \in settled : x.cycle = cycle[r] => x.at = stamp[r] /\ x.entry # e
    BY <1>1, RowIsNew DEF Holds
  <1>6. cycle[r] # 0
    BY <1>1 DEF Holds, Pings
  <1> HIDE DEF row
  <1>7. /\ \A s \in Fibers : waiting'[s] # {} => cycle'[s] # 0
        /\ \A s \in Fibers : cycle'[s] <= begun'
        /\ \A s, t \in Fibers : cycle'[s] # 0 /\ cycle'[s] = cycle'[t] => s = t
        /\ \A x \in settled' : x.cycle <= begun'
    BY <1>2, <1>3, <1>4 DEF Holds, Pings
  <1>8. \A x \in settled', s \in Fibers :
          x.cycle = cycle'[s] => x.by = s /\ x.at = stamp'[s] /\ x.entry \notin waiting'[s]
    BY <1>2, <1>3, <1>4, <1>6 DEF Holds, Pings
  <1>9. \A x, y \in settled' :
          x.cycle = y.cycle => x.at = y.at /\ (x.entry = y.entry => x = y)
    BY <1>2, <1>4, <1>5 DEF Holds, Pings
  <1> QED
    BY <1>7, <1>8, <1>9 DEF Pings

LEMMA PingsStep == Holds /\ [Next]_vars => Pings'
  <1> SUFFICES ASSUME Holds, [Next]_vars PROVE Pings'
    OBVIOUS
  <1>1. CASE BeginScheduled
    BY <1>1, PingsBegin, PingAssumption DEF BeginScheduled, Fibers, history
  <1>2. ASSUME NEW t \in Triggers, Trigger(t) PROVE Pings'
    BY <1>2, PingsBegin DEF Trigger, Fibers, history
  <1>3. ASSUME NEW r \in Fibers, FiberStep(r) PROVE Pings'
    BY <1>3, PingsSettle DEF FiberStep
  <1>4. CASE ScheduledCycleEnds
    BY <1>4, PingsForget DEF ScheduledCycleEnds, Fibers, history
  <1>5. ASSUME NEW t \in Triggers, TriggerEnds(t) PROVE Pings'
    BY <1>5, PingsForget DEF TriggerEnds, Fibers, history
  <1>6. CASE SendFails
    <2>1. begun \in Nat /\ \A x \in settled : x.cycle # 0
      BY PingAssumption DEF Holds, TypeOK, Rows
    <2> QED
      BY <1>6, <2>1 DEF Holds, Pings, SendFails
  <1>7. CASE SenderStep \/ Connect \/ CloseConnection \/ Disconnect \/ Tick \/ UNCHANGED vars
    <2>1. UNCHANGED <<begun, fibers, settled>>
      BY <1>7 DEF SenderStep, SendSucceeds, AnswerIsLost, Connect, CloseConnection, Disconnect,
                  Tick, vars, history
    <2> QED
      BY <2>1 DEF Holds, Pings, fibers
  <1> QED
    BY <1>1, <1>2, <1>3, <1>4, <1>5, <1>6, <1>7 DEF Next

-----------------------------------------------------------------------------
(* Where a row is.                                                         *)

LEMMA BuffersStep == Holds /\ Buffers /\ [Next]_vars => Buffers'
  <1> SUFFICES ASSUME Holds, Buffers, [Next]_vars PROVE Buffers'
    OBVIOUS
  <1>1. table \in [DOMAIN table -> Nat \ {0}] /\ Retries \in Nat
    BY PingAssumption DEF Holds, TypeOK
  <1>2. \A x : Copies(x, table) \in Nat
    BY <1>1 DEF Copies
  <1>3. ASSUME NEW r \in Fibers, NEW e \in Entries, NEW o \in Outcomes, PingSettles(r, e, o)
        PROVE Buffers'
    <2> DEFINE row == Row(r, e, o)
    <2>1. e \in waiting[r]
      BY <1>3 DEF PingSettles
    <2>2. row \notin settled
      BY <2>1, RowIsNew DEF Holds
    <2>3. settled' = settled \cup {row} /\ UNCHANGED table
      BY <1>3 DEF PingSettles
    <2>4. Copies(row, table) = 0
      BY <2>2 DEF Buffers, Copies
    <2>5. UNCHANGED <<pending, sending>> \/ Append(row)
      BY <1>3 DEF PingSettles, sender
    <2> HIDE DEF row
    <2>6. CASE UNCHANGED <<pending, sending>>
      BY <1>1, <2>3, <2>4, <2>6 DEF Buffers, InFlight
    <2>7. CASE pending' = pending \cup {row} /\ UNCHANGED sending
      BY <1>1, <2>2, <2>3, <2>4, <2>7 DEF Buffers, InFlight
    <2>8. CASE pending' = {} /\ sending' = sending \cup {pending \cup {row}}
      <3>1. InFlight' = InFlight \cup pending \cup {row}
        BY <2>8 DEF InFlight
      <3>2. \A q \in sending : q \cap (pending \cup {row}) = {}
        BY <2>2 DEF Buffers, InFlight
      <3>3. \A p, q \in sending' : p # q => p \cap q = {}
        BY <2>8, <3>2 DEF Buffers
      <3>4. \A x \in InFlight' : Copies(x, table') <= Retries
        BY <1>1, <2>3, <2>4, <3>1 DEF Buffers
      <3> QED
        BY <1>1, <2>3, <2>4, <2>8, <3>1, <3>3, <3>4 DEF Buffers
    <2> QED
      BY <2>5, <2>6, <2>7, <2>8 DEF Append
  <1>4. ASSUME NEW request \in sending, SendSucceeds(request) \/ AnswerIsLost(request)
        PROVE  Buffers'
    <2>1. table' = Stored(request, 1) /\ UNCHANGED <<pending, settled>>
      BY <1>4 DEF SendSucceeds, AnswerIsLost, sender, history
    <2>2. request \subseteq InFlight /\ request \subseteq settled
      BY DEF Buffers, InFlight
    <2>3. /\ DOMAIN table' \subseteq DOMAIN table \cup request
          /\ \A x : Copies(x, table') = Copies(x, table) + (IF x \in request THEN 1 ELSE 0)
      BY <1>1, <2>1, InsertedCopies DEF Stored
    <2>4. CASE sending' = sending \ {request}
      <3>1. \A x \in InFlight' : x \in InFlight /\ x \notin request
        BY <2>4 DEF Buffers, InFlight
      <3> QED
        BY <1>1, <1>2, <2>1, <2>2, <2>3, <2>4, <3>1 DEF Buffers
    <2>5. CASE sending' = sending /\ \A x \in request : Copies(x, table) < Retries
      <3>1. InFlight' = InFlight
        BY <2>5 DEF InFlight
      <3> QED
        BY <1>1, <1>2, <2>1, <2>2, <2>3, <2>5, <3>1 DEF Buffers
    <2> QED
      BY <1>4, <2>4, <2>5 DEF SendSucceeds, AnswerIsLost, sender
  <1>5. CASE SendFails
    <2>1. PICK stored \in SUBSET sending : table' = Stored(UNION stored, 1)
      BY <1>5 DEF SendFails
    <2>2. UNION stored \subseteq InFlight /\ UNION stored \subseteq settled
      BY DEF Buffers, InFlight
    <2>3. pending' = {} /\ sending' = {} /\ InFlight' = {} /\ UNCHANGED settled
      BY <1>5 DEF SendFails, InFlight
    <2>4. /\ DOMAIN table' \subseteq DOMAIN table \cup UNION stored
          /\ \A x : Copies(x, table') = Copies(x, table) + (IF x \in UNION stored THEN 1 ELSE 0)
      BY <1>1, <2>1, InsertedCopies DEF Stored
    <2> QED
      BY <1>1, <1>2, <2>2, <2>3, <2>4 DEF Buffers
  <1>6. CASE CloseConnection
    <2>1. PICK n \in 0..Retries + 1 : table' = Stored(pending, n)
      BY <1>6 DEF CloseConnection
    <2>2. pending' = {} /\ InFlight' = InFlight /\ UNCHANGED <<sending, settled>>
      BY <1>6 DEF CloseConnection, InFlight, history
    <2>3. n \in Nat
      OBVIOUS
    <2>4. /\ DOMAIN table' \subseteq DOMAIN table \cup pending
          /\ \A x : Copies(x, table') = Copies(x, table) + (IF x \in pending THEN n ELSE 0)
      BY <1>1, <2>1, <2>3, InsertedCopies DEF Stored
    <2>5. \A x \in InFlight : Copies(x, table') = Copies(x, table)
      BY <1>2, <2>4 DEF Buffers
    <2>6. \A x \in settled : Copies(x, table') <= Retries + 1
      BY <1>1, <1>2, <2>4 DEF Buffers
    <2> QED
      BY <2>2, <2>4, <2>5, <2>6 DEF Buffers
  <1>7. CASE Disconnect
    BY <1>7 DEF Disconnect, Buffers, InFlight, history
  <1>8. CASE Connect
    BY <1>8 DEF Connect, Buffers, InFlight, history
  <1>9. CASE UNCHANGED <<sender, table, settled>>
    BY <1>9 DEF sender, Buffers, InFlight
  <1>10. ASSUME BeginScheduled \/ ScheduledCycleEnds \/ Tick \/ UNCHANGED vars
         PROVE  UNCHANGED <<sender, table, settled>>
    BY <1>10 DEF BeginScheduled, ScheduledCycleEnds, Tick, vars, history
  <1>11. ASSUME NEW t \in Triggers, Trigger(t) \/ TriggerEnds(t)
         PROVE  UNCHANGED <<sender, table, settled>>
    BY <1>11 DEF Trigger, TriggerEnds, history
  <1> QED
    BY <1>3, <1>4, <1>5, <1>6, <1>7, <1>8, <1>9, <1>10, <1>11
    DEF Next, FiberStep, SenderStep

-----------------------------------------------------------------------------
(* What the statistics count.                                              *)

\* Rows of the running cycle are as many as their entries.
LEMMA EntriesCountRows ==
  ASSUME Holds, Tally, NEW rows \in SUBSET Running
  PROVE  IsFiniteSet(rows) /\ Cardinality(rows) = Cardinality({x.entry : x \in rows})
  <1> DEFINE entryOf == [x \in rows |-> x.entry]
             entries == {x.entry : x \in rows}
  <1>1. IsFiniteSet(rows)
    BY FS_Subset DEF Tally, Running
  <1>2. \A x, y \in rows : x.entry = y.entry => x = y
    BY DEF Holds, Pings, Running
  <1>3. entryOf \in Bijection(rows, entries)
    BY <1>2 DEF Bijection, Injection, Surjection, IsInjective
  <1>4. ExistsBijection(rows, entries)
    BY <1>3 DEF ExistsBijection
  <1> QED
    BY <1>1, <1>4, FS_Bijection

\* Two finite sets of pings without a common one are counted by adding.
LEMMA CountsAdd ==
  ASSUME NEW S, NEW T, IsFiniteSet(S), IsFiniteSet(T), S \cap T = {}
  PROVE  Cardinality(S \cup T) = Cardinality(S) + Cardinality(T)
  <1>1. /\ Cardinality(S \cup T) = Cardinality(S) + Cardinality(T) - Cardinality(S \cap T)
        /\ Cardinality(S) \in Nat /\ Cardinality(T) \in Nat
    BY FS_Union, FS_CardinalityType
  <1> QED
    BY <1>1, FS_EmptySet

LEMMA TallySettles ==
  ASSUME Holds, Tally, NEW r \in Fibers, NEW e \in Entries, NEW o \in Outcomes,
         PingSettles(r, e, o)
  PROVE  Tally'
  <1> DEFINE row == Row(r, e, o)
  <1>1. Monitor \in Fibers /\ succeeded \in [Fibers -> SUBSET Entries]
                           /\ failed \in [Fibers -> SUBSET Entries]
    BY DEF Fibers, Holds, TypeOK
  <1>2. /\ settled' = settled \cup {row}
        /\ e \in waiting[r]
        /\ UNCHANGED <<begun, cycle, successfulPings, failedPings, earlier>>
        /\ accepted' = IF connected THEN accepted \cup {row} ELSE accepted
    BY DEF PingSettles, stats
  <1>3. row \notin settled
    BY <1>2, RowIsNew DEF Holds
  <1>4. row.cycle = cycle[r] /\ row.by = r /\ row.entry = e /\ row.outcome = o
    BY RowFields
  <1>5. IF connected /\ o # "failed"
          THEN succeeded' = [succeeded EXCEPT ![r] = @ \cup {e}] /\ UNCHANGED failed
          ELSE failed' = [failed EXCEPT ![r] = @ \cup {e}] /\ UNCHANGED succeeded
    BY DEF PingSettles
  <1>6. cycle[r] # 0
    BY <1>2 DEF Holds, Pings
  <1> HIDE DEF row
  <1>7. IsFiniteSet(settled') /\ accepted' \subseteq settled'
    BY <1>2, FS_AddElement DEF Tally
  <1>8. Reached' = IF connected /\ o # "failed" THEN Reached \cup {row} ELSE Reached
    BY <1>2, <1>4 DEF Reached
  <1>9. Ended' = Ended
    BY <1>2, <1>4 DEF Ended
  <1>10. row \notin Ended /\ row \notin Reached
    BY <1>3 DEF Ended, Reached, Tally
  <1>11. Ended' \cap Reached' = Ended \cap Reached /\ Ended' \ Reached' = Ended \ Reached
    BY <1>8, <1>9, <1>10
  <1>12. /\ succeeded'[Monitor] = {x.entry : x \in Running' \cap Reached'}
         /\ failed'[Monitor] = {x.entry : x \in Running' \ Reached'}
    <2>1. CASE r # Monitor
      <3>1. Running' = Running /\ row \notin Running
        BY <1>2, <1>3, <1>4, <2>1 DEF Running
      <3>2. Running' \cap Reached' = Running \cap Reached /\ Running' \ Reached' = Running \ Reached
        BY <1>8, <3>1
      <3>3. succeeded'[Monitor] = succeeded[Monitor] /\ failed'[Monitor] = failed[Monitor]
        BY <1>1, <1>5, <2>1
      <3> QED
        BY <3>2, <3>3 DEF Tally
    <2>2. CASE r = Monitor
      <3>1. Running' = Running \cup {row} /\ row \notin Running
        BY <1>2, <1>3, <1>4, <2>2 DEF Running
      <3>2. CASE connected /\ o # "failed"
        <4>1. /\ Running' \cap Reached' = (Running \cap Reached) \cup {row}
              /\ Running' \ Reached' = Running \ Reached
          BY <1>8, <1>10, <3>1, <3>2
        <4>2. succeeded'[Monitor] = succeeded[Monitor] \cup {e} /\ failed'[Monitor] = failed[Monitor]
          BY <1>1, <1>5, <2>2, <3>2
        <4> QED
          BY <1>4, <4>1, <4>2 DEF Tally
      <3>3. CASE ~(connected /\ o # "failed")
        <4>1. /\ Running' \cap Reached' = Running \cap Reached
              /\ Running' \ Reached' = (Running \ Reached) \cup {row}
          BY <1>8, <1>10, <3>1, <3>3
        <4>2. succeeded'[Monitor] = succeeded[Monitor] /\ failed'[Monitor] = failed[Monitor] \cup {e}
          BY <1>1, <1>5, <2>2, <3>3
        <4> QED
          BY <1>4, <4>1, <4>2 DEF Tally
      <3> QED
        BY <3>2, <3>3
    <2> QED
      BY <2>1, <2>2
  <1> QED
    BY <1>2, <1>7, <1>11, <1>12 DEF Tally

\* The results of the cycle that ends join those that are counted.
LEMMA TallyEnds == Holds /\ Tally /\ ScheduledCycleEnds => Tally'
  <1> SUFFICES ASSUME Holds, Tally, ScheduledCycleEnds PROVE Tally'
    OBVIOUS
  <1>1. \A x \in settled : x.cycle \in Nat \ {0}
    BY PingAssumption DEF Holds, TypeOK, Rows
  <1>2. /\ cycle'[Monitor] = 0
        /\ succeeded'[Monitor] = {} /\ failed'[Monitor] = {}
        /\ successfulPings' = successfulPings + Cardinality(succeeded[Monitor])
        /\ failedPings' = failedPings + Cardinality(failed[Monitor])
        /\ UNCHANGED <<begun, accepted, settled, earlier>>
    BY DEF ScheduledCycleEnds, Forget, Holds, TypeOK, Fibers, history
  <1>3. cycle[Monitor] # 0 /\ cycle[Monitor] > earlier
    BY DEF ScheduledCycleEnds, Tally
  <1>4. Running' = {} /\ Reached' = Reached
    BY <1>1, <1>2 DEF Running, Reached
  <1>5. Ended' = Ended \cup Running /\ Ended \cap Running = {}
    BY <1>1, <1>2, <1>3 DEF Ended, Running
  <1>6. /\ Ended' \cap Reached' = (Ended \cap Reached) \cup (Running \cap Reached)
        /\ Ended' \ Reached' = (Ended \ Reached) \cup (Running \ Reached)
    BY <1>4, <1>5
  <1>7. IsFiniteSet(Ended \cap Reached) /\ IsFiniteSet(Ended \ Reached)
    <2>1. Ended \in SUBSET settled
      BY DEF Ended
    <2> QED
      BY <2>1, FS_Subset DEF Tally
  <1>8. /\ IsFiniteSet(Running \cap Reached) /\ IsFiniteSet(Running \ Reached)
        /\ Cardinality(Running \cap Reached) = Cardinality(succeeded[Monitor])
        /\ Cardinality(Running \ Reached) = Cardinality(failed[Monitor])
    BY EntriesCountRows DEF Tally
  <1>9. /\ Cardinality(Ended' \cap Reached') =
             Cardinality(Ended \cap Reached) + Cardinality(Running \cap Reached)
        /\ Cardinality(Ended' \ Reached') =
             Cardinality(Ended \ Reached) + Cardinality(Running \ Reached)
    BY <1>5, <1>6, <1>7, <1>8, CountsAdd
  <1> QED
    BY <1>2, <1>4, <1>8, <1>9 DEF Tally

LEMMA TallyStep == Holds /\ Tally /\ [Next]_vars => Tally'
  <1> SUFFICES ASSUME Holds, Tally, [Next]_vars PROVE Tally'
    OBVIOUS
  <1>1. Monitor \in Fibers /\ Monitor \notin Triggers
    BY PingAssumption DEF Fibers
  <1>2. begun \in Nat /\ earlier \in Nat
    BY PingAssumption DEF Holds, TypeOK
  <1>3. \A x \in settled : x.cycle \in Nat \ {0} /\ x.cycle <= begun
    BY PingAssumption DEF Holds, TypeOK, Pings, Rows
  <1>4. CASE /\ UNCHANGED <<cycle[Monitor], succeeded[Monitor], failed[Monitor]>>
             /\ UNCHANGED <<successfulPings, failedPings, history>>
             /\ begun' \in {begun, begun + 1}
    BY <1>2, <1>4 DEF Tally, Ended, Running, Reached, history
  <1>5. CASE BeginScheduled
    <2>1. /\ cycle[Monitor] = 0
          /\ cycle'[Monitor] = begun + 1
          /\ begun' = begun + 1
          /\ succeeded'[Monitor] = {} /\ failed'[Monitor] = {}
          /\ UNCHANGED <<successfulPings, failedPings, accepted, settled, earlier>>
      BY <1>1, <1>5 DEF BeginScheduled, Begin, stats, history, Holds, TypeOK
    <2>2. Running' = {} /\ Ended' = Ended /\ Reached' = Reached
      BY <1>2, <1>3, <2>1 DEF Running, Ended, Reached
    <2> QED
      BY <1>2, <2>1, <2>2 DEF Tally
  <1>6. ASSUME NEW t \in Triggers, Trigger(t) \/ TriggerEnds(t)
        PROVE  /\ UNCHANGED <<cycle[Monitor], succeeded[Monitor], failed[Monitor]>>
               /\ UNCHANGED <<successfulPings, failedPings, history>>
               /\ begun' \in {begun, begun + 1}
    BY <1>1, <1>6 DEF Trigger, TriggerEnds, Begin, Forget, stats, Holds, TypeOK
  <1>7. ASSUME NEW r \in Fibers, NEW e \in Entries, NEW o \in Outcomes, PingSettles(r, e, o)
        PROVE  Tally'
    BY <1>7, TallySettles
  <1>8. CASE ScheduledCycleEnds
    BY <1>8, TallyEnds
  <1>9. CASE SendFails
    <2>1. /\ cycle'[Monitor] = 0 /\ succeeded'[Monitor] = {} /\ failed'[Monitor] = {}
          /\ successfulPings' = 0 /\ failedPings' = 0 /\ accepted' = {}
          /\ earlier' = begun /\ UNCHANGED <<begun, settled>>
      BY <1>1, <1>9 DEF SendFails
    <2>2. Running' = {} /\ Ended' = {} /\ Reached' = {}
      BY <1>2, <1>3, <2>1 DEF Running, Ended, Reached
    <2> QED
      BY <1>2, <2>1, <2>2, FS_EmptySet DEF Tally
  <1>10. ASSUME SenderStep \/ Connect \/ CloseConnection \/ Disconnect \/ Tick \/ UNCHANGED vars
         PROVE  /\ UNCHANGED <<cycle[Monitor], succeeded[Monitor], failed[Monitor]>>
                /\ UNCHANGED <<successfulPings, failedPings, history>>
                /\ begun' \in {begun, begun + 1}
    BY <1>10 DEF SenderStep, SendSucceeds, AnswerIsLost, Connect, CloseConnection, Disconnect,
                 Tick, vars, fibers, stats
  <1> QED
    BY <1>4, <1>5, <1>6, <1>7, <1>8, <1>9, <1>10 DEF Next, FiberStep

-----------------------------------------------------------------------------
(* How long a row waits.                                                   *)

LEMMA ClockworkStep == Holds /\ Clockwork /\ [Next]_vars => Clockwork'
  <1> SUFFICES ASSUME Holds, Clockwork, [Next]_vars PROVE Clockwork'
    OBVIOUS
  <1>1. Monitor \in Fibers /\ Monitor \notin Triggers
    BY PingAssumption DEF Fibers
  <1>2. /\ clock \in Nat /\ lastFlush \in Nat /\ nextPing \in Nat
        /\ cycle \in [Fibers -> Nat] /\ stamp \in [Fibers -> Nat]
        /\ waiting \in [Fibers -> SUBSET Entries]
        /\ PingInterval \in Nat /\ PingDeadline \in Nat /\ begun \in Nat
    BY PingAssumption DEF Holds, TypeOK
  <1>3. CASE BeginScheduled
    BY <1>1, <1>2, <1>3 DEF BeginScheduled, Begin, Clockwork, sender, schedule
  <1>4. ASSUME NEW t \in Triggers, Trigger(t) PROVE Clockwork'
    BY <1>1, <1>2, <1>4 DEF Trigger, Begin, Clockwork, sender, schedule, Fibers
  <1>5. ASSUME NEW r \in Fibers, NEW e \in Entries, NEW o \in Outcomes, PingSettles(r, e, o)
        PROVE  Clockwork'
    <2>1. lastFlush' <= clock'
      BY <1>2, <1>5 DEF PingSettles, Append, sender, Clockwork
    <2>2. waiting' = [waiting EXCEPT ![r] = @ \ {e}] /\ UNCHANGED <<clock, cycle, stamp, nextPing>>
      BY <1>5 DEF PingSettles, schedule
    <2> QED
      BY <1>2, <2>1, <2>2 DEF Clockwork
  <1>6. CASE ScheduledCycleEnds
    BY <1>1, <1>2, <1>6 DEF ScheduledCycleEnds, Forget, Clockwork, sender
  <1>7. ASSUME NEW t \in Triggers, TriggerEnds(t) PROVE Clockwork'
    BY <1>1, <1>2, <1>7 DEF TriggerEnds, Forget, Clockwork, sender, schedule, Fibers
  <1>8. CASE SendFails
    BY <1>1, <1>2, <1>8 DEF SendFails, Clockwork
  <1>9. CASE Tick
    BY <1>1, <1>2, <1>9 DEF Tick, Clockwork, fibers, schedule, sender
  <1>10. CASE Connect
    BY <1>2, <1>10 DEF Connect, Clockwork, fibers, schedule
  <1>11. CASE SenderStep \/ CloseConnection \/ Disconnect \/ UNCHANGED vars
    <2>1. UNCHANGED <<clock, fibers, schedule, lastFlush>>
      BY <1>11 DEF SenderStep, SendSucceeds, AnswerIsLost, CloseConnection, Disconnect, vars,
                   sender
    <2> QED
      BY <2>1 DEF Clockwork, fibers, schedule
  <1> QED
    BY <1>3, <1>4, <1>5, <1>6, <1>7, <1>8, <1>9, <1>10, <1>11 DEF Next, FiberStep

LEMMA PaceStep == Holds /\ Clockwork /\ Pace /\ [Next]_vars => Pace'
  <1> SUFFICES ASSUME Holds, Clockwork, Pace, [Next]_vars, Configured # {}, pending' # {}
               PROVE  Pace'
    BY DEF Pace
  <1>1. Monitor \in Fibers /\ Monitor \notin Triggers
    BY PingAssumption DEF Fibers
  <1>2. /\ clock \in Nat /\ lastFlush \in Nat /\ nextPing \in Nat
        /\ cycle \in [Fibers -> Nat] /\ stamp \in [Fibers -> Nat]
        /\ waiting \in [Fibers -> SUBSET Entries]
        /\ PingInterval \in Nat /\ PingDeadline \in Nat /\ begun \in Nat
        /\ \A x \in pending : x.at \in Nat
    BY PingAssumption DEF Holds, TypeOK, Rows
  <1>3. CASE BeginScheduled
    <2>1. UNCHANGED <<pending, lastFlush, connected>> /\ nextPing <= clock /\ cycle[Monitor] = 0
      BY <1>3 DEF BeginScheduled, Begin, sender, link
    <2>2. cycle'[Monitor] # 0 /\ stamp'[Monitor] = clock /\ waiting'[Monitor] = Configured
      BY <1>1, <1>2, <1>3 DEF BeginScheduled, Begin
    <2> QED
      BY <1>1, <1>2, <2>1, <2>2 DEF Pace, Clockwork
  <1>4. ASSUME NEW t \in Triggers, Trigger(t) \/ TriggerEnds(t) PROVE Pace'
    <2>1. UNCHANGED <<clock, pending, lastFlush, connected, nextPing>>
      BY <1>4 DEF Trigger, TriggerEnds, sender, link, schedule
    <2>2. UNCHANGED <<cycle[Monitor], stamp[Monitor], waiting[Monitor]>>
      BY <1>1, <1>2, <1>4 DEF Trigger, TriggerEnds, Begin, Forget
    <2> QED
      BY <2>1, <2>2 DEF Pace
  <1>5. ASSUME NEW r \in Fibers, NEW e \in Entries, NEW o \in Outcomes, PingSettles(r, e, o)
        PROVE  Pace'
    <2> DEFINE row == Row(r, e, o)
    <2>1. /\ e \in waiting[r]
          /\ waiting' = [waiting EXCEPT ![r] = @ \ {e}]
          /\ UNCHANGED <<clock, cycle, stamp, nextPing, connected>>
      BY <1>5 DEF PingSettles, schedule, link
    <2>2. CASE ~connected
      BY <1>5, <2>2 DEF PingSettles, sender, Pace
    <2>3. CASE connected
      <3>1. Append(row)
        BY <1>5, <2>3 DEF PingSettles
      <3>2. /\ pending' = pending \cup {row}
            /\ lastFlush' = lastFlush
            /\ clock <= lastFlush + 1
        BY <3>1 DEF Append
      <3>3. row.at = stamp[r] /\ clock <= stamp[r] + PingDeadline
        BY <2>1, RowFields DEF Clockwork
      <3> HIDE DEF row
      <3>4. \A x \in pending' : lastFlush' <= x.at + PingDeadline
        BY <1>2, <3>2, <3>3 DEF Pace, Clockwork
      <3>5. IF cycle'[Monitor] = 0
              THEN nextPing' <= lastFlush' + 1 + PingInterval
              ELSE /\ stamp'[Monitor] <= lastFlush' + 1 + PingInterval
                   /\ waiting'[Monitor] = {} => clock' <= lastFlush' + 1
        BY <1>1, <1>2, <2>1, <3>2 DEF Clockwork
      <3> QED
        BY <2>1, <2>3, <3>4, <3>5 DEF Pace
    <2> QED
      BY <2>2, <2>3
  <1>6. CASE ScheduledCycleEnds
    <2>1. /\ cycle[Monitor] # 0
          /\ waiting[Monitor] = {}
          /\ nextPing' <= clock + PingInterval
          /\ UNCHANGED <<clock, pending, lastFlush, connected>>
      BY <1>2, <1>6 DEF ScheduledCycleEnds, sender, link
    <2>2. cycle'[Monitor] = 0 /\ nextPing' \in Nat
      BY <1>1, <1>2, <1>6 DEF ScheduledCycleEnds, Forget
    <2> QED
      BY <1>2, <2>1, <2>2 DEF Pace
  <1>7. CASE Tick
    <2>1. /\ UNCHANGED <<cycle, stamp, waiting, nextPing, pending, lastFlush, connected>>
          /\ cycle[Monitor] # 0 => waiting[Monitor] # {}
      BY <1>7 DEF Tick, fibers, schedule, sender, link
    <2> QED
      BY <2>1 DEF Pace
  <1>8. CASE SendFails \/ CloseConnection \/ Disconnect
    BY <1>8 DEF SendFails, CloseConnection, Link!Close, Disconnect, Link!Drop
  <1>9. CASE Connect
    BY <1>9 DEF Connect, Link!Connect, Pace
  <1>10. CASE SenderStep \/ UNCHANGED vars
    <2>1. UNCHANGED <<clock, fibers, schedule, pending, lastFlush, connected>>
      BY <1>10 DEF SenderStep, SendSucceeds, AnswerIsLost, vars, sender, link
    <2> QED
      BY <2>1 DEF Pace, fibers, schedule
  <1> QED
    BY <1>3, <1>4, <1>5, <1>6, <1>7, <1>8, <1>9, <1>10 DEF Next, FiberStep

-----------------------------------------------------------------------------
(* How old what is shown may be.                                           *)

LEMMA OrderBegins ==
  ASSUME Holds, Clockwork, Order, NEW r \in Fibers, NEW entries \in SUBSET Entries,
         Begin(r, entries), UNCHANGED <<settled, clock>>
  PROVE  Order'
  <1>1. /\ begun \in Nat /\ clock \in Nat
        /\ cycle \in [Fibers -> Nat] /\ stamp \in [Fibers -> Nat]
        /\ \A x \in settled : x.cycle \in Nat /\ x.at \in Nat
    BY PingAssumption DEF Holds, TypeOK, Rows
  <1>2. /\ \A x \in settled : x.cycle <= begun /\ x.at <= clock
        /\ \A s \in Fibers : cycle[s] <= begun /\ stamp[s] <= clock
    BY DEF Holds, Pings, Clockwork, Order
  <1>3. /\ cycle'[r] = begun + 1 /\ stamp'[r] = clock
        /\ \A s \in Fibers \ {r} : cycle'[s] = cycle[s] /\ stamp'[s] = stamp[s]
    BY <1>1 DEF Begin
  <1> QED
    BY <1>1, <1>2, <1>3 DEF Order

LEMMA OrderStep == Holds /\ Clockwork /\ Order /\ [Next]_vars => Order'
  <1> SUFFICES ASSUME Holds, Clockwork, Order, [Next]_vars PROVE Order'
    OBVIOUS
  <1>1. /\ clock \in Nat
        /\ cycle \in [Fibers -> Nat] /\ stamp \in [Fibers -> Nat]
        /\ \A x \in settled : x.cycle \in Nat /\ x.at \in Nat
    BY PingAssumption DEF Holds, TypeOK, Rows
  <1>2. CASE BeginScheduled
    BY <1>2, OrderBegins, PingAssumption DEF BeginScheduled, Fibers, history
  <1>3. ASSUME NEW t \in Triggers, Trigger(t) PROVE Order'
    BY <1>3, OrderBegins DEF Trigger, Fibers, history
  <1>4. ASSUME NEW r \in Fibers, NEW e \in Entries, NEW o \in Outcomes, PingSettles(r, e, o)
        PROVE  Order'
    <2> DEFINE row == Row(r, e, o)
    <2>1. /\ settled' = settled \cup {row}
          /\ UNCHANGED <<clock, cycle, stamp>>
          /\ e \in waiting[r]
      BY <1>4 DEF PingSettles
    <2>2. row.cycle = cycle[r] /\ row.at = stamp[r] /\ stamp[r] <= clock /\ cycle[r] # 0
      BY <2>1, RowFields DEF Holds, Pings, Clockwork
    <2> HIDE DEF row
    <2> QED
      BY <1>1, <2>1, <2>2 DEF Order
  <1>5. ASSUME NEW r \in Fibers, Forget(r), UNCHANGED <<settled, clock>> PROVE Order'
    BY <1>1, <1>5 DEF Forget, Order
  <1>6. ASSUME ScheduledCycleEnds \/ \E t \in Triggers : TriggerEnds(t) PROVE Order'
    BY <1>5, <1>6 DEF ScheduledCycleEnds, TriggerEnds, Fibers, history
  <1>7. CASE SendFails
    BY <1>1, <1>7 DEF SendFails, Order
  <1>8. CASE Tick
    BY <1>1, <1>8 DEF Tick, Order, fibers, history
  <1>9. CASE SenderStep \/ Connect \/ CloseConnection \/ Disconnect \/ UNCHANGED vars
    <2>1. UNCHANGED <<clock, fibers, settled>>
      BY <1>9 DEF SenderStep, SendSucceeds, AnswerIsLost, Connect, CloseConnection, Disconnect,
                  vars, history
    <2> QED
      BY <2>1 DEF Order, fibers
  <1> QED
    BY <1>2, <1>3, <1>4, <1>6, <1>7, <1>8, <1>9 DEF Next, FiberStep

LEMMA RecentStep == Holds /\ Clockwork /\ Recent /\ Tally /\ [Next]_vars => Recent'
  <1> SUFFICES ASSUME Holds, Clockwork, Recent, Tally, [Next]_vars, Configured # {} PROVE Recent'
    BY DEF Recent
  <1>1. Monitor \in Fibers /\ Monitor \notin Triggers
    BY PingAssumption DEF Fibers
  <1>2. /\ clock \in Nat /\ nextPing \in Nat /\ begun \in Nat
        /\ cycle \in [Fibers -> Nat] /\ stamp \in [Fibers -> Nat]
        /\ waiting \in [Fibers -> SUBSET Entries]
        /\ PingInterval \in Nat /\ PingDeadline \in Nat
        /\ initial \in BOOLEAN
        /\ \A x \in settled : x.cycle \in Nat \ {0} /\ x.cycle <= begun /\ x.at \in Nat
        /\ \A x \in accepted : x.at \in Nat
    BY PingAssumption DEF Holds, TypeOK, Pings, Rows
  <1>3. CASE BeginScheduled
    <2>1. /\ clock >= nextPing /\ cycle[Monitor] = 0
          /\ cycle' = [cycle EXCEPT ![Monitor] = begun + 1]
          /\ stamp' = [stamp EXCEPT ![Monitor] = clock]
          /\ waiting' = [waiting EXCEPT ![Monitor] = Configured]
          /\ UNCHANGED <<clock, initial, nextPing, accepted, settled>>
      BY <1>3 DEF BeginScheduled, Begin, schedule, history
    <2>2. clock = nextPing
      BY <1>2, <2>1 DEF Clockwork
    <2>3. \A r \in Fibers : cycle'[r] # 0 => stamp'[r] = clock \/ (cycle[r] # 0 /\ stamp'[r] = stamp[r])
      BY <1>1, <1>2, <2>1
    <2>4. cycle'[Monitor] = begun + 1 /\ stamp'[Monitor] = clock /\ waiting'[Monitor] = Configured
      BY <1>1, <1>2, <2>1
    <2>5. initial' => /\ \A x \in accepted' : nextPing' <= x.at
                      /\ nextPing' <= clock'
                      /\ \A r \in Fibers : cycle'[r] # 0 => nextPing' <= stamp'[r]
                      /\ clock' <= nextPing' + PingDeadline
                      /\ cycle'[Monitor] # 0 => stamp'[Monitor] = nextPing'
      BY <1>2, <2>1, <2>2, <2>3, <2>4 DEF Recent
    <2>6. ASSUME ~initial'
          PROVE  \E x \in settled' :
                   /\ x.by = Monitor
                   /\ x.cycle # cycle'[Monitor]
                   /\ stamp'[Monitor] <= x.at + PingDeadline + PingInterval
      <3>1. PICK x \in settled : /\ x.by = Monitor
                                 /\ nextPing <= x.at + PingDeadline + PingInterval
        BY <2>1, <2>6 DEF Recent
      <3>2. x.cycle # begun + 1
        BY <1>2
      <3> QED
        BY <2>1, <2>2, <2>4, <3>1, <3>2
    <2> QED
      BY <1>2, <2>1, <2>4, <2>5, <2>6 DEF Recent
  <1>4. ASSUME NEW t \in Triggers, Trigger(t) \/ TriggerEnds(t) PROVE Recent'
    <2>1. /\ UNCHANGED <<clock, initial, nextPing, settled, accepted>>
          /\ UNCHANGED <<cycle[Monitor], stamp[Monitor], waiting[Monitor]>>
      BY <1>1, <1>2, <1>4 DEF Trigger, TriggerEnds, Begin, Forget, schedule, history
    <2>2. \A r \in Fibers : cycle'[r] # 0 => stamp'[r] = clock \/ (cycle[r] # 0 /\ stamp'[r] = stamp[r])
      BY <1>2, <1>4 DEF Trigger, TriggerEnds, Begin, Forget
    <2> QED
      BY <1>2, <2>1, <2>2 DEF Recent
  <1>5. ASSUME NEW r \in Fibers, NEW e \in Entries, NEW o \in Outcomes, PingSettles(r, e, o)
        PROVE  Recent'
    <2> DEFINE row == Row(r, e, o)
    <2>1. /\ e \in waiting[r]
          /\ waiting' = [waiting EXCEPT ![r] = @ \ {e}]
          /\ settled' = settled \cup {row}
          /\ accepted' \in {accepted, accepted \cup {row}}
          /\ UNCHANGED <<clock, cycle, stamp, initial, nextPing>>
      BY <1>5 DEF PingSettles, schedule
    <2>2. row.cycle = cycle[r] /\ row.at = stamp[r] /\ row.by = r /\ cycle[r] # 0
      BY <2>1, RowFields DEF Holds, Pings
    <2> HIDE DEF row
    <2>3. cycle'[Monitor] # 0 /\ waiting'[Monitor] # Configured =>
            \E x \in settled' : x.by = Monitor /\ x.cycle = cycle'[Monitor]
      <3>1. CASE r = Monitor
        BY <2>1, <2>2, <3>1
      <3>2. CASE r # Monitor
        BY <1>1, <1>2, <2>1, <3>2 DEF Recent
      <3> QED
        BY <3>1, <3>2
    <2>4. initial' => \A x \in accepted' : nextPing' <= x.at
      BY <2>1, <2>2 DEF Recent
    <2>5. ASSUME ~initial'
          PROVE  \E x \in settled' :
                   /\ x.by = Monitor
                   /\ x.cycle # cycle'[Monitor]
                   /\ IF cycle'[Monitor] = 0
                        THEN nextPing' <= x.at + PingDeadline + PingInterval
                        ELSE stamp'[Monitor] <= x.at + PingDeadline + PingInterval
      BY <2>1, <2>5 DEF Recent
    <2>6. initial' => /\ nextPing' <= clock'
                      /\ \A s \in Fibers : cycle'[s] # 0 => nextPing' <= stamp'[s]
                      /\ clock' <= nextPing' + PingDeadline
                      /\ cycle'[Monitor] # 0 => stamp'[Monitor] = nextPing'
      BY <2>1 DEF Recent
    <2> QED
      BY <2>3, <2>4, <2>5, <2>6 DEF Recent
  <1>6. CASE ScheduledCycleEnds
    <2>1. /\ cycle[Monitor] # 0 /\ waiting[Monitor] = {}
          /\ cycle'[Monitor] = 0
          /\ initial' = FALSE
          /\ nextPing' <= clock + PingInterval
          /\ UNCHANGED <<clock, settled>>
      BY <1>1, <1>2, <1>6 DEF ScheduledCycleEnds, Forget, history
    <2>2. PICK x \in settled : x.by = Monitor /\ x.cycle = cycle[Monitor]
      BY <2>1 DEF Recent
    <2>3. x.at = stamp[Monitor] /\ x.cycle # 0
      BY <1>1, <1>2, <2>2 DEF Holds, Pings
    <2>4. clock <= stamp[Monitor] + PingDeadline
      BY <2>1 DEF Clockwork
    <2>5. nextPing' \in Nat
      BY <1>2, <1>6 DEF ScheduledCycleEnds
    <2>6. nextPing' <= x.at + PingDeadline + PingInterval
      BY <1>1, <1>2, <2>1, <2>2, <2>3, <2>4, <2>5
    <2>7. \E y \in settled' :
            /\ y.by = Monitor
            /\ y.cycle # cycle'[Monitor]
            /\ nextPing' <= y.at + PingDeadline + PingInterval
      BY <2>1, <2>2, <2>3, <2>6
    <2> QED
      BY <2>1, <2>7 DEF Recent
  <1>7. CASE SendFails
    BY <1>1, <1>2, <1>7 DEF SendFails, Recent
  <1>8. CASE Tick
    <2>1. /\ UNCHANGED <<cycle, stamp, waiting, initial, nextPing, settled, accepted>>
          /\ clock' = clock + 1
          /\ cycle[Monitor] # 0 => waiting[Monitor] # {}
          /\ cycle[Monitor] = 0 => clock < nextPing
          /\ waiting[Monitor] # {} => clock < stamp[Monitor] + PingDeadline
      BY <1>1, <1>8 DEF Tick, fibers, schedule, history
    <2>2. initial => clock' <= nextPing + PingDeadline
      BY <1>1, <1>2, <2>1 DEF Recent
    <2> QED
      BY <1>2, <2>1, <2>2 DEF Recent
  <1>9. CASE SenderStep \/ Connect \/ CloseConnection \/ Disconnect \/ UNCHANGED vars
    <2>1. UNCHANGED <<clock, fibers, schedule, settled, accepted>>
      BY <1>9 DEF SenderStep, SendSucceeds, AnswerIsLost, Connect, CloseConnection, Disconnect,
                  vars, history
    <2> QED
      BY <2>1 DEF Recent, fibers, schedule
  <1> QED
    BY <1>3, <1>4, <1>5, <1>6, <1>7, <1>8, <1>9 DEF Next, FiberStep

-----------------------------------------------------------------------------
(* The results.                                                            *)

LEMMA InitIInv == Init => IInv
  <1> SUFFICES ASSUME Init PROVE IInv
    OBVIOUS
  <1>1. Holds /\ Buffers
    BY InitHolds DEF Init, Buffers, InFlight
  <1>2. settled = {} /\ accepted = {} /\ Running = {} /\ Ended = {} /\ Reached = {}
    BY DEF Init, Running, Ended, Reached
  <1>3. /\ cycle[Monitor] = 0 /\ succeeded[Monitor] = {} /\ failed[Monitor] = {}
        /\ successfulPings = 0 /\ failedPings = 0 /\ earlier = 0 /\ begun = 0
    BY DEF Init, Fibers
  <1>4. Tally
    BY <1>2, <1>3, FS_EmptySet DEF Tally
  <1>5. Clockwork /\ Pace
    BY PingAssumption DEF Init, Clockwork, Pace, Fibers
  <1>6. Order /\ Recent
    BY PingAssumption DEF Init, Order, Recent, Fibers
  <1> QED
    BY <1>1, <1>4, <1>5, <1>6 DEF IInv

LEMMA Invariance == Spec => []IInv
  <1>1. IInv /\ [Next]_vars => IInv'
    BY TypeStep, PingsStep, BuffersStep, TallyStep, ClockworkStep, PaceStep,
       OrderStep, RecentStep
    DEF IInv, Holds
  <1> QED
    BY InitIInv, <1>1, PTL DEF Spec

\* Every reachable state has its types: network-monitor.ts's counts stay
\* counts, and a row names the cycle, fiber and second it belongs to.
THEOREM TypeCorrect == Spec => []TypeOK
  <1>1. IInv => TypeOK
    BY DEF IInv, Holds
  <1> QED
    BY <1>1, Invariance, PTL

\* Whatever the sender buffers, sends, sends again or loses, and however triggered
\* cycles overlap the scheduled ones, the rows of a ping of executeHosts are copies of
\* one true row, no more than retries account for, and those of a cycle have one
\* timestamp.
THEOREM RowsTellTheTruth == Spec => []OneRowButForRetries
  <1>1. IInv => OneRowButForRetries
    <2> SUFFICES ASSUME IInv PROVE OneRowButForRetries
      OBVIOUS
    <2> DEFINE rows == pending \cup InFlight \cup DOMAIN table
    <2>1. rows \subseteq settled /\ pending \cap InFlight = {}
      BY DEF IInv, Buffers
    <2>2. \A x, y \in rows : x.cycle = y.cycle => x.at = y.at /\ (x.entry = y.entry => x = y)
      BY <2>1 DEF IInv, Holds, Pings
    <2>3. ASSUME NEW x \in rows
          PROVE  Copies(x, table) <= IF x \in pending THEN 0
                                     ELSE IF x \in InFlight THEN Retries ELSE Retries + 1
      BY <2>1 DEF IInv, Buffers
    <2> QED
      BY <2>1, <2>2, <2>3 DEF OneRowButForRetries
  <1> QED
    BY <1>1, Invariance, PTL

\* statsRef.successfulPings and failedPings count the scheduled cycles that ended in
\* this process: the reachable hosts whose row a sender took, and all others.
THEOREM StatsTellTheTruth == Spec => []StatsCountAcceptedRows
  <1>1. IInv => StatsCountAcceptedRows
    <2> SUFFICES ASSUME IInv PROVE StatsCountAcceptedRows
      OBVIOUS
    <2> DEFINE ended == {x \in settled :
                           x.by = Monitor /\ x.cycle > earlier /\ x.cycle # cycle[Monitor]}
               successes == {x \in ended \cap accepted : x.outcome # "failed"}
    <2>1. ended = Ended
      BY DEF Ended
    <2>2. successes = Ended \cap Reached
      BY <2>1 DEF Reached
    <2>3. ended \ successes = Ended \ Reached
      BY <2>1, <2>2
    <2> QED
      BY <2>2, <2>3 DEF IInv, Tally, StatsCountAcceptedRows
  <1> QED
    BY <1>1, Invariance, PTL

\* However long the sender holds rows back, an accepted row leaves its buffer
\* within an interval, two trains and a second of its timestamp, if any hosts are
\* configured.
THEOREM RowsAreSentSoon ==
  ASSUME Configured # {}
  PROVE  Spec => []BufferedForOneInterval
  <1>1. IInv => BufferedForOneInterval
    <2> SUFFICES ASSUME IInv, NEW x \in pending
                 PROVE  clock <= x.at + PingInterval + 2 * PingDeadline + 1
      BY DEF BufferedForOneInterval
    <2>1. /\ clock \in Nat /\ lastFlush \in Nat /\ nextPing \in Nat /\ x.at \in Nat
          /\ stamp[Monitor] \in Nat /\ PingInterval \in Nat /\ PingDeadline \in Nat
      BY PingAssumption DEF IInv, Holds, TypeOK, Rows, Fibers
    <2>2. lastFlush <= x.at + PingDeadline
      BY DEF IInv, Pace
    <2>3. CASE cycle[Monitor] = 0
      BY <2>1, <2>2, <2>3 DEF IInv, Pace, Clockwork
    <2>4. CASE cycle[Monitor] # 0
      BY <2>1, <2>2, <2>4 DEF IInv, Pace, Clockwork, Fibers
    <2> QED
      BY <2>3, <2>4
  <1> QED
    BY <1>1, Invariance, PTL

\* If hosts are configured and the live window is wide enough for an interval and the
\* trains at both its ends, as for intervals of at least two trains or of
\* LIVE_WINDOW_MIN_SECONDS less two trains, the live indicator has data as long as no
\* ended cycle is missing in the table.
THEOREM IndicatorIsFresh ==
  ASSUME Configured # {}, PingInterval + 2 * PingDeadline <= LiveWindow
  PROVE  Spec => []FreshWhileKeepingUp
  <1>1. IInv => FreshWhileKeepingUp
    <2> SUFFICES ASSUME IInv, NEW z \in Newest \cap accepted, Unseen \subseteq {cycle[Monitor]}
                 PROVE  LiveStatus # "noInfo"
      BY DEF FreshWhileKeepingUp
    <2>1. /\ clock \in Nat /\ nextPing \in Nat
          /\ cycle \in [Fibers -> Nat] /\ stamp \in [Fibers -> Nat]
          /\ PingInterval \in Nat /\ PingDeadline \in Nat /\ LiveWindow \in Nat
          /\ \A x \in settled : x.cycle \in Nat /\ x.at \in Nat
      BY PingAssumption DEF IInv, Holds, TypeOK, Rows, LiveWindow
    <2>2. Monitor \in Fibers /\ DOMAIN table \subseteq settled
      BY DEF Fibers, IInv, Buffers
    <2>3. z \in DOMAIN table /\ z \in accepted /\ \A y \in DOMAIN table : y.at <= z.at
      BY DEF Newest
    <2>4. z \in settled
      BY <2>2, <2>3
    <2>5. clock <= z.at + LiveWindow
      <3>1. CASE initial
        <4>1. nextPing <= z.at /\ clock <= nextPing + PingDeadline
          BY <2>3, <2>4, <3>1 DEF IInv, Recent
        <4> QED
          BY <2>1, <2>4, <4>1
      <3>2. CASE ~initial
        <4>1. PICK x \in settled :
                /\ x.by = Monitor
                /\ x.cycle # cycle[Monitor]
                /\ IF cycle[Monitor] = 0
                     THEN nextPing <= x.at + PingDeadline + PingInterval
                     ELSE stamp[Monitor] <= x.at + PingDeadline + PingInterval
          BY <2>4, <3>2 DEF IInv, Recent
        <4>2. x.cycle \notin Unseen
          BY <4>1
        <4>3. PICK y \in DOMAIN table : ~(x.cycle > y.cycle)
          BY <4>1, <4>2 DEF Unseen
        <4>4. x.cycle <= y.cycle /\ y \in settled
          BY <2>1, <2>2, <4>3
        <4>5. x.at <= y.at /\ y.at <= z.at
          BY <2>3, <4>4 DEF IInv, Order
        <4>6. clock <= x.at + PingInterval + 2 * PingDeadline
          BY <2>1, <2>2, <4>1 DEF IInv, Clockwork
        <4> QED
          BY <2>1, <2>4, <4>4, <4>5, <4>6
      <3> QED
        BY <3>1, <3>2
    <2>6. \E x \in Newest : x.at + LiveWindow >= clock
      BY <2>1, <2>4, <2>5
    <2> QED
      BY <2>6 DEF LiveStatus, CycleStatus
  <1> QED
    BY <1>1, Invariance, PTL

-----------------------------------------------------------------------------
(* Delivery.                                                               *)

\* A row that a ping leaves is offered: the sender holds or sends it, or nobody
\* takes it.
LEMMA SettlingOffers ==
  ASSUME Holds, Buffers, NEW r \in Fibers, NEW e \in Entries, NEW o \in Outcomes,
         PingSettles(r, e, o)
  PROVE  Delivery!Next
  <1> DEFINE row == Row(r, e, o)
  <1>1. /\ e \in waiting[r]
        /\ settled' = settled \cup {row}
        /\ UNCHANGED table
    BY DEF PingSettles
  <1>2. row \notin settled /\ Delivery!IsOfNewPing(row)
    <2>1. row \notin settled /\ \A x \in settled : x.cycle = cycle[r] => x.at = stamp[r] /\ x.entry # e
      BY <1>1, RowIsNew DEF Holds
    <2> QED
      BY <2>1, RowFields DEF Delivery!IsOfNewPing
  <1>3. UNCHANGED <<pending, sending>> \/ Append(row)
    BY DEF PingSettles, sender
  <1> HIDE DEF row
  <1>4. \/ UNCHANGED <<pending, InFlight>>
        \/ pending' = pending \cup {row} /\ UNCHANGED InFlight
        \/ pending' = {} /\ InFlight' = InFlight \cup pending \cup {row}
    BY <1>3 DEF Append, InFlight
  <1>5. Delivery!Offer(row)
    BY <1>1, <1>2, <1>4 DEF Delivery!Offer
  <1>6. row \in settled' \ settled
    BY <1>1, <1>2
  <1> QED
    BY <1>5, <1>6 DEF Delivery!Next

\* Insertions and copies mean the same in both modules.
LEMMA SameCopies ==
  /\ \A rows, n : Delivery!Inserted(table, rows, n) = Stored(rows, n)
  /\ \A x : Delivery!Copies(x, table) = Copies(x, table)
  BY DEF Delivery!Inserted, Delivery!Copies, Stored, Inserted, Copies

\* The sender and its connection deliver rows or lose them.
LEMMA SenderDelivers ==
  ASSUME Buffers, SenderStep \/ SendFails \/ CloseConnection \/ Disconnect,
         table \in [DOMAIN table -> Nat \ {0}]
  PROVE  Delivery!Next
  <1>1. ASSUME NEW request \in sending, SendSucceeds(request) \/ AnswerIsLost(request)
        PROVE  Delivery!Next
    <2>1. /\ request \in SUBSET InFlight
          /\ table' = Delivery!Inserted(table, request, 1)
          /\ UNCHANGED <<settled, pending>>
      BY <1>1, SameCopies DEF SendSucceeds, AnswerIsLost, InFlight, sender, history
    <2>2. CASE sending' = sending \ {request}
      <3>1. InFlight' \subseteq InFlight /\ request \cap InFlight' = {}
        BY <2>2 DEF Buffers, InFlight
      <3> QED
        BY <2>1, <3>1 DEF Delivery!Next, Delivery!Deliver
    <2>3. CASE sending' = sending /\ \A x \in request : Copies(x, table) < Retries
      <3>1. InFlight' = InFlight
        BY <2>3 DEF InFlight
      <3> QED
        BY <2>1, <2>3, <3>1, SameCopies DEF Delivery!Next, Delivery!Deliver
    <2> QED
      BY <1>1, <2>2, <2>3 DEF SendSucceeds, AnswerIsLost, sender
  <1>2. CASE SendFails
    <2>1. PICK stored \in SUBSET sending : table' = Stored(UNION stored, 1)
      BY <1>2 DEF SendFails
    <2>2. /\ UNION stored \in SUBSET InFlight
          /\ table' = Delivery!Inserted(table, UNION stored, 1)
          /\ InFlight' = {} /\ pending' = {} /\ UNCHANGED settled
      BY <1>2, <2>1, SameCopies DEF SendFails, InFlight
    <2> QED
      BY <2>2 DEF Delivery!Next, Delivery!Deliver
  <1>3. CASE CloseConnection
    <2>1. /\ \E n \in 0..Retries + 1 : table' = Delivery!Inserted(table, pending, n)
          /\ pending' = {} /\ UNCHANGED <<settled, InFlight>>
      BY <1>3, SameCopies DEF CloseConnection, InFlight, history
    <2> QED
      BY <2>1 DEF Delivery!Next, Delivery!Empty
  <1>4. CASE Disconnect
    <2>1. table = Delivery!Inserted(table, pending, 0)
      BY DEF Delivery!Inserted, Delivery!Copies
    <2>2. pending' = {} /\ UNCHANGED <<settled, InFlight, table>>
      BY <1>4 DEF Disconnect, InFlight, history
    <2>3. 0 \in 0..Retries + 1
      BY PingAssumption
    <2> QED
      BY <2>1, <2>2, <2>3 DEF Delivery!Next, Delivery!Empty
  <1> QED
    BY <1>1, <1>2, <1>3, <1>4 DEF SenderStep

\* The rows of executeHosts are delivered as RowDelivery promises: every step of the
\* cycles, the sender and the connection offers the row of a new ping, delivers rows
\* that were sent, so often as retries account for, loses some, or leaves them alone.
THEOREM RowsAreDeliveredAsPromised == Spec => DeliversRows
  <1>1. Init => Delivery!Init
    BY DEF Init, Delivery!Init, InFlight
  <1>2. ASSUME IInv, [Next]_vars
        PROVE  Delivery!Next \/ UNCHANGED <<settled, pending, InFlight, table>>
    <2>1. Holds /\ Buffers /\ table \in [DOMAIN table -> Nat \ {0}]
      BY <1>2 DEF IInv, Holds, TypeOK
    <2>2. CASE SenderStep \/ SendFails \/ CloseConnection \/ Disconnect
      BY <2>1, <2>2, SenderDelivers
    <2>3. ASSUME NEW r \in Fibers, NEW e \in Entries, NEW o \in Outcomes, PingSettles(r, e, o)
          PROVE  Delivery!Next
      BY <2>1, <2>3, SettlingOffers
    <2>4. CASE BeginScheduled \/ ScheduledCycleEnds \/ Connect \/ Tick \/ UNCHANGED vars
      BY <2>4 DEF BeginScheduled, ScheduledCycleEnds, Connect, Tick, vars, sender, InFlight,
                  history
    <2>5. ASSUME NEW t \in Triggers, Trigger(t) \/ TriggerEnds(t)
          PROVE  UNCHANGED <<settled, pending, InFlight, table>>
      BY <2>5 DEF Trigger, TriggerEnds, sender, InFlight, history
    <2> QED
      BY <1>2, <2>2, <2>3, <2>4, <2>5 DEF Next, FiberStep
  <1> QED
    BY <1>1, <1>2, Invariance, PTL DEF Spec, DeliversRows, Delivery!Spec
=============================================================================
