------------------------------ MODULE Timeline ------------------------------
(***************************************************************************)
(* The connectivity timeline, from the cycles in the database to the bars  *)
(* on the screen: queries.ts classifies cycles and counts them in buckets, *)
(* connectivity-status.ts turns the buckets into points, the uptime and    *)
(* the coverage, and connectivity.ts with charts/timeline.ts lays the      *)
(* points on a grid of slots and merges equal neighbours into bars.  Both  *)
(* sides align to the grid of shared/timeline.ts.                          *)
(*                                                                         *)
(* Time is in whole seconds, one cycle in each at most (SAMPLE BY 1s).     *)
(***************************************************************************)

EXTENDS Naturals, FiniteSets, SequencesExt

CONSTANTS
  Granularities,   \* the widths of a bucket
  DegradedShare,   \* DEGRADED_BUCKET_MIN_SHARE, in percent
  LastTime,        \* bound: the monitor is watched up to here
  LastBound,       \* bound: windows end here at the latest
  None

ASSUME TimelineAssumption ==
  /\ Granularities \subseteq Nat \ {0}
  /\ DegradedShare \in 1..100
  /\ LastTime \in Nat
  /\ LastBound \in Nat
  /\ None \notin Nat

VARIABLES
  now,
  cycles,    \* the status of the cycle of every second that has one
  firstRow,  \* when the first row of the database was stored
  asking,    \* whether FetchEarliestData is in flight
  earliest,  \* model.maybeEarliestDataMs
  answer     \* the data of model.connectivityStatus, and when it was asked (history)

vars == <<now, cycles, firstRow, asking, earliest, answer>>

Statuses == {"up", "degraded", "down"}

-----------------------------------------------------------------------------
(* The grid.                                                               *)

\* alignTimestampToMs.
Aligned(t, g) == (t \div g) * g

\* Mutant: the span is counted instead of the grid.
BucketsInSpan(start, end, g) == IF end > start THEN (end - start) \div g ELSE 0

\* expectedBucketCount, and slotCount of fillTimeline.
BucketCount(start, end, g) ==
  IF Aligned(end, g) > Aligned(start, g)
  THEN (Aligned(end, g) - Aligned(start, g)) \div g ELSE 0

\* The slots of fillTimeline, by their timestamps.
SlotTimes(start, end, g) ==
  [i \in 1..BucketCount(start, end, g) |-> Aligned(start, g) + (i - 1) * g]

-----------------------------------------------------------------------------
(* The server.                                                             *)

\* The cycles a query finds: both its bounds are inclusive.
Found(start, end) == {t \in DOMAIN cycles : start <= t /\ t <= end}

Count(ts, status) == Cardinality({t \in ts : cycles[t] = status})

\* Mutant: the share of a bucket is compared the wrong way round.
BucketStatusSwapped(ts) ==
  IF Count(ts, "down") > 0 THEN "down"
  ELSE IF Count(ts, "degraded") * 100 <= DegradedShare * Cardinality(ts) THEN "degraded"
  ELSE "up"

\* The status of a point.
BucketStatus(ts) ==
  IF Count(ts, "down") > 0 THEN "down"
  ELSE IF Count(ts, "degraded") * 100 >= DegradedShare * Cardinality(ts) THEN "degraded"
  ELSE "up"

\* The points of a response, by their buckets: none where there is no cycle.
Points(start, end, g) ==
  [b \in {Aligned(t, g) : t \in Found(start, end)} |->
     BucketStatus({t \in Found(start, end) : Aligned(t, g) = b})]

Response(start, end, g) ==
  [start |-> start, end |-> end, granularity |-> g, asked |-> now,
   points   |-> Points(start, end, g),
   expected |-> BucketCount(start, end, g),
   observed |-> Cardinality(DOMAIN Points(start, end, g)),
   observedCycles |-> Cardinality(Found(start, end)),
   up       |-> Count(Found(start, end), "up"),
   degraded |-> Count(Found(start, end), "degraded")]

-----------------------------------------------------------------------------
(* The dashboard.                                                          *)

\* Mutant: the earliest sample is not aligned.
EmptySlotStatusUnaligned(slot, g) ==
  IF earliest # None /\ slot < earliest THEN "notMonitored" ELSE "noInfo"

\* What a slot without a point shows: the slot of the first sample is monitored.
EmptySlotStatus(slot, g) ==
  IF earliest # None /\ slot < Aligned(earliest, g) THEN "notMonitored" ELSE "noInfo"

\* buildSegments of the answer.
Segments ==
  LET slots == SlotTimes(answer.start, answer.end, answer.granularity)
  IN  [i \in DOMAIN slots |->
         [at     |-> slots[i],
          status |-> IF slots[i] \in DOMAIN answer.points THEN answer.points[slots[i]]
                     ELSE EmptySlotStatus(slots[i], answer.granularity),
          count  |-> 1]]

\* Mutant: a bar keeps the length of its first slot.
MergeUncounted(segments) ==
  FoldLeft(LAMBDA merged, segment :
             IF merged # <<>> /\ Last(merged).status = segment.status THEN merged
             ELSE Append(merged, segment),
           <<>>, segments)

\* mergeSegments.
MergeSegments(segments) ==
  FoldLeft(LAMBDA merged, segment :
             IF merged # <<>> /\ Last(merged).status = segment.status
             THEN [merged EXCEPT ![Len(merged)].count = @ + segment.count]
             ELSE Append(merged, segment),
           <<>>, segments)

-----------------------------------------------------------------------------
TypeOK ==
  /\ now \in 0..LastTime
  /\ DOMAIN cycles \subseteq 0..now
  /\ \A t \in DOMAIN cycles : cycles[t] \in Statuses
  /\ asking \in BOOLEAN
  /\ firstRow \in 0..now \cup {None}
  /\ \A t \in DOMAIN cycles : firstRow # None /\ firstRow <= t
  /\ earliest \in {None, firstRow}
  /\ answer # None =>
       /\ answer.start \in 0..LastBound /\ answer.end \in answer.start..LastBound
       /\ answer.granularity \in Granularities
       /\ answer.asked \in 0..now
       /\ \A b \in DOMAIN answer.points : answer.points[b] \in Statuses /\ b <= answer.end
       /\ answer.observed <= answer.observedCycles
       /\ answer.up + answer.degraded <= answer.observedCycles

Init ==
  /\ now = 0
  /\ cycles = <<>>
  /\ firstRow = None
  /\ asking = TRUE
  /\ earliest = None
  /\ answer = None

\* The rows of a cycle of this second are in the database.
Cycle(status) ==
  /\ now < LastTime
  /\ cycles' = [t \in DOMAIN cycles \cup {now} |-> IF t = now THEN status ELSE cycles[t]]
  /\ firstRow' = IF firstRow = None THEN now ELSE firstRow
  /\ now' = now + 1
  /\ UNCHANGED <<asking, earliest, answer>>

\* The row of a speed test.  Only the first row of all plays a part here.
FirstSpeedTest ==
  /\ firstRow = None
  /\ firstRow' = now
  /\ UNCHANGED <<now, cycles, asking, earliest, answer>>

\* A second without a cycle: the monitor is between two of them, or off.
Silence ==
  /\ now < LastTime
  /\ now' = now + 1
  /\ UNCHANGED <<cycles, firstRow, asking, earliest, answer>>

LoadPage ==
  /\ asking' = TRUE
  /\ earliest' = None
  /\ answer' = None
  /\ UNCHANGED <<now, cycles, firstRow>>

\* Mutant: an empty database has the epoch for its earliest timestamp.
SucceededFetchEpoch ==
  /\ asking
  /\ asking' = FALSE
  /\ earliest' = IF firstRow = None THEN 0 ELSE firstRow
  /\ UNCHANGED <<now, cycles, firstRow, answer>>

\* The database is asked once after a page load for the timestamp of its first
\* row, of whatever source.
SucceededFetchEarliestData ==
  /\ asking
  /\ asking' = FALSE
  /\ earliest' = firstRow
  /\ UNCHANGED <<now, cycles, firstRow, answer>>

FailedFetchEarliestData ==
  /\ asking
  /\ asking' = FALSE
  /\ UNCHANGED <<now, cycles, firstRow, earliest, answer>>

\* A window is fetched: a preset ends now, a custom one on any day.
FetchConnectivityStatus(start, end, g) ==
  /\ start <= end
  /\ answer' = Response(start, end, g)
  /\ UNCHANGED <<now, cycles, firstRow, asking, earliest>>

Next ==
  \/ \E status \in Statuses : Cycle(status)
  \/ FirstSpeedTest
  \/ Silence
  \/ LoadPage
  \/ SucceededFetchEarliestData \/ FailedFetchEarliestData
  \/ \E start, end \in 0..LastBound, g \in Granularities : FetchConnectivityStatus(start, end, g)

Spec == Init /\ [][Next]_vars

-----------------------------------------------------------------------------
(* Correctness.                                                            *)

Shown == {Segments[i] : i \in DOMAIN Segments}

\* The coverage counts slots and coloured slots of the chart, and with the coloured
\* ones the bucket the window ends in, if it has a point.
CoverageCountsSlots ==
  LET coloured == {s \in Shown : s.status \in Statuses}
      last == Aligned(answer.end, answer.granularity)
  IN  /\ answer.expected = Cardinality(Shown)
      /\ answer.observed =
           Cardinality(coloured) + (IF last \in DOMAIN answer.points THEN 1 ELSE 0)

\* Server and chart agree on the grid although each counts it for itself: every
\* point the server sends has its slot, but for the bucket the window ends in,
\* every slot overlaps the window, and the coverage is off by that one bucket at
\* most.
PointsFindTheirSlots ==
  answer # None =>
    LET slots == {s.at : s \in Shown}
        g == answer.granularity
    IN  /\ DOMAIN answer.points \ slots \subseteq {Aligned(answer.end, g)}
        /\ \A s \in slots : s + g > answer.start /\ s < answer.end
        /\ CoverageCountsSlots

\* The colours tell the truth: a slot is grey exactly if the window had no cycle in
\* it when it was fetched, and "before monitoring started" only if the first sample
\* there is comes after the slot.
GreyMeansUnobserved ==
  answer # None =>
    \A s \in Shown :
      LET slot == s.at..(s.at + answer.granularity - 1)
          known == {t \in DOMAIN cycles : t < answer.asked /\ t \in answer.start..answer.end}
      IN  /\ s.status \in Statuses <=> known \cap slot # {}
          /\ s.status = "notMonitored" => \A t \in DOMAIN cycles : \A u \in slot : t > u

\* The bars are the slots: they follow one another without a gap from the first
\* slot to the last, differ from their neighbours and have their slots' status.
BarsAreTheSlots ==
  answer # None =>
    LET bars == MergeSegments(Segments)
        g == answer.granularity
        end(i) == bars[i].at + bars[i].count * g
    IN  /\ (bars = <<>>) = (Segments = <<>>)
        /\ bars # <<>> => bars[1].at = Segments[1].at
        /\ bars # <<>> => end(Len(bars)) = Last(Segments).at + g
        /\ \A i \in 1..Len(bars) - 1 : end(i) = bars[i + 1].at /\ bars[i].status # bars[i + 1].status
        /\ \A i \in DOMAIN bars, s \in Shown :
             bars[i].at <= s.at /\ s.at < end(i) => s.status = bars[i].status

\* The headline agrees with the bars, although one counts cycles and the others
\* buckets: an uptime of 100% leaves no coloured bar but "up", a "down" bar shows
\* in the availability, and no uptime at all leaves only grey.
HeadlineAgreesWithBars ==
  answer # None =>
    \A s \in Shown :
      s.status \in Statuses =>
        /\ answer.observedCycles > 0
        /\ answer.up = answer.observedCycles => s.status = "up"
        /\ s.status = "down" => answer.up + answer.degraded < answer.observedCycles

-----------------------------------------------------------------------------
(* What the documentation says, and the code does not keep.                *)

\* README.md:167: the coverage says how much of the window contains data and is
\* shown whenever it falls short, so a full coverage leaves no slot grey.
CoverageTellsOfGaps ==
  answer # None =>
    (answer.expected > 0 /\ answer.observed >= answer.expected =>
       \A s \in Shown : s.status \in Statuses)

=============================================================================
