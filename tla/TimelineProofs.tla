--------------------------- MODULE TimelineProofs ---------------------------
(***************************************************************************)
(* The timeline for any history, windows and widths of a bucket: server    *)
(* and chart put every cycle in the same place, and what they say of it    *)
(* agrees.                                                                 *)
(*                                                                         *)
(* Everything rests on the grid (multiples of a width g have a distance of *)
(* g at least, and Aligned picks the one below) and on what an answer says *)
(* of the history it was asked of (AnswersHistory, Headline).  What        *)
(* MergeSegments folds the slots into is shown slot by slot: the first     *)
(* slot of all that would break the bars cannot (LeastElement).            *)
(***************************************************************************)
EXTENDS Timeline, FiniteSetTheorems, WellFoundedInduction, TLAPS

\* The cycles the answer was given from.
Known == {t \in DOMAIN cycles : t < answer.asked /\ t \in answer.start..answer.end}

Past == \A t \in DOMAIN cycles : t < now

\* The points are the buckets of the cycles there were, and the server counts them.
AnswersHistory ==
  answer # None =>
    /\ DOMAIN answer.points = {Aligned(t, answer.granularity) : t \in Known}
    /\ IsFiniteSet(DOMAIN answer.points)
    /\ answer.observed = Cardinality(DOMAIN answer.points)
    /\ answer.expected = BucketCount(answer.start, answer.end, answer.granularity)

\* The counts beside the points agree with each of them.
Headline ==
  answer # None =>
    \A b \in DOMAIN answer.points :
      /\ answer.observedCycles > 0
      /\ answer.up = answer.observedCycles => answer.points[b] = "up"
      /\ answer.points[b] = "down" => answer.up + answer.degraded < answer.observedCycles

IInv == TypeOK /\ Past /\ AnswersHistory /\ Headline

-----------------------------------------------------------------------------
(* The grid.                                                               *)

LEMMA Division ==
  ASSUME NEW t \in Nat, NEW g \in Nat \ {0}
  PROVE  /\ t \div g \in Nat
         /\ (t \div g) * g <= t
         /\ t < (t \div g) * g + g
  OBVIOUS

LEMMA MultiplesAreApart ==
  ASSUME NEW i \in Nat, NEW j \in Nat, NEW g \in Nat \ {0}, i < j
  PROVE  i * g + g <= j * g
  <1>1. (j - (i + 1)) * g \in Nat
    <2>1. j - (i + 1) \in Nat
      OBVIOUS
    <2> QED
      BY <2>1
  <1>2. j * g = i * g + g + (j - (i + 1)) * g
    OBVIOUS
  <1> QED
    BY <1>1, <1>2

LEMMA AlignedBounds ==
  ASSUME NEW t \in Nat, NEW g \in Nat \ {0}
  PROVE  Aligned(t, g) \in Nat /\ Aligned(t, g) <= t /\ t < Aligned(t, g) + g
  BY Division DEF Aligned

\* The one multiple a second belongs to.
LEMMA AlignedUnique ==
  ASSUME NEW t \in Nat, NEW g \in Nat \ {0}, NEW k \in Nat, k * g <= t, t < k * g + g
  PROVE  t \div g = k
  <1> DEFINE q == t \div g
  <1>1. q \in Nat /\ q * g <= t /\ t < q * g + g
    BY Division
  <1> HIDE DEF q
  <1>2. ~(q < k)
    <2> SUFFICES ASSUME q < k PROVE FALSE
      OBVIOUS
    <2>1. q * g + g <= k * g
      BY <1>1, MultiplesAreApart
    <2>2. q * g \in Nat /\ k * g \in Nat
      BY <1>1
    <2> QED
      BY <1>1, <2>1, <2>2
  <1>3. ~(k < q)
    <2> SUFFICES ASSUME k < q PROVE FALSE
      OBVIOUS
    <2>1. k * g + g <= q * g
      BY <1>1, MultiplesAreApart
    <2>2. q * g \in Nat /\ k * g \in Nat
      BY <1>1
    <2> QED
      BY <1>1, <2>1, <2>2
  <1>4. q = k
    BY <1>1, <1>2, <1>3
  <1> QED
    BY <1>4 DEF q

LEMMA DivisionIsMonotone ==
  ASSUME NEW s \in Nat, NEW t \in Nat, s <= t, NEW g \in Nat \ {0}
  PROVE  s \div g <= t \div g
  <1> DEFINE p == s \div g
             q == t \div g
  <1>1. /\ p \in Nat /\ p * g <= s /\ s < p * g + g
        /\ q \in Nat /\ q * g <= t /\ t < q * g + g
    BY Division
  <1> HIDE DEF p, q
  <1>2. ~(q < p)
    <2> SUFFICES ASSUME q < p PROVE FALSE
      OBVIOUS
    <2>1. q * g + g <= p * g
      BY <1>1, MultiplesAreApart
    <2>2. q * g \in Nat /\ p * g \in Nat
      BY <1>1
    <2> QED
      BY <1>1, <2>1, <2>2
  <1>3. p <= q
    BY <1>1, <1>2
  <1> QED
    BY <1>3 DEF p, q

LEMMA MultipleOfWidth ==
  ASSUME NEW n \in Nat, NEW g \in Nat \ {0}
  PROVE  (n * g) \div g = n
  <1>1. n * g \in Nat /\ n * g <= n * g /\ n * g < n * g + g
    OBVIOUS
  <1> QED
    BY <1>1, AlignedUnique

LEMMA SameMultiple ==
  ASSUME NEW i \in Nat, NEW j \in Nat, NEW g \in Nat \ {0}, i * g = j * g
  PROVE  i = j
  <1>1. (i * g) \div g = i /\ (j * g) \div g = j
    BY MultipleOfWidth
  <1> QED
    BY <1>1

\* The slots are the multiples from the bucket the window starts in to the one
\* before the bucket it ends in.
LEMMA SlotsAreTheGrid ==
  ASSUME NEW start \in Nat, NEW end \in Nat, start <= end, NEW g \in Nat \ {0}
  PROVE  /\ BucketCount(start, end, g) \in Nat
         /\ BucketCount(start, end, g) = (end \div g) - (start \div g)
         /\ \A i \in 1..BucketCount(start, end, g) :
              SlotTimes(start, end, g)[i] = ((start \div g) + (i - 1)) * g
  <1> DEFINE p == start \div g
             q == end \div g
  <1>1. p \in Nat /\ q \in Nat /\ p <= q
    BY Division, DivisionIsMonotone
  <1>2. Aligned(start, g) = p * g /\ Aligned(end, g) = q * g
    BY DEF Aligned
  <1> HIDE DEF p, q
  <1>3. BucketCount(start, end, g) = q - p
    <2>1. CASE p = q
      BY <1>1, <1>2, <2>1 DEF BucketCount
    <2>2. CASE p < q
      <3>1. p * g + g <= q * g
        BY <1>1, <2>2, MultiplesAreApart
      <3>2. p * g \in Nat /\ q * g \in Nat
        BY <1>1
      <3>3. q * g - p * g = (q - p) * g /\ q - p \in Nat
        BY <1>1, <2>2
      <3>4. ((q - p) * g) \div g = q - p
        BY <3>3, MultipleOfWidth
      <3> QED
        BY <1>2, <3>1, <3>2, <3>3, <3>4 DEF BucketCount
    <2> QED
      BY <1>1, <2>1, <2>2
  <1>4. ASSUME NEW i \in 1..BucketCount(start, end, g)
        PROVE  SlotTimes(start, end, g)[i] = (p + (i - 1)) * g
    <2>1. SlotTimes(start, end, g)[i] = p * g + (i - 1) * g
      BY <1>2 DEF SlotTimes
    <2>2. i \in Nat
      BY <1>1, <1>3
    <2> QED
      BY <1>1, <2>1, <2>2
  <1> QED
    BY <1>1, <1>3, <1>4 DEF p, q

-----------------------------------------------------------------------------
(* The slots of an answer.                                                 *)

LEMMA AnswerTypes ==
  ASSUME TypeOK, answer # None
  PROVE  /\ answer.start \in Nat /\ answer.end \in Nat /\ answer.start <= answer.end
         /\ answer.granularity \in Nat \ {0}
         /\ answer.asked \in Nat
         /\ \A b \in DOMAIN answer.points : answer.points[b] \in Statuses
         /\ \A t \in DOMAIN cycles : t \in Nat
  <1>1. /\ answer.start \in 0..LastBound /\ answer.end \in answer.start..LastBound
        /\ answer.granularity \in Granularities
        /\ answer.asked \in 0..now
        /\ \A b \in DOMAIN answer.points : answer.points[b] \in Statuses
    BY DEF TypeOK
  <1>2. /\ LastBound \in Nat /\ now \in Nat
        /\ Granularities \subseteq Nat \ {0}
        /\ DOMAIN cycles \subseteq 0..now
    BY TimelineAssumption DEF TypeOK
  <1>3. answer.start \in Nat /\ answer.end \in Nat /\ answer.start <= answer.end
    BY <1>1, <1>2
  <1>4. answer.granularity \in Nat \ {0}
    BY <1>1, <1>2
  <1>6. answer.asked \in Nat
    <2>1. answer.asked \in 0..now
      BY <1>1
    <2> QED
      BY <1>2, <2>1
  <1>5. ASSUME NEW t \in DOMAIN cycles PROVE t \in Nat
    <2>1. t \in 0..now
      BY <1>2
    <2> QED
      BY <1>2, <2>1
  <1> QED
    BY <1>1, <1>3, <1>4, <1>5, <1>6

LEMMA ShownSlots ==
  ASSUME TypeOK, answer # None
  PROVE  LET g == answer.granularity
             p == answer.start \div g
             q == answer.end \div g
         IN  /\ \A s \in Shown :
                  /\ \E k \in Nat : p <= k /\ k < q /\ s.at = k * g
                  /\ s.status = IF s.at \in DOMAIN answer.points THEN answer.points[s.at]
                                ELSE EmptySlotStatus(s.at, g)
             /\ \A k \in Nat : p <= k /\ k < q => \E s \in Shown : s.at = k * g
  <1> DEFINE g == answer.granularity
             p == answer.start \div g
             q == answer.end \div g
             slots == SlotTimes(answer.start, answer.end, g)
  <1>1. g \in Nat \ {0} /\ p \in Nat /\ q \in Nat
    BY AnswerTypes, Division
  <1>2. /\ DOMAIN slots = 1..(q - p)
        /\ \A i \in 1..(q - p) : slots[i] = (p + (i - 1)) * g
    <2>1. /\ BucketCount(answer.start, answer.end, g) = q - p
          /\ \A i \in 1..BucketCount(answer.start, answer.end, g) :
               slots[i] = (p + (i - 1)) * g
      BY AnswerTypes, SlotsAreTheGrid
    <2>2. DOMAIN slots = 1..BucketCount(answer.start, answer.end, g)
      BY DEF SlotTimes
    <2> QED
      BY <2>1, <2>2
  <1>3. /\ DOMAIN Segments = DOMAIN slots
        /\ \A i \in DOMAIN slots :
             /\ Segments[i].at = slots[i]
             /\ Segments[i].status = IF slots[i] \in DOMAIN answer.points
                                     THEN answer.points[slots[i]]
                                     ELSE EmptySlotStatus(slots[i], g)
    BY DEF Segments
  <1> HIDE DEF g, p, q, slots
  <1>4. ASSUME NEW s \in Shown
        PROVE  /\ \E k \in Nat : p <= k /\ k < q /\ s.at = k * g
               /\ s.status = IF s.at \in DOMAIN answer.points THEN answer.points[s.at]
                             ELSE EmptySlotStatus(s.at, g)
    <2>1. PICK i \in DOMAIN slots : s = Segments[i]
      BY <1>3 DEF Shown
    <2>2. s.at = (p + (i - 1)) * g /\ i \in 1..(q - p)
      BY <1>2, <1>3, <2>1
    <2>3. p + (i - 1) \in Nat /\ p <= p + (i - 1) /\ p + (i - 1) < q
      BY <1>1, <2>2
    <2> QED
      BY <1>3, <2>1, <2>2, <2>3
  <1>5. ASSUME NEW k \in Nat, p <= k, k < q
        PROVE  \E s \in Shown : s.at = k * g
    <2> DEFINE i == k - p + 1
    <2>1. i \in 1..(q - p) /\ p + (i - 1) = k
      BY <1>1, <1>5
    <2>2. Segments[i] \in Shown /\ Segments[i].at = k * g
      BY <1>2, <1>3, <2>1 DEF Shown
    <2> QED
      BY <2>2
  <1> QED
    BY <1>4, <1>5 DEF g, p, q

\* A slot has a point exactly if the server knew a cycle in it.
LEMMA PointsOfSlots ==
  ASSUME TypeOK, AnswersHistory, answer # None, NEW s \in Shown
  PROVE  LET g == answer.granularity
         IN  /\ s.at \in Nat
             /\ \E k \in Nat : s.at = k * g
             /\ s.at \in DOMAIN answer.points <=> Known \cap (s.at..(s.at + g - 1)) # {}
             /\ s.status \in Statuses <=> s.at \in DOMAIN answer.points
             /\ s.status = "notMonitored" =>
                  earliest # None /\ s.at < Aligned(earliest, g)
  <1> DEFINE g == answer.granularity
  <1>1. PICK k \in Nat : s.at = k * g
    BY ShownSlots
  <1>2. g \in Nat \ {0}
    BY AnswerTypes
  <1>3. s.at \in Nat
    BY <1>1, <1>2
  <1>4. \A t \in Known : t \in Nat
    BY AnswerTypes DEF Known
  <1>5. DOMAIN answer.points = {Aligned(t, g) : t \in Known}
    BY DEF AnswersHistory
  <1>6. s.status = IF s.at \in DOMAIN answer.points THEN answer.points[s.at]
                   ELSE EmptySlotStatus(s.at, g)
    BY ShownSlots
  <1> HIDE DEF g
  <1>7. ASSUME NEW t \in Known
        PROVE  Aligned(t, g) = s.at <=> t \in s.at..(s.at + g - 1)
    <2>1. t \in Nat
      BY <1>4
    <2>2. ASSUME Aligned(t, g) = s.at PROVE t \in s.at..(s.at + g - 1)
      BY <1>2, <1>3, <2>1, <2>2, AlignedBounds
    <2>3. ASSUME t \in s.at..(s.at + g - 1) PROVE Aligned(t, g) = s.at
      <3>1. k * g <= t /\ t < k * g + g
        BY <1>1, <1>2, <1>3, <2>1, <2>3
      <3>2. t \div g = k
        BY <1>2, <2>1, <3>1, AlignedUnique
      <3> QED
        BY <1>1, <3>2 DEF Aligned
    <2> QED
      BY <2>2, <2>3
  <1>8. s.at \in DOMAIN answer.points <=> Known \cap (s.at..(s.at + g - 1)) # {}
    BY <1>5, <1>7
  <1>9. EmptySlotStatus(s.at, g) \in {"notMonitored", "noInfo"}
    BY DEF EmptySlotStatus
  <1>10. s.status \in Statuses <=> s.at \in DOMAIN answer.points
    BY <1>6, <1>9, AnswerTypes DEF Statuses
  <1>11. s.status = "notMonitored" => earliest # None /\ s.at < Aligned(earliest, g)
    <2> SUFFICES ASSUME s.status = "notMonitored"
                 PROVE  earliest # None /\ s.at < Aligned(earliest, g)
      OBVIOUS
    <2>1. s.status \notin Statuses
      BY DEF Statuses
    <2>2. EmptySlotStatus(s.at, g) = "notMonitored"
      BY <1>6, <1>10, <2>1
    <2> QED
      BY <2>2 DEF EmptySlotStatus
  <1> QED
    BY <1>1, <1>3, <1>8, <1>10, <1>11 DEF g

LEMMA OneToOne ==
  ASSUME NEW S, NEW T, NEW f \in [S -> T], IsFiniteSet(S),
         \A y \in T : \E x \in S : f[x] = y,
         \A x, y \in S : f[x] = f[y] => x = y
  PROVE  IsFiniteSet(T) /\ Cardinality(T) = Cardinality(S)
  <1>1. f \in Surjection(S, T) /\ f \in Injection(S, T)
    BY DEF Surjection, Injection, IsInjective
  <1> QED
    BY <1>1, FS_Surjection

\* Expected buckets are the slots, observed ones the coloured slots and, if it has a
\* point, the bucket the window ends in.
LEMMA CoverageIsOfTheSlots ==
  ASSUME TypeOK, AnswersHistory, answer # None
  PROVE  CoverageCountsSlots
  <1> DEFINE g == answer.granularity
             p == answer.start \div g
             q == answer.end \div g
             n == BucketCount(answer.start, answer.end, g)
             slots == SlotTimes(answer.start, answer.end, g)
             coloured == {s \in Shown : s.status \in Statuses}
             last == Aligned(answer.end, g)
  <1>1. /\ g \in Nat \ {0} /\ p \in Nat /\ q \in Nat
        /\ answer.start \in Nat /\ answer.end \in Nat /\ answer.start <= answer.end
        /\ \A t \in DOMAIN cycles : t \in Nat
    BY AnswerTypes, Division
  <1>2. /\ n \in Nat
        /\ \A i \in 1..n : slots[i] = (p + (i - 1)) * g
    BY <1>1, SlotsAreTheGrid
  <1>3. /\ DOMAIN Segments = 1..n
        /\ \A i \in 1..n : Segments[i].at = slots[i]
    BY DEF Segments, SlotTimes
  <1>4. IsFiniteSet(Shown) /\ Cardinality(Shown) = n
    <2> DEFINE f == [i \in 1..n |-> Segments[i]]
    <2>1. f \in [1..n -> Shown] /\ \A y \in Shown : \E i \in 1..n : f[i] = y
      BY <1>3 DEF Shown
    <2>2. ASSUME NEW i \in 1..n, NEW j \in 1..n, f[i] = f[j]
          PROVE  i = j
      <3>1. (p + (i - 1)) * g = (p + (j - 1)) * g
        BY <1>2, <1>3, <2>2
      <3>2. p + (i - 1) \in Nat /\ p + (j - 1) \in Nat
        BY <1>1, <1>2
      <3>3. p + (i - 1) = p + (j - 1)
        BY <1>1, <3>1, <3>2, SameMultiple
      <3> QED
        BY <1>1, <1>2, <3>3
    <2>3. IsFiniteSet(1..n) /\ Cardinality(1..n) = n
      BY <1>2, FS_Interval
    <2> HIDE DEF f, n
    <2> QED
      BY <2>1, <2>2, <2>3, OneToOne
  <1>5. /\ IsFiniteSet(coloured)
        /\ IsFiniteSet(DOMAIN answer.points \ {last})
        /\ Cardinality(coloured) = Cardinality(DOMAIN answer.points \ {last})
    <2> DEFINE f == [s \in coloured |-> s.at]
    <2>1. IsFiniteSet(coloured)
      BY <1>4, FS_Subset
    <2>2. ASSUME NEW s \in coloured
          PROVE  s.at \in DOMAIN answer.points \ {last}
      <3>1. PICK k \in Nat : k < q /\ s.at = k * g
        BY ShownSlots
      <3>2. s.at # last
        BY <1>1, <3>1, SameMultiple DEF Aligned
      <3> QED
        BY <3>2, PointsOfSlots
    <2>3. ASSUME NEW b \in DOMAIN answer.points \ {last}
          PROVE  \E s \in coloured : f[s] = b
      <3>1. PICK t \in Known : b = Aligned(t, g)
        BY DEF AnswersHistory
      <3>2. t \in Nat /\ answer.start <= t /\ t <= answer.end
        BY <1>1 DEF Known
      <3>3. p <= t \div g /\ t \div g <= q /\ t \div g \in Nat
        BY <1>1, <3>2, DivisionIsMonotone, Division
      <3>4. t \div g # q
        BY <3>1 DEF Aligned
      <3>5. PICK s \in Shown : s.at = (t \div g) * g
        BY <1>1, <3>3, <3>4, ShownSlots
      <3>6. s.at = b
        BY <3>1, <3>5 DEF Aligned
      <3>7. s \in coloured
        BY <3>6, PointsOfSlots
      <3> QED
        BY <3>6, <3>7
    <2>4. ASSUME NEW s \in coloured, NEW u \in coloured, s.at = u.at
          PROVE  s = u
      <3>1. PICK i \in 1..n, j \in 1..n : s = Segments[i] /\ u = Segments[j]
        BY <1>3 DEF Shown
      <3>2. (p + (i - 1)) * g = (p + (j - 1)) * g
        BY <1>2, <1>3, <2>4, <3>1
      <3>3. p + (i - 1) \in Nat /\ p + (j - 1) \in Nat
        BY <1>1, <1>2
      <3>4. p + (i - 1) = p + (j - 1)
        BY <1>1, <3>2, <3>3, SameMultiple
      <3> QED
        BY <1>1, <1>2, <3>1, <3>4
    <2>5. f \in [coloured -> DOMAIN answer.points \ {last}]
      BY <2>2
    <2>6. \A x, y \in coloured : f[x] = f[y] => x = y
      BY <2>4
    <2> HIDE DEF f, coloured, last
    <2> QED
      BY <2>1, <2>3, <2>5, <2>6, OneToOne
  <1>6. /\ IsFiniteSet(DOMAIN answer.points)
        /\ answer.observed = Cardinality(DOMAIN answer.points)
        /\ answer.expected = n
    BY DEF AnswersHistory
  <1>7. answer.observed =
          Cardinality(coloured) + (IF last \in DOMAIN answer.points THEN 1 ELSE 0)
    <2> HIDE DEF coloured, last
    <2>1. /\ Cardinality(DOMAIN answer.points) \in Nat
          /\ Cardinality(DOMAIN answer.points \ {last}) =
               IF last \in DOMAIN answer.points THEN Cardinality(DOMAIN answer.points) - 1
               ELSE Cardinality(DOMAIN answer.points)
      BY <1>6, FS_RemoveElement, FS_CardinalityType
    <2> QED
      BY <1>5, <1>6, <2>1
  <1> QED
    BY <1>4, <1>6, <1>7 DEF CoverageCountsSlots

-----------------------------------------------------------------------------
(* What a response counts.                                                 *)

LEMMA CountType ==
  ASSUME NEW ts, IsFiniteSet(ts), NEW status
  PROVE  /\ IsFiniteSet({t \in ts : cycles[t] = status})
         /\ Count(ts, status) \in Nat
         /\ Count(ts, status) = 0 <=> \A t \in ts : cycles[t] # status
  <1>1. IsFiniteSet({t \in ts : cycles[t] = status})
    BY FS_Subset
  <1>2. Count(ts, status) \in Nat
    BY <1>1, FS_CardinalityType DEF Count
  <1>3. Count(ts, status) = 0 <=> {t \in ts : cycles[t] = status} = {}
    BY <1>1, FS_EmptySet DEF Count
  <1> QED
    BY <1>1, <1>2, <1>3

LEMMA UpAndDegraded ==
  ASSUME NEW ts, IsFiniteSet(ts)
  PROVE  /\ Count(ts, "up") + Count(ts, "degraded") <= Cardinality(ts)
         /\ Count(ts, "up") = Cardinality(ts) => \A t \in ts : cycles[t] = "up"
         /\ (\E t \in ts : cycles[t] = "down") =>
              Count(ts, "up") + Count(ts, "degraded") < Cardinality(ts)
  <1> DEFINE ups == {t \in ts : cycles[t] = "up"}
             degs == {t \in ts : cycles[t] = "degraded"}
  <1>1. IsFiniteSet(ups) /\ IsFiniteSet(degs)
    BY FS_Subset
  <1>2. ups \cap degs = {}
    OBVIOUS
  <1>3. /\ Cardinality(ups \cup degs) =
             Cardinality(ups) + Cardinality(degs) - Cardinality(ups \cap degs)
        /\ Cardinality(ups) \in Nat /\ Cardinality(degs) \in Nat /\ Cardinality(ts) \in Nat
    <2>1. Cardinality(ups \cup degs) =
             Cardinality(ups) + Cardinality(degs) - Cardinality(ups \cap degs)
      BY <1>1, FS_Union
    <2>2. Cardinality(ups) \in Nat /\ Cardinality(degs) \in Nat /\ Cardinality(ts) \in Nat
      BY <1>1, FS_CardinalityType
    <2> HIDE DEF ups, degs
    <2> QED
      BY <2>1, <2>2
  <1>4. Cardinality(ups \cup degs) = Cardinality(ups) + Cardinality(degs)
    <2>1. Cardinality(ups \cap degs) = 0
      BY <1>2, FS_EmptySet
    <2> HIDE DEF ups, degs
    <2> QED
      BY <1>3, <2>1
  <1>5. /\ Cardinality(ups \cup degs) <= Cardinality(ts)
        /\ Cardinality(ups \cup degs) = Cardinality(ts) => ups \cup degs = ts
        /\ Cardinality(ups) = Cardinality(ts) => ups = ts
    <2>1. ups \cup degs \in SUBSET ts /\ ups \in SUBSET ts
      OBVIOUS
    <2> QED
      BY <2>1, FS_Subset
  <1>6. Count(ts, "up") = Cardinality(ups) /\ Count(ts, "degraded") = Cardinality(degs)
    BY DEF Count
  <1>7. (\E t \in ts : cycles[t] = "down") => ups \cup degs # ts
    OBVIOUS
  <1>8. ups = ts => \A t \in ts : cycles[t] = "up"
    OBVIOUS
  <1> HIDE DEF ups, degs
  <1> QED
    BY <1>3, <1>4, <1>5, <1>6, <1>7, <1>8

\* The status of a bucket, from those of its cycles.
LEMMA StatusOfBucket ==
  ASSUME NEW ts, IsFiniteSet(ts), ts # {}
  PROVE  /\ BucketStatus(ts) \in Statuses
         /\ (\A t \in ts : cycles[t] = "up") => BucketStatus(ts) = "up"
         /\ BucketStatus(ts) = "down" => \E t \in ts : cycles[t] = "down"
  <1>1. BucketStatus(ts) \in Statuses
    BY DEF BucketStatus, Statuses
  <1>2. /\ Count(ts, "down") \in Nat /\ Count(ts, "degraded") \in Nat
        /\ Count(ts, "down") = 0 <=> \A t \in ts : cycles[t] # "down"
        /\ Count(ts, "degraded") = 0 <=> \A t \in ts : cycles[t] # "degraded"
    BY CountType
  <1>3. Cardinality(ts) \in Nat \ {0}
    BY FS_CardinalityType, FS_EmptySet
  <1>4. ASSUME \A t \in ts : cycles[t] = "up" PROVE BucketStatus(ts) = "up"
    <2>1. Count(ts, "down") = 0 /\ Count(ts, "degraded") = 0
      BY <1>2, <1>4
    <2>2. DegradedShare * Cardinality(ts) > 0
      <3>1. DegradedShare \in Nat \ {0}
        BY TimelineAssumption
      <3> QED
        BY <1>3, <3>1
    <2>3. ~(Count(ts, "down") > 0)
      BY <2>1
    <2>4. ~(Count(ts, "degraded") * 100 >= DegradedShare * Cardinality(ts))
      <3>1. DegradedShare * Cardinality(ts) \in Nat
        BY <1>3, TimelineAssumption
      <3> QED
        BY <2>1, <2>2, <3>1
    <2> QED
      BY <2>3, <2>4 DEF BucketStatus
  <1>5. ASSUME BucketStatus(ts) = "down" PROVE \E t \in ts : cycles[t] = "down"
    <2>1. Count(ts, "down") > 0
      BY <1>5 DEF BucketStatus
    <2> QED
      BY <1>2, <2>1
  <1> QED
    BY <1>1, <1>4, <1>5

LEMMA ImageIsSmaller ==
  ASSUME NEW S, NEW T, NEW f \in Surjection(S, T), IsFiniteSet(S)
  PROVE  IsFiniteSet(T) /\ Cardinality(T) <= Cardinality(S)
  BY FS_Surjection

LEMMA FetchKeeps ==
  ASSUME IInv, NEW start \in 0..LastBound, NEW end \in 0..LastBound, NEW g \in Granularities,
         FetchConnectivityStatus(start, end, g)
  PROVE  IInv'
  <1> DEFINE found == Found(start, end)
             points == Points(start, end, g)
             bucket(b) == {t \in found : Aligned(t, g) = b}
  <1>1. /\ start <= end
        /\ answer' = Response(start, end, g)
        /\ UNCHANGED <<now, cycles, firstRow, asking, earliest>>
    BY DEF FetchConnectivityStatus
  <1>2. g \in Nat \ {0} /\ LastBound \in Nat
    BY TimelineAssumption
  <1>3. \A t \in DOMAIN cycles : t \in 0..now /\ t < now
    BY DEF IInv, TypeOK, Past
  <1>4. /\ \A t \in found : t \in Nat /\ start <= t /\ t <= end
        /\ now \in Nat
    BY <1>3, TimelineAssumption DEF Found, IInv, TypeOK
  <1>5. IsFiniteSet(found)
    <2>1. IsFiniteSet(0..now) /\ found \in SUBSET (0..now)
      BY <1>3, <1>4, FS_Interval DEF Found
    <2> QED
      BY <2>1, FS_Subset
  <1>6. DOMAIN points = {Aligned(t, g) : t \in found}
    BY DEF Points
  <1>7. ASSUME NEW b \in DOMAIN points
        PROVE  /\ b <= end
               /\ points[b] \in Statuses
               /\ Cardinality(found) > 0
               /\ Count(found, "up") = Cardinality(found) => points[b] = "up"
               /\ points[b] = "down" =>
                    Count(found, "up") + Count(found, "degraded") < Cardinality(found)
    <2>1. PICK u \in found : b = Aligned(u, g)
      BY <1>6
    <2>2. b <= end
      BY <1>2, <1>4, <2>1, AlignedBounds
    <2>3. points[b] = BucketStatus(bucket(b))
      BY <1>6 DEF Points
    <2>4. bucket(b) # {} /\ bucket(b) \in SUBSET found
      BY <2>1
    <2>5. IsFiniteSet(bucket(b))
      BY <1>5, <2>4, FS_Subset
    <2> HIDE DEF bucket, points, found
    <2>6. /\ points[b] \in Statuses
          /\ (\A t \in bucket(b) : cycles[t] = "up") => points[b] = "up"
          /\ points[b] = "down" => \E t \in bucket(b) : cycles[t] = "down"
      BY <2>3, <2>4, <2>5, StatusOfBucket
    <2>7. Cardinality(found) \in Nat /\ Cardinality(found) # 0
      BY <1>5, <2>1, FS_CardinalityType, FS_EmptySet
    <2> QED
      BY <1>5, <2>2, <2>4, <2>6, <2>7, UpAndDegraded
  <1>8. IsFiniteSet(DOMAIN points) /\ Cardinality(DOMAIN points) <= Cardinality(found)
    <2> DEFINE bucketOf == [t \in found |-> Aligned(t, g)]
    <2>1. bucketOf \in Surjection(found, DOMAIN points)
      BY <1>6 DEF Surjection
    <2> HIDE DEF bucketOf, points, found
    <2> QED
      BY <1>5, <2>1, ImageIsSmaller
  <1>9. Count(found, "up") + Count(found, "degraded") <= Cardinality(found)
    BY <1>5, UpAndDegraded
  <1>10. /\ answer'.start = start /\ answer'.end = end /\ answer'.granularity = g
         /\ answer'.asked = now
         /\ answer'.points = points
         /\ answer'.observed = Cardinality(DOMAIN points)
         /\ answer'.expected = BucketCount(start, end, g)
         /\ answer'.observedCycles = Cardinality(found)
         /\ answer'.up = Count(found, "up") /\ answer'.degraded = Count(found, "degraded")
    BY <1>1 DEF Response
  <1>11. Known' = found
    BY <1>1, <1>3, <1>10 DEF Known, Found
  <1> HIDE DEF found, points
  <1>12. TypeOK'
    BY <1>1, <1>2, <1>4, <1>7, <1>8, <1>9, <1>10 DEF IInv, TypeOK
  <1>13. AnswersHistory'
    BY <1>6, <1>8, <1>10, <1>11 DEF AnswersHistory
  <1>14. Headline'
    BY <1>7, <1>10 DEF Headline
  <1> QED
    BY <1>1, <1>12, <1>13, <1>14 DEF IInv, Past

-----------------------------------------------------------------------------
(* The history goes on.                                                    *)

LEMMA CycleKeeps ==
  ASSUME IInv, NEW status \in Statuses, Cycle(status)
  PROVE  IInv'
  <1>1. /\ now \in Nat /\ now < LastTime /\ LastTime \in Nat
        /\ now' = now + 1
        /\ cycles' = [t \in DOMAIN cycles \cup {now} |-> IF t = now THEN status ELSE cycles[t]]
        /\ firstRow' = IF firstRow = None THEN now ELSE firstRow
        /\ UNCHANGED <<asking, earliest, answer>>
    BY TimelineAssumption DEF Cycle, IInv, TypeOK
  <1>2. DOMAIN cycles' = DOMAIN cycles \cup {now}
    BY <1>1
  <1>3. \A t \in DOMAIN cycles : t \in 0..now /\ t < now
    BY DEF IInv, TypeOK, Past
  <1>4. now \notin DOMAIN cycles /\ Past'
    BY <1>1, <1>2, <1>3 DEF Past
  <1>5. TypeOK'
    <2>1. /\ \A t \in DOMAIN cycles' : cycles'[t] \in Statuses
          /\ DOMAIN cycles' \subseteq 0..now'
          /\ now' \in 0..LastTime
      BY <1>1, <1>2, <1>3 DEF IInv, TypeOK
    <2>2. /\ firstRow' \in 0..now' \cup {None}
          /\ \A t \in DOMAIN cycles' : firstRow' # None /\ firstRow' <= t
          /\ earliest' \in {None, firstRow'}
      BY <1>1, <1>2, <1>3, TimelineAssumption DEF IInv, TypeOK
    <2>3. answer' # None => answer'.asked \in 0..now'
      BY <1>1 DEF IInv, TypeOK
    <2> QED
      BY <1>1, <2>1, <2>2, <2>3 DEF IInv, TypeOK
  <1>6. answer # None => Known' = Known
    <2> SUFFICES ASSUME answer # None PROVE Known' = Known
      OBVIOUS
    <2>1. answer.asked \in 0..now
      BY DEF IInv, TypeOK
    <2> QED
      BY <1>1, <1>2, <2>1 DEF Known
  <1>7. AnswersHistory' /\ Headline'
    BY <1>1, <1>6 DEF IInv, AnswersHistory, Headline
  <1> QED
    BY <1>4, <1>5, <1>7 DEF IInv

LEMMA NextKeeps == IInv /\ [Next]_vars => IInv'
  <1> SUFFICES ASSUME IInv, [Next]_vars PROVE IInv'
    OBVIOUS
  <1>1. CASE FirstSpeedTest
    <2>1. /\ firstRow = None /\ firstRow' = now
          /\ UNCHANGED <<now, cycles, asking, earliest, answer>>
      BY <1>1 DEF FirstSpeedTest
    <2>2. DOMAIN cycles = {} /\ earliest = None /\ now \in Nat
      <3>1. DOMAIN cycles = {}
        BY <2>1 DEF IInv, TypeOK
      <3>2. earliest = None
        BY <2>1 DEF IInv, TypeOK
      <3>3. now \in Nat
        BY TimelineAssumption DEF IInv, TypeOK
      <3> QED
        BY <3>1, <3>2, <3>3
    <2>3. TypeOK'
      BY <2>1, <2>2 DEF IInv, TypeOK
    <2> QED
      BY <2>1, <2>3 DEF IInv, Past, AnswersHistory, Headline, Known
  <1>2. CASE Silence
    <2>1. /\ now \in Nat /\ now < LastTime /\ LastTime \in Nat /\ now' = now + 1
          /\ UNCHANGED <<cycles, firstRow, asking, earliest, answer>>
      BY <1>2, TimelineAssumption DEF Silence, IInv, TypeOK
    <2>2. Past'
      <3>1. \A t \in DOMAIN cycles : t \in 0..now
        BY DEF IInv, TypeOK
      <3> QED
        BY <2>1, <3>1 DEF IInv, Past
    <2>3. TypeOK'
      <3>1. /\ now' \in 0..LastTime
            /\ DOMAIN cycles' \subseteq 0..now'
            /\ firstRow' \in 0..now' \cup {None}
            /\ answer' # None => answer'.asked \in 0..now'
        BY <2>1 DEF IInv, TypeOK
      <3> QED
        BY <2>1, <3>1 DEF IInv, TypeOK
    <2>4. AnswersHistory' /\ Headline'
      BY <2>1 DEF IInv, AnswersHistory, Headline, Known
    <2> QED
      BY <2>2, <2>3, <2>4 DEF IInv
  <1>3. CASE LoadPage
    BY <1>3 DEF LoadPage, IInv, TypeOK, Past, AnswersHistory, Headline
  <1>4. CASE SucceededFetchEarliestData \/ FailedFetchEarliestData
    <2>1. /\ UNCHANGED <<now, cycles, firstRow, answer>>
          /\ asking' \in BOOLEAN /\ earliest' \in {None, firstRow}
      BY <1>4 DEF SucceededFetchEarliestData, FailedFetchEarliestData, IInv, TypeOK
    <2>2. TypeOK' /\ Past'
      BY <2>1 DEF IInv, TypeOK, Past
    <2> QED
      BY <2>1, <2>2 DEF IInv, AnswersHistory, Headline, Known
  <1>5. CASE UNCHANGED vars
    BY <1>5 DEF vars, IInv, TypeOK, Past, AnswersHistory, Headline, Known
  <1> QED
    BY <1>1, <1>2, <1>3, <1>4, <1>5, CycleKeeps, FetchKeeps DEF Next

LEMMA InitIInv == Init => IInv
  <1> SUFFICES ASSUME Init PROVE IInv
    OBVIOUS
  <1>1. DOMAIN cycles = {} /\ 0 \in 0..LastTime
    BY TimelineAssumption DEF Init
  <1> QED
    BY <1>1 DEF Init, IInv, TypeOK, Past, AnswersHistory, Headline

LEMMA Invariance == Spec => []IInv
  BY InitIInv, NextKeeps, PTL DEF Spec

-----------------------------------------------------------------------------
(* What mergeSegments makes of a row of slots, one slot after the other.   *)

\* The step of the fold.
Push(merged, segment) ==
  IF merged # <<>> /\ Last(merged).status = segment.status
  THEN [merged EXCEPT ![Len(merged)].count = @ + segment.count]
  ELSE Append(merged, segment)

\* Natural numbers have a least one: what the proofs by induction below rest on.
LEMMA LeastElement ==
  ASSUME NEW T, T \subseteq Nat, T # {}
  PROVE  \E x \in T : \A y \in T : x <= y
  <1> DEFINE R == {ss \in Nat \X Nat : ss[1] < ss[2]}
  <1>1. IsWellFoundedOn(R, Nat)
    BY NatLessThanWellFounded DEF OpToRel
  <1> HIDE DEF R
  <1>2. PICK x \in T : \A y \in T : <<y, x>> \notin R
    BY <1>1, WFMin
  <1>3. ASSUME NEW y \in T PROVE x <= y
    <2>1. <<y, x>> \notin R
      BY <1>2
    <2>2. y < x => <<y, x>> \in R
      BY DEF R
    <2> QED
      BY <2>1, <2>2
  <1> QED
    BY <1>3

LEMMA MaxOfSome ==
  ASSUME NEW m \in Nat, NEW s, s \subseteq 1..m, s # {}
  PROVE  Max(s) \in s /\ \A x \in s : x <= Max(s)
  <1> DEFINE U == {u \in Nat : \A x \in s : x <= u}
  <1>1. m \in U
    OBVIOUS
  <1>2. PICK u \in U : \A v \in U : u <= v
    BY <1>1, LeastElement
  <1>3. u \in s
    <2> SUFFICES ASSUME u \notin s PROVE FALSE
      OBVIOUS
    <2>1. PICK x \in s : TRUE
      OBVIOUS
    <2>2. u - 1 \in U
      BY <2>1
    <2> QED
      BY <1>2, <2>2
  <1>4. \E x \in s : \A y \in s : x >= y
    BY <1>3
  <1> QED
    BY <1>4 DEF Max

\* What the fold makes of the positions in s, by what it makes of those without the last.
Body(it, segs, s) == IF s = {} THEN <<>> ELSE Push(it[s \ {Max(s)}], segs[Max(s)])

Unfolds(it, segs, m) == it = [s \in SUBSET (1..m) |-> Body(it, segs, s)]

\* The recursion of the fold has a solution: a least m without one would have the
\* solution for m - 1, and a step more.
LEMMA FoldExists ==
  ASSUME NEW segs
  PROVE  \A m \in Nat : \E it : Unfolds(it, segs, m)
  <1> DEFINE Bad == {m \in Nat : ~\E it : Unfolds(it, segs, m)}
  <1> SUFFICES ASSUME Bad # {} PROVE FALSE
    OBVIOUS
  <1>1. PICK m \in Bad : \A k \in Bad : m <= k
    BY LeastElement
  <1>2. m \in Nat /\ ~\E it : Unfolds(it, segs, m)
    OBVIOUS
  <1>3. CASE m = 0
    <2> DEFINE it == [s \in SUBSET (1..0) |-> <<>>]
    <2>1. \A s \in SUBSET (1..0) : s = {}
      OBVIOUS
    <2>2. Unfolds(it, segs, 0)
      BY <2>1 DEF Unfolds, Body
    <2> QED
      BY <1>2, <1>3, <2>2
  <1>4. CASE m # 0
    <2>1. m - 1 \in Nat /\ m - 1 \notin Bad
      BY <1>1, <1>2, <1>4
    <2>2. PICK g : Unfolds(g, segs, m - 1)
      BY <2>1
    <2> DEFINE h == [s \in SUBSET (1..m) |-> Body(g, segs, s)]
    <2>3. ASSUME NEW s \in SUBSET (1..m) PROVE Body(g, segs, s) = Body(h, segs, s)
      <3>1. CASE s = {}
        BY <3>1 DEF Body
      <3>2. CASE s # {}
        <4> DEFINE u == s \ {Max(s)}
        <4>1. Max(s) \in s /\ \A x \in s : x <= Max(s)
          BY <1>2, <3>2, MaxOfSome
        <4> HIDE DEF Bad
        <4>2. u \in SUBSET (1..m - 1)
          <5> SUFFICES ASSUME NEW x \in u PROVE x \in 1..m - 1
            OBVIOUS
          <5>1. x \in 1..m /\ Max(s) \in 1..m /\ x <= Max(s) /\ x # Max(s)
            BY <4>1
          <5> QED
            BY <1>2, <5>1
        <4>3. u \in SUBSET (1..m)
          OBVIOUS
        <4>4. g[u] = Body(g, segs, u)
          BY <2>2, <4>2 DEF Unfolds
        <4>5. h[u] = Body(g, segs, u)
          BY <4>3
        <4> QED
          BY <3>2, <4>4, <4>5 DEF Body
      <3> QED
        BY <3>1, <3>2
    <2>4. Unfolds(h, segs, m)
      BY <2>3 DEF Unfolds
    <2> QED
      BY <1>2, <2>4
  <1> QED
    BY <1>3, <1>4

\* mergeSegments, slot by slot.
LEMMA MergeBySlot ==
  ASSUME NEW segs, NEW n \in Nat, DOMAIN segs = 1..n
  PROVE  \E bars : /\ bars[0] = <<>>
                   /\ \A i \in 1..n : bars[i] = Push(bars[i - 1], segs[i])
                   /\ MergeSegments(segs) = bars[n]
  <1> DEFINE it == CHOOSE it : Unfolds(it, segs, n)
             bars == [i \in 0..n |-> it[1..i]]
  <1>1. MergeSegments(segs) = it[1..n]
    <2>1. MergeSegments(segs)
            = (CHOOSE f : f = [s \in SUBSET (1..n) |->
                 IF s = {} THEN <<>> ELSE Push(f[s \ {Max(s)}], segs[Max(s)])])[1..n]
      BY DEF MergeSegments, FoldLeft, MapThenFoldSet, Push
    <2> QED
      BY <2>1 DEF Unfolds, Body
  <1>2. Unfolds(it, segs, n)
    BY FoldExists
  <1> HIDE DEF it
  <1>3. bars[0] = <<>>
    <2>1. 1..0 = {}
      OBVIOUS
    <2> QED
      BY <1>2, <2>1 DEF Unfolds, Body
  <1>4. ASSUME NEW i \in 1..n PROVE bars[i] = Push(bars[i - 1], segs[i])
    <2>1. Max(1..i) = i
      <3>1. 1..i \subseteq 1..n /\ 1..i # {} /\ i \in 1..i
        OBVIOUS
      <3>2. Max(1..i) \in 1..i /\ \A x \in 1..i : x <= Max(1..i)
        BY <3>1, MaxOfSome
      <3> QED
        BY <3>1, <3>2
    <2>2. (1..i) \ {i} = 1..i - 1
      OBVIOUS
    <2>3. 1..i \in SUBSET (1..n) /\ 1..i # {}
      OBVIOUS
    <2>4. it[1..i] = Push(it[1..i - 1], segs[i])
      BY <1>2, <2>1, <2>2, <2>3 DEF Unfolds, Body
    <2> QED
      BY <2>4
  <1>5. MergeSegments(segs) = bars[n]
    BY <1>1
  <1> HIDE DEF bars
  <1> QED
    BY <1>3, <1>4, <1>5

-----------------------------------------------------------------------------
(* The bars.                                                               *)

\* What a bar can be, and a slot is the shortest one.
AllStatuses == Statuses \cup {"notMonitored", "noInfo"}
Bar == [at : Nat, status : AllStatuses, count : Nat \ {0}]

\* The second a bar ends at, in buckets of g seconds.
EndOf(bar, g) == bar.at + bar.count * g

\* The first k slots have become the bars B.
Covers(B, segs, k, g) ==
  /\ B \in Seq(Bar) /\ Len(B) > 0
  /\ B[1].at = segs[1].at
  /\ EndOf(B[Len(B)], g) = segs[k].at + g
  /\ \A i \in 1..Len(B) - 1 : EndOf(B[i], g) = B[i + 1].at /\ B[i].status # B[i + 1].status
  /\ \A i \in 1..Len(B) : EndOf(B[i], g) <= segs[k].at + g
  /\ \A i \in 1..Len(B), j \in 1..k :
       B[i].at <= segs[j].at /\ segs[j].at < EndOf(B[i], g) => segs[j].status = B[i].status

\* Slots of g seconds, one after the other.
Slots(segs, n, g) ==
  /\ \A j \in 1..n : segs[j] \in Bar /\ segs[j].count = 1
  /\ \A j \in 2..n : segs[j].at = segs[j - 1].at + g
  /\ \A j, k \in 1..n : j <= k => segs[j].at <= segs[k].at

LEMMA BarTypes ==
  ASSUME NEW b \in Bar, NEW g \in Nat \ {0}
  PROVE  /\ b.at \in Nat /\ b.count \in Nat /\ EndOf(b, g) \in Nat
         /\ b.at < EndOf(b, g)
         /\ b.count = 1 => EndOf(b, g) = b.at + g
  <1>1. b.at \in Nat /\ b.count \in Nat \ {0}
    BY DEF Bar
  <1>2. b.count * g \in Nat /\ b.count * g > 0
    BY <1>1
  <1> QED
    BY <1>1, <1>2 DEF EndOf

\* The first slot is the first bar.
LEMMA FirstBar ==
  ASSUME NEW segs, NEW n \in Nat \ {0}, NEW g \in Nat \ {0}, Slots(segs, n, g)
  PROVE  Covers(Push(<<>>, segs[1]), segs, 1, g)
  <1> DEFINE B == Push(<<>>, segs[1])
  <1>1. segs[1] \in Bar /\ segs[1].count = 1
    BY DEF Slots
  <1>2. B = Append(<<>>, segs[1])
    BY DEF Push
  <1>3. B = <<segs[1]>>
    BY <1>2
  <1>4. Len(B) = 1 /\ B[1] = segs[1]
    BY <1>3
  <1>5. B \in Seq(Bar)
    <2>1. B = [i \in 1..1 |-> segs[1]]
      BY <1>3
    <2>2. [i \in 1..1 |-> segs[1]] \in Seq(Bar)
      BY <1>1
    <2> QED
      BY <2>1, <2>2
  <1>6. EndOf(segs[1], g) = segs[1].at + g /\ EndOf(segs[1], g) \in Nat /\ segs[1].at \in Nat
    BY <1>1, BarTypes
  <1> HIDE DEF B
  <1>7. B[Len(B)] = segs[1] /\ 1..Len(B) - 1 = {}
    BY <1>4
  <1>8. \A i \in 1..Len(B) : B[i] = segs[1]
    BY <1>4
  <1>9. \A j \in 1..1 : segs[j] = segs[1]
    OBVIOUS
  <1>10. \A i \in 1..Len(B) : EndOf(B[i], g) <= segs[1].at + g
    BY <1>6, <1>8
  <1>11. \A i \in 1..Len(B), j \in 1..1 : segs[j].status = B[i].status
    BY <1>8, <1>9
  <1> QED
    BY <1>4, <1>5, <1>6, <1>7, <1>10, <1>11 DEF Covers, B

\* The next slot makes the last bar longer or begins one.
LEMMA NextBar ==
  ASSUME NEW segs, NEW n \in Nat, NEW g \in Nat \ {0}, Slots(segs, n, g),
         NEW k \in 2..n, NEW A, Covers(A, segs, k - 1, g)
  PROVE  Covers(Push(A, segs[k]), segs, k, g)
  <1> DEFINE B == Push(A, segs[k])
             L == Len(A)
             s == segs[k]
  <1>1. /\ s \in Bar /\ s.count = 1 /\ s.at = segs[k - 1].at + g
        /\ segs[k - 1] \in Bar
        /\ \A j \in 1..k : segs[j] \in Bar /\ segs[j].at \in Nat
        /\ \A j \in 1..k - 1 : segs[j].at < s.at
    <2>1. s \in Bar /\ s.count = 1 /\ s.at = segs[k - 1].at + g /\ segs[k - 1] \in Bar
      BY DEF Slots
    <2>2. ASSUME NEW j \in 1..k PROVE segs[j] \in Bar /\ segs[j].at \in Nat
      <3>1. segs[j] \in Bar
        BY DEF Slots
      <3> QED
        BY <3>1, BarTypes
    <2>3. ASSUME NEW j \in 1..k - 1 PROVE segs[j].at < s.at
      <3>1. segs[j].at <= segs[k - 1].at
        BY DEF Slots
      <3>2. segs[j].at \in Nat /\ segs[k - 1].at \in Nat
        BY <2>2
      <3> QED
        BY <2>1, <3>1, <3>2
    <2> QED
      BY <2>1, <2>2, <2>3
  <1>2. /\ A \in Seq(Bar) /\ L \in Nat /\ L > 0
        /\ A[1].at = segs[1].at
        /\ EndOf(A[L], g) = s.at
        /\ \A i \in 1..L - 1 : EndOf(A[i], g) = A[i + 1].at /\ A[i].status # A[i + 1].status
        /\ \A i \in 1..L : A[i] \in Bar /\ EndOf(A[i], g) <= s.at /\ EndOf(A[i], g) \in Nat /\ A[i].at < EndOf(A[i], g)
        /\ \A i \in 1..L, j \in 1..k - 1 :
             A[i].at <= segs[j].at /\ segs[j].at < EndOf(A[i], g) => segs[j].status = A[i].status
    <2>1. A \in Seq(Bar) /\ L \in Nat /\ L > 0
      BY DEF Covers
    <2>2. ASSUME NEW i \in 1..L
          PROVE A[i] \in Bar /\ EndOf(A[i], g) \in Nat /\ A[i].at < EndOf(A[i], g)
      <3>1. A[i] \in Bar
        BY <2>1
      <3> QED
        BY <3>1, BarTypes
    <2> QED
      BY <1>1, <2>1, <2>2 DEF Covers
  <1>3. s.at \in Nat /\ EndOf(s, g) = s.at + g
    BY <1>1, BarTypes
  <1>4. A # <<>> /\ Last(A) = A[L]
    BY <1>2 DEF Last
  <1>5. CASE A[L].status = s.status
    <2> DEFINE b == [A[L] EXCEPT !.count = @ + s.count]
    <2>1. B = [A EXCEPT ![L].count = @ + s.count]
      BY <1>4, <1>5 DEF Push
    <2>2. /\ b \in Bar /\ b.at = A[L].at /\ b.status = A[L].status /\ b.count = A[L].count + 1
      <3>1. A[L] \in Bar
        BY <1>2
      <3>2. A[L].count \in Nat \ {0} /\ s.count = 1
        BY <1>1, <3>1 DEF Bar
      <3>3. A[L].count + 1 \in Nat \ {0} /\ A[L].count + s.count = A[L].count + 1
        BY <3>2
      <3>4. b = [A[L] EXCEPT !.count = A[L].count + 1]
        BY <3>3
      <3> HIDE DEF L, s, b
      <3> QED
        BY <3>1, <3>3, <3>4 DEF Bar
    <2>3. /\ B \in Seq(Bar) /\ Len(B) = L /\ B[L] = b
          /\ \A i \in 1..L - 1 : B[i] = A[i]
      <3>1. B = [A EXCEPT ![L] = b]
        BY <2>1
      <3>2. L \in 1..L /\ A \in Seq(Bar)
        BY <1>2
      <3> HIDE DEF B, b
      <3> QED
        BY <2>2, <3>1, <3>2
    <2>4. EndOf(b, g) = s.at + g
      <3> HIDE DEF B, b, L, s
      <3>1. A[L].count \in Nat /\ A[L].at \in Nat
        <4>1. A[L] \in Bar
          BY <1>2
        <4> QED
          BY <4>1, BarTypes
      <3>2. (A[L].count + 1) * g = A[L].count * g + g /\ A[L].count * g \in Nat
        BY <3>1
      <3> QED
        <4>1. A[L].at + A[L].count * g = s.at
          BY <1>2 DEF EndOf
        <4>2. EndOf(b, g) = A[L].at + (A[L].count + 1) * g
          BY <2>2 DEF EndOf
        <4> QED
          BY <1>3, <3>1, <3>2, <4>1, <4>2
    <2> HIDE DEF B, b, L, s
    <2>5. B[1].at = segs[1].at
      BY <1>2, <2>2, <2>3
    <2>6. ASSUME NEW i \in 1..Len(B) - 1
          PROVE  EndOf(B[i], g) = B[i + 1].at /\ B[i].status # B[i + 1].status
      <3>0. i \in 1..L - 1 /\ i + 1 \in 1..L
        BY <1>2, <2>3
      <3>1. B[i + 1].at = A[i + 1].at /\ B[i + 1].status = A[i + 1].status /\ B[i] = A[i]
        <4>1. CASE i + 1 = L
          BY <2>2, <2>3, <3>0, <4>1
        <4>2. CASE i + 1 # L
          <5>1. i + 1 \in 1..L - 1
            BY <1>2, <3>0, <4>2
          <5> QED
            BY <2>3, <3>0, <5>1
        <4> QED
          BY <4>1, <4>2
      <3> QED
        BY <1>2, <3>0, <3>1
    <2>7. ASSUME NEW i \in 1..Len(B) PROVE EndOf(B[i], g) <= s.at + g
      <3>1. CASE i = L
        BY <1>3, <2>3, <2>4, <3>1
      <3>2. CASE i # L
        <4>1. i \in 1..L - 1 /\ i \in 1..L /\ B[i] = A[i]
          BY <1>2, <2>3, <3>2
        <4>2. EndOf(A[i], g) <= s.at /\ EndOf(A[i], g) \in Nat
          BY <1>2, <4>1
        <4> QED
          BY <1>3, <4>1, <4>2
      <3> QED
        BY <3>1, <3>2
    <2>8. ASSUME NEW i \in 1..Len(B), NEW j \in 1..k,
                 B[i].at <= segs[j].at, segs[j].at < EndOf(B[i], g)
          PROVE  segs[j].status = B[i].status
      <3>1. CASE i = L /\ j = k
        BY <1>5, <2>2, <2>3, <3>1 DEF s
      <3>2. CASE i = L /\ j # k
        <4>1. j \in 1..k - 1 /\ segs[j].at < s.at /\ A[L].at <= segs[j].at
          BY <1>1, <2>2, <2>3, <2>8, <3>2
        <4> QED
          BY <1>2, <2>2, <2>3, <3>2, <4>1
      <3>3. CASE i # L
        <4>1. i \in 1..L - 1 /\ B[i] = A[i]
          BY <1>2, <2>3, <3>3
        <4>2. EndOf(A[i], g) <= s.at /\ EndOf(A[i], g) \in Nat
          BY <1>2, <4>1
        <4>3. j # k
          BY <1>3, <2>8, <4>1, <4>2 DEF s
        <4>4. j \in 1..k - 1
          BY <4>3
        <4> QED
          BY <1>2, <2>8, <4>1, <4>4
      <3> QED
        BY <3>1, <3>2, <3>3
    <2> QED
      BY <1>2, <2>3, <2>4, <2>5, <2>6, <2>7, <2>8 DEF Covers, B, s
  <1>6. CASE A[L].status # s.status
    <2>1. B = Append(A, s)
      BY <1>4, <1>6 DEF Push
    <2>2. /\ B \in Seq(Bar) /\ Len(B) = L + 1 /\ B[L + 1] = s
          /\ \A i \in 1..L : B[i] = A[i]
      BY <1>1, <1>2, <2>1
    <2> HIDE DEF B, L, s
    <2>3. B[1].at = segs[1].at
      BY <1>2, <2>2
    <2>4. ASSUME NEW i \in 1..Len(B) - 1
          PROVE  EndOf(B[i], g) = B[i + 1].at /\ B[i].status # B[i + 1].status
      <3>1. CASE i = L
        BY <1>2, <1>6, <2>2, <3>1
      <3>2. CASE i # L
        <4>1. i \in 1..L - 1 /\ B[i] = A[i] /\ B[i + 1] = A[i + 1]
          BY <1>2, <2>2, <3>2
        <4> QED
          BY <1>2, <4>1
      <3> QED
        BY <3>1, <3>2
    <2>5. ASSUME NEW i \in 1..Len(B) PROVE EndOf(B[i], g) <= s.at + g
      <3>1. CASE i = L + 1
        BY <1>3, <2>2, <3>1
      <3>2. CASE i # L + 1
        <4>1. i \in 1..L /\ B[i] = A[i]
          BY <1>2, <2>2, <3>2
        <4>2. EndOf(A[i], g) <= s.at /\ EndOf(A[i], g) \in Nat
          BY <1>2, <4>1
        <4> QED
          BY <1>3, <4>1, <4>2
      <3> QED
        BY <3>1, <3>2
    <2>6. ASSUME NEW i \in 1..Len(B), NEW j \in 1..k,
                 B[i].at <= segs[j].at, segs[j].at < EndOf(B[i], g)
          PROVE  segs[j].status = B[i].status
      <3>1. CASE i = L + 1
        <4>1. B[i] = s
          BY <2>2, <3>1
        <4>2. j = k
          <5> SUFFICES ASSUME j # k PROVE FALSE
            OBVIOUS
          <5>1. j \in 1..k - 1
            OBVIOUS
          <5>2. segs[j].at < s.at /\ segs[j].at \in Nat
            BY <1>1, <5>1
          <5> QED
            BY <1>3, <2>6, <4>1, <5>2
        <4> QED
          BY <4>1, <4>2 DEF s
      <3>2. CASE i # L + 1
        <4>1. i \in 1..L /\ B[i] = A[i]
          BY <1>2, <2>2, <3>2
        <4>2. EndOf(A[i], g) <= s.at /\ EndOf(A[i], g) \in Nat
          BY <1>2, <4>1
        <4>3. j # k
          BY <1>3, <2>6, <4>1, <4>2 DEF s
        <4>4. j \in 1..k - 1
          BY <4>3
        <4> QED
          BY <1>2, <2>6, <4>1, <4>4
      <3> QED
        BY <3>1, <3>2
    <2> QED
      BY <1>2, <1>3, <2>2, <2>3, <2>4, <2>5, <2>6 DEF Covers, B, s
  <1> QED
    BY <1>5, <1>6

\* The bars of any row of slots.
LEMMA MergedCovers ==
  ASSUME NEW segs, NEW n \in Nat \ {0}, DOMAIN segs = 1..n, NEW g \in Nat \ {0}, Slots(segs, n, g)
  PROVE  Covers(MergeSegments(segs), segs, n, g)
  <1>1. PICK bars : /\ bars[0] = <<>>
                    /\ \A i \in 1..n : bars[i] = Push(bars[i - 1], segs[i])
                    /\ MergeSegments(segs) = bars[n]
    BY MergeBySlot
  <1> DEFINE Bad == {k \in 1..n : ~Covers(bars[k], segs, k, g)}
  <1>2. ASSUME Bad # {} PROVE FALSE
    <2>0. Bad \subseteq Nat
      OBVIOUS
    <2>1. PICK k \in Bad : \A j \in Bad : k <= j
      BY <1>2, <2>0, LeastElement
    <2>2. k \in 1..n /\ ~Covers(bars[k], segs, k, g)
      OBVIOUS
    <2>3. CASE k = 1
      <3>1. bars[1] = Push(<<>>, segs[1])
        BY <1>1
      <3> QED
        BY <2>2, <2>3, <3>1, FirstBar
    <2>4. CASE k # 1
      <3>1. k \in 2..n /\ k - 1 \in 1..n /\ k - 1 \notin Bad
        BY <2>1, <2>2, <2>4
      <3>2. Covers(bars[k - 1], segs, k - 1, g)
        BY <3>1
      <3>3. bars[k] = Push(bars[k - 1], segs[k])
        BY <1>1, <2>2
      <3> QED
        BY <2>2, <3>1, <3>2, <3>3, NextBar
    <2> QED
      BY <2>3, <2>4
  <1>3. Covers(bars[n], segs, n, g)
    BY <1>2
  <1> QED
    BY <1>1, <1>3

\* The slots of an answer are the grid's.
LEMMA SegmentsAreSlots ==
  ASSUME TypeOK, answer # None
  PROVE  \E n \in Nat : /\ DOMAIN Segments = 1..n
                        /\ Segments \in Seq(Bar) /\ Len(Segments) = n
                        /\ Slots(Segments, n, answer.granularity)
  <1> DEFINE g == answer.granularity
             p == answer.start \div g
             n == BucketCount(answer.start, answer.end, g)
             slots == SlotTimes(answer.start, answer.end, g)
  <1>1. g \in Nat \ {0} /\ p \in Nat
    BY AnswerTypes, Division
  <1>2. /\ n \in Nat
        /\ DOMAIN slots = 1..n
        /\ \A i \in 1..n : slots[i] = (p + (i - 1)) * g
    <2>1. n \in Nat /\ \A i \in 1..n : slots[i] = (p + (i - 1)) * g
      BY AnswerTypes, SlotsAreTheGrid
    <2>2. DOMAIN slots = 1..n
      BY DEF SlotTimes
    <2> QED
      BY <2>1, <2>2
  <1>3. Segments = [i \in 1..n |->
          [at     |-> slots[i],
           status |-> IF slots[i] \in DOMAIN answer.points THEN answer.points[slots[i]]
                      ELSE EmptySlotStatus(slots[i], g),
           count  |-> 1]]
    BY <1>2 DEF Segments
  <1> HIDE DEF g, p, n, slots
  <1>4. ASSUME NEW i \in 1..n
        PROVE  /\ Segments[i] \in Bar /\ Segments[i].count = 1
               /\ Segments[i].at = (p + (i - 1)) * g /\ p + (i - 1) \in Nat
    <2> DEFINE s == Segments[i]
               t == slots[i]
    <2>1. p + (i - 1) \in Nat /\ t = (p + (i - 1)) * g
      BY <1>1, <1>2
    <2>2. t \in Nat
      BY <1>1, <2>1
    <2>3. s = [at |-> t,
               status |-> IF t \in DOMAIN answer.points THEN answer.points[t]
                          ELSE EmptySlotStatus(t, g),
               count |-> 1]
      BY <1>3
    <2> HIDE DEF s, t
    <2>4. (IF t \in DOMAIN answer.points THEN answer.points[t] ELSE EmptySlotStatus(t, g))
            \in AllStatuses
      BY AnswerTypes DEF AllStatuses, EmptySlotStatus
    <2>5. s \in Bar /\ s.count = 1 /\ s.at = t
      BY <2>2, <2>3, <2>4 DEF Bar
    <2> QED
      BY <2>1, <2>5 DEF s
  <1>5. ASSUME NEW j \in 2..n PROVE Segments[j].at = Segments[j - 1].at + g
    <2>1. j \in 1..n /\ j - 1 \in 1..n
      BY <1>2
    <2> DEFINE u == p + (j - 2)
    <2>2. u \in Nat /\ p + (j - 1) = u + 1 /\ p + ((j - 1) - 1) = u
      BY <1>1, <1>2
    <2>3. Segments[j].at = (u + 1) * g /\ Segments[j - 1].at = u * g
      BY <1>4, <2>1, <2>2
    <2> HIDE DEF u
    <2>4. (u + 1) * g = u * g + g
      BY <1>1, <2>2
    <2> QED
      BY <2>3, <2>4
  <1>6. ASSUME NEW j \in 1..n, NEW k \in 1..n, j <= k PROVE Segments[j].at <= Segments[k].at
    <2> DEFINE u == p + (j - 1)
               v == p + (k - 1)
    <2>1. u \in Nat /\ v \in Nat /\ u <= v /\ Segments[j].at = u * g /\ Segments[k].at = v * g
      BY <1>1, <1>2, <1>4, <1>6
    <2> HIDE DEF u, v
    <2>2. u * g \in Nat /\ v * g \in Nat
      BY <1>1, <2>1
    <2>3. u * g <= v * g
      <3>1. CASE u = v
        BY <2>2, <3>1
      <3>2. CASE u < v
        <4>1. u * g + g <= v * g
          BY <1>1, <2>1, <3>2, MultiplesAreApart
        <4> QED
          BY <1>1, <2>2, <4>1
      <3> QED
        BY <2>1, <3>1, <3>2
    <2> QED
      BY <2>1, <2>3
  <1>7. Segments \in Seq(Bar) /\ Len(Segments) = n /\ DOMAIN Segments = 1..n
    <2>1. DOMAIN Segments = 1..n
      BY <1>3
    <2>2. Segments \in [1..n -> Bar]
      BY <1>3, <1>4
    <2> QED
      BY <1>2, <2>1, <2>2
  <1> QED
    BY <1>2, <1>4, <1>5, <1>6, <1>7 DEF Slots, g

-----------------------------------------------------------------------------
(* The results.                                                            *)

\* Every reachable state has its types, and an answer never counts more buckets,
\* or more cycles by status, than it has cycles.
THEOREM TypeCorrect == Spec => []TypeOK
  <1>1. IInv => TypeOK
    BY DEF IInv
  <1> QED
    BY <1>1, Invariance, PTL

\* For any window and width, fillTimeline has a slot for every point of
\* connectivity-status.ts but that of the bucket the window ends in, and the coverage
\* is of the slots but for that bucket.
THEOREM GridsAgree == Spec => []PointsFindTheirSlots
  <1>1. IInv => PointsFindTheirSlots
    <2> SUFFICES ASSUME IInv, answer # None PROVE PointsFindTheirSlots
      BY DEF PointsFindTheirSlots
    <2> DEFINE g == answer.granularity
               p == answer.start \div g
               q == answer.end \div g
               slots == {s.at : s \in Shown}
    <2>1. /\ g \in Nat \ {0} /\ answer.start \in Nat /\ answer.end \in Nat
          /\ answer.start <= answer.end
          /\ \A t \in DOMAIN cycles : t \in Nat
      BY AnswerTypes DEF IInv
    <2>2. ASSUME NEW b \in DOMAIN answer.points, b \notin slots
          PROVE  b = Aligned(answer.end, g)
      <3>1. PICK t \in Known : b = Aligned(t, g)
        BY DEF IInv, AnswersHistory
      <3>2. t \in Nat /\ answer.start <= t /\ t <= answer.end
        BY <2>1 DEF Known
      <3>3. p <= t \div g /\ t \div g <= q /\ t \div g \in Nat /\ q \in Nat
        BY <2>1, <3>2, DivisionIsMonotone, Division
      <3>4. ~(t \div g < q)
        <4> SUFFICES ASSUME t \div g < q PROVE FALSE
          OBVIOUS
        <4>1. \E s \in Shown : s.at = (t \div g) * g
          BY <3>3, ShownSlots DEF IInv
        <4> QED
          BY <2>2, <3>1, <4>1 DEF Aligned
      <3>5. t \div g = q
        BY <3>3, <3>4
      <3> QED
        BY <3>1, <3>5 DEF Aligned
    <2>3. ASSUME NEW s \in Shown
          PROVE  s.at + g > answer.start /\ s.at < answer.end
      <3>1. PICK k \in Nat : p <= k /\ k < q /\ s.at = k * g
        BY ShownSlots DEF IInv
      <3>2. /\ p \in Nat /\ answer.start < p * g + g
            /\ q \in Nat /\ q * g <= answer.end
        BY <2>1, Division
      <3> HIDE DEF g, p, q
      <3>3. p * g <= k * g
        <4>1. CASE p = k
          BY <2>1, <3>2, <4>1
        <4>2. CASE p < k
          <5>1. p * g + g <= k * g
            BY <2>1, <3>2, <4>2, MultiplesAreApart
          <5> QED
            BY <2>1, <3>2, <5>1
        <4> QED
          BY <3>1, <3>2, <4>1, <4>2
      <3>4. k * g + g <= q * g
        BY <2>1, <3>1, <3>2, MultiplesAreApart
      <3>5. k * g \in Nat /\ p * g \in Nat /\ q * g \in Nat
        BY <2>1, <3>2
      <3> QED
        BY <2>1, <3>1, <3>2, <3>3, <3>4, <3>5
    <2>4. CoverageCountsSlots
      BY CoverageIsOfTheSlots DEF IInv
    <2> QED
      BY <2>2, <2>3, <2>4 DEF PointsFindTheirSlots
  <1> QED
    BY <1>1, Invariance, PTL

\* A slot of the chart is grey exactly if the server knew no cycle in it, and
\* "not monitored" only before the first cycle.
THEOREM GreyTellsTheTruth == Spec => []GreyMeansUnobserved
  <1>1. IInv => GreyMeansUnobserved
    <2> SUFFICES ASSUME IInv, answer # None, NEW s \in Shown
                 PROVE  LET slot == s.at..(s.at + answer.granularity - 1)
                        IN  /\ s.status \in Statuses <=> Known \cap slot # {}
                            /\ s.status = "notMonitored" =>
                                 \A t \in DOMAIN cycles : \A u \in slot : t > u
      BY DEF GreyMeansUnobserved, Known
    <2> DEFINE g == answer.granularity
    <2>1. g \in Nat \ {0} /\ \A t \in DOMAIN cycles : t \in Nat
      BY AnswerTypes DEF IInv
    <2>2. /\ s.at \in Nat
          /\ \E k \in Nat : s.at = k * g
          /\ s.status \in Statuses <=> Known \cap (s.at..(s.at + g - 1)) # {}
          /\ s.status = "notMonitored" => earliest # None /\ s.at < Aligned(earliest, g)
      BY PointsOfSlots DEF IInv
    <2>3. ASSUME s.status = "notMonitored", NEW t \in DOMAIN cycles,
                 NEW u \in s.at..(s.at + g - 1)
          PROVE  t > u
      <3>1. earliest # None /\ s.at < Aligned(earliest, g)
        BY <2>2, <2>3
      <3>2. earliest \in Nat /\ earliest <= t /\ t \in Nat
        BY <2>1, <3>1 DEF IInv, TypeOK
      <3>3. PICK k \in Nat : s.at = k * g
        BY <2>2
      <3> DEFINE e == earliest \div g
      <3>4. e \in Nat /\ e * g <= earliest /\ k * g < e * g
        BY <2>1, <3>1, <3>2, <3>3, Division DEF Aligned
      <3> HIDE DEF g, e
      <3>5. k < e
        <4> SUFFICES ASSUME e <= k PROVE FALSE
          BY <3>4
        <4>1. CASE e = k
          BY <2>1, <3>4, <4>1
        <4>2. CASE e < k
          <5>1. e * g + g <= k * g
            BY <2>1, <3>4, <4>2, MultiplesAreApart
          <5>2. e * g \in Nat /\ k * g \in Nat
            BY <2>1, <3>4
          <5> QED
            BY <2>1, <3>4, <5>1, <5>2
        <4> QED
          BY <3>4, <4>1, <4>2
      <3>6. k * g + g <= e * g
        BY <2>1, <3>4, <3>5, MultiplesAreApart
      <3>7. k * g \in Nat /\ e * g \in Nat
        BY <2>1, <3>4
      <3> QED
        BY <2>1, <2>3, <3>2, <3>3, <3>4, <3>6, <3>7
    <2> QED
      BY <2>2, <2>3
  <1> QED
    BY <1>1, Invariance, PTL

\* Uptime and availability, which count cycles, agree with the colours of the
\* slots, which judge buckets.
THEOREM HeadlineIsTrue == Spec => []HeadlineAgreesWithBars
  <1>1. IInv => HeadlineAgreesWithBars
    <2> SUFFICES ASSUME IInv, answer # None, NEW s \in Shown, s.status \in Statuses
                 PROVE  /\ answer.observedCycles > 0
                        /\ answer.up = answer.observedCycles => s.status = "up"
                        /\ s.status = "down" =>
                             answer.up + answer.degraded < answer.observedCycles
      BY DEF HeadlineAgreesWithBars
    <2>1. s.at \in DOMAIN answer.points
      BY PointsOfSlots DEF IInv
    <2>2. s.status = answer.points[s.at]
      BY <2>1, ShownSlots DEF IInv
    <2> QED
      BY <2>1, <2>2 DEF IInv, Headline
  <1> QED
    BY <1>1, Invariance, PTL

\* The bars of mergeSegments say what the slots of buildSegments say: they follow one
\* another from the first slot to the last, and a slot has the status of its bar.
THEOREM BarsTellTheSlots == Spec => []BarsAreTheSlots
  <1>1. IInv => BarsAreTheSlots
    <2> SUFFICES ASSUME IInv, answer # None PROVE BarsAreTheSlots
      BY DEF BarsAreTheSlots
    <2> DEFINE g == answer.granularity
               bars == MergeSegments(Segments)
               end(i) == bars[i].at + bars[i].count * g
    <2>1. g \in Nat \ {0}
      BY AnswerTypes DEF IInv
    <2>2. PICK n \in Nat : /\ DOMAIN Segments = 1..n
                           /\ Segments \in Seq(Bar) /\ Len(Segments) = n
                           /\ Slots(Segments, n, g)
      BY SegmentsAreSlots DEF IInv
    <2> HIDE DEF g
    <2>3. CASE n = 0
      <3>1. bars = <<>>
        BY <2>2, <2>3, MergeBySlot
      <3>2. Segments = <<>>
        BY <2>2, <2>3
      <3>3. 1..Len(bars) - 1 = {} /\ DOMAIN bars = {}
        BY <3>1
      <3> QED
        BY <3>1, <3>2, <3>3 DEF BarsAreTheSlots, g
    <2>4. CASE n # 0
      <3>1. Covers(bars, Segments, n, g)
        BY <2>1, <2>2, <2>4, MergedCovers
      <3>2. \A i : end(i) = EndOf(bars[i], g)
        BY DEF EndOf
      <3> HIDE DEF bars, end
      <3>3. bars # <<>> /\ Segments # <<>> /\ DOMAIN bars = 1..Len(bars)
        BY <2>2, <2>4, <3>1 DEF Covers
      <3>4. bars[1].at = Segments[1].at
        BY <3>1 DEF Covers
      <3>5. end(Len(bars)) = Last(Segments).at + g
        BY <2>2, <3>1, <3>2 DEF Covers, Last
      <3>6. \A i \in 1..Len(bars) - 1 : end(i) = bars[i + 1].at /\ bars[i].status # bars[i + 1].status
        BY <3>1, <3>2 DEF Covers
      <3>7. ASSUME NEW i \in DOMAIN bars, NEW s \in Shown, bars[i].at <= s.at, s.at < end(i)
            PROVE  s.status = bars[i].status
        <4>1. PICK j \in 1..n : s = Segments[j]
          BY <2>2 DEF Shown
        <4> QED
          BY <3>1, <3>2, <3>3, <3>7, <4>1 DEF Covers
      <3> QED
        BY <3>3, <3>4, <3>5, <3>6, <3>7 DEF BarsAreTheSlots, bars, end, g
    <2> QED
      BY <2>3, <2>4
  <1> QED
    BY <1>1, Invariance, PTL
=============================================================================
