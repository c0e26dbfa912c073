-------------------------- MODULE SpeedtestsProofs --------------------------
(***************************************************************************)
(* Safety of Speedtests for any number of requests and of tests.           *)
(*                                                                         *)
(* None of the properties is inductive by itself: each depends on which    *)
(* fiber awaits which test.  Ownership says it.                            *)
(***************************************************************************)
EXTENDS Speedtests, FiniteSetTheorems, TLAPS

\* The test of a fiber is awaited by it alone, and a scheduled test that is
\* awaited is the monitor's.
Ownership ==
  /\ \A f \in Fibers : test[f] # NoTest => outcome[test[f]] \in Awaiting
  /\ \A f, g \in Fibers : test[f] # NoTest /\ test[f] = test[g] => f = g
  /\ test[Monitor] # NoTest => test[Monitor] \in scheduled
  /\ \A r \in Requests : test[r] # NoTest => test[r] \notin scheduled
  /\ \A t \in scheduled :
       outcome[t] # "unused" /\ (outcome[t] \in Awaiting => t = test[Monitor])

Holds == TypeOK /\ Ownership

IInv ==
  /\ Holds
  /\ GateIsHeldByOne
  /\ LateResultsAreDropped
  /\ CyclesAreCountedOnce

-----------------------------------------------------------------------------
(* The types, and who awaits what.                                         *)

LEMMA InitIInv == Init => IInv
  <1> SUFFICES ASSUME Init PROVE IInv
    OBVIOUS
  <1>1. Holds /\ GateIsHeldByOne /\ LateResultsAreDropped
    BY DEF Init, Holds, TypeOK, Ownership, GateIsHeldByOne, LateResultsAreDropped, Fibers,
           Outcomes
  <1>2. {t \in scheduled : outcome[t] \notin Awaiting} = {}
    BY DEF Init
  <1>3. CyclesAreCountedOnce
    BY <1>2, FS_EmptySet DEF Init, CyclesAreCountedOnce
  <1> QED
    BY <1>1, <1>3 DEF IInv

LEMMA TypeStep == TypeOK /\ [Next]_vars => TypeOK'
  <1> SUFFICES ASSUME TypeOK, [Next]_vars PROVE TypeOK'
    OBVIOUS
  <1> USE DEF TypeOK, Fibers, Outcomes, stats, InState
  <1>1. ASSUME NEW r \in Requests, RequestStep(r) PROVE TypeOK'
    BY <1>1 DEF RequestStep, Trigger, TestFails, TimesOut, Answer, ClientGone, RunTest, Conclude
  <1>2. ASSUME NEW f \in Fibers, ResultArrives(f) PROVE TypeOK'
    BY <1>2 DEF ResultArrives
  <1>3. ASSUME NEW t \in Tests, NativeEndsUnheard(t) PROVE TypeOK'
    BY <1>3 DEF NativeEndsUnheard
  <1>4. CASE BeginCycle
    BY <1>4 DEF BeginCycle, RunTest
  <1>5. CASE CycleFails
    BY <1>5 DEF CycleFails, Conclude
  <1>6. CASE CycleEnds
    BY <1>6 DEF CycleEnds, Conclude
  <1>7. CASE UNCHANGED vars
    BY <1>7 DEF vars
  <1> QED
    BY <1>1, <1>2, <1>3, <1>4, <1>5, <1>6, <1>7 DEF Next

\* A fiber that starts a test awaits one that nobody knew.
LEMMA RunTestOwned ==
  ASSUME Holds, TypeOK', NEW f \in Fibers, NEW t \in Tests, RunTest(f, t),
         scheduled' = IF f = Monitor THEN scheduled \cup {t} ELSE scheduled
  PROVE  Ownership'
  BY SpeedtestAssumption DEF Holds, TypeOK, Ownership, RunTest, Fibers, Awaiting

\* A fiber that concludes its test leaves those of the others.
LEMMA ConcludeOwned ==
  ASSUME Holds, NEW f \in Fibers, NEW how \in Outcomes \ {"unused", "awaited", "arrived"},
         test[f] # NoTest, Conclude(f, how), UNCHANGED scheduled
  PROVE  Ownership'
  BY SpeedtestAssumption DEF Holds, TypeOK, Ownership, Conclude, Fibers, Awaiting, Outcomes

LEMMA OwnershipStep == Holds /\ [Next]_vars => Ownership'
  <1> SUFFICES ASSUME Holds, [Next]_vars PROVE Ownership'
    OBVIOUS
  <1>0. TypeOK'
    BY TypeStep DEF Holds
  <1>1. ASSUME NEW r \in Requests, RequestStep(r) PROVE Ownership'
    <2> r \in Fibers /\ r # Monitor
      BY SpeedtestAssumption DEF Fibers
    <2>1. CASE Trigger(r)
      BY <1>0, <2>1, RunTestOwned DEF Trigger
    <2>2. CASE TestFails(r)
      BY <2>2, ConcludeOwned DEF TestFails, InState, Outcomes
    <2>3. CASE TimesOut(r)
      BY <2>3, ConcludeOwned DEF TimesOut, InState, Outcomes
    <2>4. CASE Answer(r)
      BY <2>4, ConcludeOwned DEF Answer, InState, Outcomes
    <2>5. CASE ClientGone(r)
      BY <2>5, ConcludeOwned DEF ClientGone, Outcomes
    <2> QED
      BY <1>1, <2>1, <2>2, <2>3, <2>4, <2>5 DEF RequestStep
  <1>2. ASSUME NEW f \in Fibers, ResultArrives(f) PROVE Ownership'
    BY <1>2 DEF ResultArrives, InState, Holds, TypeOK, Ownership, Awaiting, Fibers
  <1>3. ASSUME NEW t \in Tests, NativeEndsUnheard(t) PROVE Ownership'
    BY <1>3 DEF NativeEndsUnheard, Holds, Ownership
  <1>4. CASE BeginCycle
    BY <1>0, <1>4, RunTestOwned DEF BeginCycle, Fibers
  <1>5. CASE CycleFails
    BY <1>5, ConcludeOwned DEF CycleFails, InState, Outcomes, Fibers
  <1>6. CASE CycleEnds
    BY <1>6, ConcludeOwned DEF CycleEnds, InState, Outcomes, Fibers
  <1>7. CASE UNCHANGED vars
    BY <1>7 DEF vars, Holds, Ownership
  <1> QED
    BY <1>1, <1>2, <1>3, <1>4, <1>5, <1>6, <1>7 DEF Next

-----------------------------------------------------------------------------
(* The properties.                                                         *)

LEMMA GateStep == Holds /\ GateIsHeldByOne /\ [Next]_vars => GateIsHeldByOne'
  <1> SUFFICES ASSUME Holds, GateIsHeldByOne, [Next]_vars PROVE GateIsHeldByOne'
    OBVIOUS
  <1> USE SpeedtestAssumption DEF Holds, TypeOK, GateIsHeldByOne, Fibers, InState
  <1>1. ASSUME NEW r \in Requests, RequestStep(r) PROVE GateIsHeldByOne'
    <2>1. CASE Trigger(r)
      BY <2>1 DEF Trigger, RunTest
    <2>2. ASSUME test[r] # NoTest, test' = [test EXCEPT ![r] = NoTest], isRunning' = FALSE
          PROVE  GateIsHeldByOne'
      BY <2>2
    <2> QED
      BY <1>1, <2>1, <2>2 DEF RequestStep, TestFails, TimesOut, Answer, ClientGone, Conclude
  <1>2. ASSUME NEW f \in Fibers, ResultArrives(f) PROVE GateIsHeldByOne'
    BY <1>2 DEF ResultArrives
  <1>3. ASSUME NEW t \in Tests, NativeEndsUnheard(t) PROVE GateIsHeldByOne'
    BY <1>3 DEF NativeEndsUnheard
  <1>4. CASE BeginCycle
    BY <1>4 DEF BeginCycle, RunTest
  <1>5. CASE CycleFails
    BY <1>5 DEF CycleFails, Conclude
  <1>6. CASE CycleEnds
    BY <1>6 DEF CycleEnds, Conclude
  <1>7. CASE UNCHANGED vars
    BY <1>7 DEF vars
  <1> QED
    BY <1>1, <1>2, <1>3, <1>4, <1>5, <1>6, <1>7 DEF Next

LEMMA LateStep == Holds /\ LateResultsAreDropped /\ [Next]_vars => LateResultsAreDropped'
  <1> SUFFICES ASSUME Holds, LateResultsAreDropped, [Next]_vars PROVE LateResultsAreDropped'
    OBVIOUS
  <1> USE SpeedtestAssumption DEF Holds, TypeOK, LateResultsAreDropped, Fibers, InState
  <1>1. ASSUME NEW r \in Requests, RequestStep(r) PROVE LateResultsAreDropped'
    BY <1>1 DEF RequestStep, Trigger, TestFails, TimesOut, Answer, ClientGone, RunTest, Conclude
  <1>2. ASSUME NEW f \in Fibers, ResultArrives(f) PROVE LateResultsAreDropped'
    BY <1>2 DEF ResultArrives
  <1>3. ASSUME NEW t \in Tests, NativeEndsUnheard(t) PROVE LateResultsAreDropped'
    BY <1>3 DEF NativeEndsUnheard
  <1>4. CASE BeginCycle
    BY <1>4 DEF BeginCycle, RunTest
  <1>5. CASE CycleFails
    BY <1>5 DEF CycleFails, Conclude
  <1>6. CASE CycleEnds
    BY <1>6 DEF CycleEnds, Conclude
  <1>7. CASE UNCHANGED vars
    BY <1>7 DEF vars
  <1> QED
    BY <1>1, <1>2, <1>3, <1>4, <1>5, <1>6, <1>7 DEF Next

\* The scheduled tests that are over.
Over == {t \in scheduled : outcome[t] \notin Awaiting}

\* A step that ends no cycle leaves the tests that are over as they are.
LEMMA CountUntouched ==
  ASSUME CyclesAreCountedOnce, Over' = Over, Over' \cap rows' = Over \cap rows, UNCHANGED stats,
         \A t \in Over : outcome'[t] = outcome[t]
  PROVE  CyclesAreCountedOnce'
  <1>1. Over' \ rows' = Over \ rows
    OBVIOUS
  <1> QED
    BY <1>1 DEF CyclesAreCountedOnce, Over, stats

\* The monitor's test joins those that are over when it is concluded.
LEMMA CountConcluded ==
  ASSUME Holds, NEW how \in Outcomes \ {"unused", "awaited", "arrived"}, test[Monitor] # NoTest,
         Conclude(Monitor, how), UNCHANGED <<scheduled, rows>>
  PROVE  /\ Over' = Over \cup {test[Monitor]}
         /\ test[Monitor] \notin Over
         /\ \A t \in Over : outcome'[t] = outcome[t]
         /\ outcome'[test[Monitor]] = how
         /\ IsFiniteSet(Over \cap rows) /\ IsFiniteSet(Over \ rows)
  <1>1. Monitor \in Fibers /\ test[Monitor] \in Tests /\ Over \subseteq Tests
    BY DEF Holds, TypeOK, Fibers, Over
  <1>2. IsFiniteSet(Over \cap rows) /\ IsFiniteSet(Over \ rows)
    BY <1>1, FS_Subset, SpeedtestAssumption
  <1> QED
    BY <1>1, <1>2 DEF Over, Holds, TypeOK, Ownership, Conclude, Awaiting, Outcomes

LEMMA CountStep ==
  Holds /\ LateResultsAreDropped /\ CyclesAreCountedOnce /\ [Next]_vars => CyclesAreCountedOnce'
  <1> SUFFICES ASSUME Holds, LateResultsAreDropped, CyclesAreCountedOnce, [Next]_vars
               PROVE  CyclesAreCountedOnce'
    OBVIOUS
  <1>1. ASSUME NEW r \in Requests, RequestStep(r) PROVE CyclesAreCountedOnce'
    <2> r \in Fibers
      BY DEF Fibers
    <2>1. UNCHANGED <<scheduled, rows, stats>>
      BY <1>1 DEF RequestStep, Trigger, TestFails, TimesOut, Answer, ClientGone
    <2>2. \A t \in scheduled : outcome'[t] = outcome[t]
      BY <1>1 DEF Holds, TypeOK, Ownership, RequestStep, Trigger, TestFails, TimesOut, Answer,
                  ClientGone, RunTest, Conclude, InState
    <2> QED
      BY <2>1, <2>2, CountUntouched DEF Over
  <1>2. ASSUME NEW f \in Fibers, ResultArrives(f) PROVE CyclesAreCountedOnce'
    <2>1. test[f] \in Tests /\ test[f] \notin Over /\ outcome'[test[f]] \in Awaiting
      BY <1>2 DEF ResultArrives, InState, Holds, TypeOK, Over, Awaiting
    <2>2. UNCHANGED <<scheduled, stats>> /\ rows' \in {rows, rows \cup {test[f]}}
      BY <1>2 DEF ResultArrives
    <2>3. \A t \in Tests \ {test[f]} : outcome'[t] = outcome[t]
      BY <1>2 DEF ResultArrives, Holds, TypeOK
    <2>4. Over' = Over
      BY <2>1, <2>2, <2>3 DEF Over, Holds, TypeOK
    <2> QED
      BY <2>1, <2>2, <2>3, <2>4, CountUntouched DEF Over, Holds, TypeOK
  <1>3. ASSUME NEW t \in Tests, NativeEndsUnheard(t) PROVE CyclesAreCountedOnce'
    BY <1>3, CountUntouched DEF NativeEndsUnheard, Over
  <1>4. CASE BeginCycle
    <2>1. PICK t \in Tests : RunTest(Monitor, t) /\ scheduled' = scheduled \cup {t}
      BY <1>4 DEF BeginCycle
    <2>2. t \notin scheduled /\ outcome'[t] \in Awaiting
      BY <2>1 DEF RunTest, Holds, TypeOK, Ownership, Awaiting
    <2>3. \A s \in scheduled : outcome'[s] = outcome[s]
      BY <2>1, <2>2 DEF RunTest, Holds, TypeOK
    <2>4. Over' = Over
      BY <2>1, <2>2, <2>3 DEF Over
    <2> QED
      BY <1>4, <2>3, <2>4, CountUntouched DEF BeginCycle, Over
  <1>5. CASE CycleFails
    <2> DEFINE t == test[Monitor]
    <2>0. t # NoTest /\ outcome[t] = "awaited"
      BY <1>5 DEF CycleFails, InState
    <2>1. PICK how \in {"failed", "timedOut"} : Conclude(Monitor, how)
      BY <1>5 DEF CycleFails
    <2>2. /\ UNCHANGED <<scheduled, rows, lastSpeedTest, successfulSpeedTests>>
          /\ failedSpeedTests' = failedSpeedTests + 1
      BY <1>5 DEF CycleFails
    <2>3. /\ Over' = Over \cup {t} /\ t \notin Over
          /\ \A s \in Over : outcome'[s] = outcome[s]
          /\ IsFiniteSet(Over \ rows)
      BY <2>0, <2>1, <2>2, CountConcluded DEF Outcomes
    <2>4. t \notin rows
      BY <2>0 DEF LateResultsAreDropped
    <2>5. /\ Over' \cap rows' = Over \cap rows
          /\ Over' \ rows' = (Over \ rows) \cup {t}
      BY <2>2, <2>3, <2>4
    <2>6. Cardinality((Over \ rows) \cup {t}) = Cardinality(Over \ rows) + 1
      BY <2>3, FS_AddElement
    <2> QED
      BY <2>2, <2>3, <2>5, <2>6 DEF CyclesAreCountedOnce, Over
  <1>6. CASE CycleEnds
    <2> DEFINE t == test[Monitor]
    <2>0. t # NoTest /\ Conclude(Monitor, "reported") /\ lastSpeedTest' = t
      BY <1>6 DEF CycleEnds, InState
    <2>1. UNCHANGED <<scheduled, rows>>
      BY <1>6 DEF CycleEnds
    <2>2. /\ Over' = Over \cup {t} /\ t \notin Over /\ outcome'[t] = "reported"
          /\ IsFiniteSet(Over \cap rows) /\ IsFiniteSet(Over \ rows)
      BY <2>0, <2>1, CountConcluded DEF Outcomes
    <2>3. CASE t \in rows
      <3>1. successfulSpeedTests' = successfulSpeedTests + 1 /\ UNCHANGED failedSpeedTests
        BY <1>6, <2>3 DEF CycleEnds
      <3>2. /\ Over' \cap rows' = (Over \cap rows) \cup {t}
            /\ Over' \ rows' = Over \ rows
        BY <2>1, <2>2, <2>3
      <3>3. Cardinality((Over \cap rows) \cup {t}) = Cardinality(Over \cap rows) + 1
        BY <2>2, FS_AddElement
      <3> QED
        BY <2>0, <2>2, <3>1, <3>2, <3>3 DEF CyclesAreCountedOnce, Over
    <2>4. CASE t \notin rows
      <3>1. failedSpeedTests' = failedSpeedTests + 1 /\ UNCHANGED successfulSpeedTests
        BY <1>6, <2>4 DEF CycleEnds
      <3>2. /\ Over' \ rows' = (Over \ rows) \cup {t}
            /\ Over' \cap rows' = Over \cap rows
        BY <2>1, <2>2, <2>4
      <3>3. Cardinality((Over \ rows) \cup {t}) = Cardinality(Over \ rows) + 1
        BY <2>2, FS_AddElement
      <3> QED
        BY <2>0, <2>2, <3>1, <3>2, <3>3 DEF CyclesAreCountedOnce, Over
    <2> QED
      BY <2>3, <2>4
  <1>7. CASE UNCHANGED vars
    BY <1>7, CountUntouched DEF vars, Over
  <1> QED
    BY <1>1, <1>2, <1>3, <1>4, <1>5, <1>6, <1>7 DEF Next

-----------------------------------------------------------------------------
(* The theorems.                                                           *)

\* Who awaits what, and the three properties, hold in every reachable state.
THEOREM Invariance == Spec => []IInv
  <1>1. Init => IInv
    BY InitIInv
  <1>2. IInv /\ [Next]_vars => IInv'
    BY TypeStep, OwnershipStep, GateStep, LateStep, CountStep DEF IInv, Holds
  <1> QED
    BY <1>1, <1>2, PTL DEF Spec

\* Every variable keeps its type.
THEOREM TypeCorrect == Spec => []TypeOK
  <1>1. IInv => TypeOK
    BY DEF IInv, Holds
  <1> QED
    BY <1>1, Invariance, PTL

\* isRunningRef is set exactly while one request has a test to conclude.
THEOREM GateHeldByOne == Spec => []GateIsHeldByOne
  <1>1. IInv => GateIsHeldByOne
    BY DEF IInv
  <1> QED
    BY <1>1, Invariance, PTL

\* A test that failed or timed out leaves no row.
THEOREM LateResultsDropped == Spec => []LateResultsAreDropped
  <1>1. IInv => LateResultsAreDropped
    BY DEF IInv
  <1> QED
    BY <1>1, Invariance, PTL

\* The statistics count every scheduled test that is over once.
THEOREM CyclesCountedOnce == Spec => []CyclesAreCountedOnce
  <1>1. IInv => CyclesAreCountedOnce
    BY DEF IInv
  <1> QED
    BY <1>1, Invariance, PTL

=============================================================================
