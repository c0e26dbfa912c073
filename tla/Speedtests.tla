----------------------------- MODULE Speedtests -----------------------------
(***************************************************************************)
(* Speed tests, scheduled (network-monitor.ts) and requested by            *)
(* POST /speedtest/trigger (handlers/speedtest.ts), on top of runTest      *)
(* (speedtest/service.ts).  Requests exclude each other by isRunningRef,   *)
(* which the scheduled tests do not look at.  The native test is a promise *)
(* that nothing can cancel: the fiber that awaits it gives up after the    *)
(* timeout, or with its client, and the test goes on without it.           *)
(***************************************************************************)

EXTENDS Naturals, FiniteSets

CONSTANTS
  Requests,  \* the fibers of POST /speedtest/trigger at once
  Monitor,   \* the fiber of the scheduled cycles
  Tests,     \* bound: the native tests of a run, each used once
  NoTest

ASSUME SpeedtestAssumption ==
  /\ Monitor \notin Requests
  /\ NoTest \notin Tests
  /\ IsFiniteSet(Tests)

VARIABLES
  isRunning,             \* isRunningRef
  test,                  \* the test each fiber has started and not concluded
  inFlight,              \* native tests whose promise is pending
  outcome,               \* what became of each test, as its fiber sees it
  scheduled,             \* the tests the monitor started (history)
  rows,                  \* the tests whose row a sender accepted (history)
  lastSpeedTest,         \* statsRef.lastSpeedTestTime: the test begun then
  successfulSpeedTests,  \* statsRef.successfulSpeedTests
  failedSpeedTests       \* statsRef.failedSpeedTests

stats == <<lastSpeedTest, successfulSpeedTests, failedSpeedTests>>
vars == <<isRunning, test, inFlight, outcome, scheduled, rows, stats>>

Fibers == Requests \cup {Monitor}

\* A test is awaited until it arrives (its row is being written), fails or times
\* out; an arrived test is reported to whoever asked.  A request whose client is
\* gone abandons its test in either state.
Awaiting == {"awaited", "arrived"}
Outcomes == {"unused", "awaited", "arrived", "reported", "failed", "timedOut", "abandoned"}

TypeOK ==
  /\ isRunning \in BOOLEAN
  /\ test \in [Fibers -> Tests \cup {NoTest}]
  /\ inFlight \subseteq Tests
  /\ outcome \in [Tests -> Outcomes]
  /\ scheduled \subseteq Tests
  /\ rows \subseteq Tests
  /\ lastSpeedTest \in Tests \cup {NoTest}
  /\ successfulSpeedTests \in Nat
  /\ failedSpeedTests \in Nat

Init ==
  /\ isRunning = FALSE
  /\ test = [f \in Fibers |-> NoTest]
  /\ inFlight = {}
  /\ outcome = [t \in Tests |-> "unused"]
  /\ scheduled = {}
  /\ rows = {}
  /\ lastSpeedTest = NoTest
  /\ successfulSpeedTests = 0
  /\ failedSpeedTests = 0

-----------------------------------------------------------------------------
(* The parts of a test.                                                    *)

\* runTest: the executor starts another native test.
RunTest(f, t) ==
  /\ test[f] = NoTest
  /\ outcome[t] = "unused"
  /\ test' = [test EXCEPT ![f] = t]
  /\ outcome' = [outcome EXCEPT ![t] = "awaited"]
  /\ inFlight' = inFlight \cup {t}

\* The fiber is done with its test.
Conclude(f, how) ==
  /\ test' = [test EXCEPT ![f] = NoTest]
  /\ outcome' = [outcome EXCEPT ![test[f]] = how]

InState(f, state) == test[f] # NoTest /\ outcome[test[f]] = state

\* The native test ends well and in time, and its row is written: accepted by a
\* sender at once, or refused.
ResultArrives(f) ==
  /\ InState(f, "awaited")
  /\ test[f] \in inFlight
  /\ inFlight' = inFlight \ {test[f]}
  /\ outcome' = [outcome EXCEPT ![test[f]] = "arrived"]
  /\ rows' \in {rows, rows \cup {test[f]}}
  /\ UNCHANGED <<isRunning, test, scheduled, stats>>

\* Mutant: the result of a test nobody awaits is stored.
NativeEndsUnheardStored(t) ==
  /\ t \in inFlight
  /\ outcome[t] # "awaited"
  /\ inFlight' = inFlight \ {t}
  /\ rows' = rows \cup {t}
  /\ UNCHANGED <<isRunning, test, outcome, scheduled, stats>>

\* A native test that nobody awaits any more ends: its result is dropped.
NativeEndsUnheard(t) ==
  /\ t \in inFlight
  /\ outcome[t] # "awaited"
  /\ inFlight' = inFlight \ {t}
  /\ UNCHANGED <<isRunning, test, outcome, scheduled, rows, stats>>

-----------------------------------------------------------------------------
(* POST /speedtest/trigger.                                                *)

\* triggerSpeedTestHandler gets the flag; without it the handler answers
\* ALREADY_RUNNING and changes nothing.  Ref.modify and the start of the test
\* are one step: no await lies between them.
Trigger(r) ==
  /\ ~isRunning
  /\ isRunning' = TRUE
  /\ \E t \in Tests : RunTest(r, t)
  /\ UNCHANGED <<scheduled, rows, stats>>

\* Mutant: an outcome the response schema does not list.
TestFailsUnlisted(r) ==
  /\ InState(r, "awaited")
  /\ test[r] \in inFlight
  /\ inFlight' = inFlight \ {test[r]}
  /\ Conclude(r, "aborted")
  /\ isRunning' = FALSE
  /\ UNCHANGED <<scheduled, rows, stats>>

\* The native test fails (its promise is rejected, or never made).
TestFails(r) ==
  /\ InState(r, "awaited")
  /\ test[r] \in inFlight
  /\ inFlight' = inFlight \ {test[r]}
  /\ Conclude(r, "failed")
  /\ isRunning' = FALSE
  /\ UNCHANGED <<scheduled, rows, stats>>

\* Mutant: the timeout waits for the native test it interrupts.
TimesOutWaiting(r) ==
  /\ InState(r, "awaited")
  /\ test[r] \notin inFlight
  /\ Conclude(r, "timedOut")
  /\ isRunning' = FALSE
  /\ UNCHANGED <<inFlight, scheduled, rows, stats>>

\* Effect.timeout interrupts the wait, not the native test.
TimesOut(r) ==
  /\ InState(r, "awaited")
  /\ Conclude(r, "timedOut")
  /\ isRunning' = FALSE
  /\ UNCHANGED <<inFlight, scheduled, rows, stats>>

\* The write is over, well or not: the handler answers success.
Answer(r) ==
  /\ InState(r, "arrived")
  /\ Conclude(r, "reported")
  /\ isRunning' = FALSE
  /\ UNCHANGED <<inFlight, scheduled, rows, stats>>

\* Mutant: the flag is reset in the handler's last step only.
ClientGoneUnreleased(r) ==
  /\ test[r] # NoTest
  /\ Conclude(r, "abandoned")
  /\ UNCHANGED <<isRunning, inFlight, scheduled, rows, stats>>

\* The client is gone and the server interrupts the handler: ensuring resets the
\* flag.
ClientGone(r) ==
  /\ test[r] # NoTest
  /\ Conclude(r, "abandoned")
  /\ isRunning' = FALSE
  /\ UNCHANGED <<inFlight, scheduled, rows, stats>>

-----------------------------------------------------------------------------
(* executeSpeedTestCycle, repeated forever.                                *)

BeginCycle ==
  /\ \E t \in Tests : RunTest(Monitor, t) /\ scheduled' = scheduled \cup {t}
  /\ UNCHANGED <<isRunning, rows, stats>>

\* Mutant: the error of a cycle ends the loop (Effect.catch outside the repeat).
CycleFailsForGood ==
  /\ InState(Monitor, "awaited")
  /\ inFlight' \in {inFlight, inFlight \ {test[Monitor]}}
  /\ outcome' = [outcome EXCEPT ![test[Monitor]] = "failed"]
  /\ failedSpeedTests' = failedSpeedTests + 1
  /\ UNCHANGED <<test, isRunning, scheduled, rows, lastSpeedTest, successfulSpeedTests>>

\* The cycle's test fails or times out: it is counted and the error ends the
\* cycle, but not the loop.
CycleFails ==
  /\ InState(Monitor, "awaited")
  /\ \/ /\ test[Monitor] \in inFlight
        /\ inFlight' = inFlight \ {test[Monitor]}
        /\ Conclude(Monitor, "failed")
     \/ /\ UNCHANGED inFlight
        /\ Conclude(Monitor, "timedOut")
  /\ failedSpeedTests' = failedSpeedTests + 1
  /\ UNCHANGED <<isRunning, scheduled, rows, lastSpeedTest, successfulSpeedTests>>

\* Mutant: a result counts as a success, written or not.
CycleEndsUnread ==
  /\ InState(Monitor, "arrived")
  /\ Conclude(Monitor, "reported")
  /\ lastSpeedTest' = test[Monitor]
  /\ successfulSpeedTests' = successfulSpeedTests + 1
  /\ UNCHANGED <<isRunning, inFlight, scheduled, rows, failedSpeedTests>>

\* The write is over: the cycle is a success if the row was accepted.
CycleEnds ==
  /\ InState(Monitor, "arrived")
  /\ Conclude(Monitor, "reported")
  /\ lastSpeedTest' = test[Monitor]
  /\ IF test[Monitor] \in rows
       THEN /\ successfulSpeedTests' = successfulSpeedTests + 1
            /\ UNCHANGED failedSpeedTests
       ELSE /\ failedSpeedTests' = failedSpeedTests + 1
            /\ UNCHANGED successfulSpeedTests
  /\ UNCHANGED <<isRunning, inFlight, scheduled, rows>>

-----------------------------------------------------------------------------
RequestStep(r) ==
  \/ Trigger(r) \/ TestFails(r) \/ TimesOut(r) \/ Answer(r) \/ ClientGone(r)

Next ==
  \/ \E r \in Requests : RequestStep(r)
  \/ \E f \in Fibers : ResultArrives(f)
  \/ \E t \in Tests : NativeEndsUnheard(t)
  \/ BeginCycle \/ CycleFails \/ CycleEnds

Spec == Init /\ [][Next]_vars

\* Effect.timeout and Effect.repeat's schedule fire, and a write comes to an end.
\* Nothing says that a native test ever ends.
Fairness ==
  /\ \A r \in Requests : WF_vars(TimesOut(r)) /\ WF_vars(Answer(r))
  /\ WF_vars(CycleFails) /\ WF_vars(CycleEnds) /\ WF_vars(BeginCycle)

FairSpec == Spec /\ Fairness

-----------------------------------------------------------------------------
(* Correctness.                                                            *)

\* The flag is set exactly while one request has a test to conclude, however it
\* ends: no two requests test at once, and no request finds the flag set with
\* nobody left to reset it.
GateIsHeldByOne ==
  /\ isRunning <=> \E r \in Requests : test[r] # NoTest
  /\ \A r, s \in Requests : test[r] # NoTest /\ test[s] # NoTest => r = s

\* What a fiber was told is what the table shows: a test that failed or timed out
\* for the one who awaited it leaves no row, even if the native test ends well
\* afterwards.
LateResultsAreDropped ==
  \A t \in rows : outcome[t] \in {"arrived", "reported", "abandoned"}

\* Every scheduled test that is over is counted once: a success if its row was
\* accepted, a failure otherwise.  lastSpeedTestTime is that of a scheduled test
\* that brought a result.
CyclesAreCountedOnce ==
  LET over == {t \in scheduled : outcome[t] \notin Awaiting} IN
    /\ successfulSpeedTests = Cardinality(over \cap rows)
    /\ failedSpeedTests = Cardinality(over \ rows)
    /\ lastSpeedTest # NoTest => lastSpeedTest \in over /\ outcome[lastSpeedTest] = "reported"

\* A test that hangs is concluded all the same, and with it the flag is free and
\* the next cycle can begin.
TestsAreConcluded ==
  \A f \in Fibers : test[f] # NoTest ~> test[f] = NoTest

\* The monitor goes on to test, whatever the outcome of its cycles.
MonitorKeepsTesting == \A t \in Tests : <>(outcome[t] # "unused")

=============================================================================
