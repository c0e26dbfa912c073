----------------------- MODULE QuestDBConnectionProofs -----------------------
(***************************************************************************)
(* Safety of QuestDBConnection for any set of connections and of fibers.   *)
(*                                                                         *)
(* The properties of a published connection are not inductive by           *)
(* themselves: they depend on which fiber works on which connection.  IInv *)
(* adds that to them.                                                      *)
(***************************************************************************)
EXTENDS QuestDBConnection, TLAPS

\* The loop works on a connection in the phases that need one, and closes or
\* checks only the connection it found published, which nobody exchanges.
LoopHolds ==
  /\ pc[Loop] \in {"top", "sleep", "dead", "health"} \cup Creating \cup Discarding \cup Closing
  /\ pc[Loop] \in {"top", "sleep", "dead"} => conn[Loop] = NoConn
  /\ pc[Loop] \in {"health"} \cup Creating \cup Discarding \cup Closing => conn[Loop] \in Conns
  /\ pc[Loop] \in {"health"} \cup Closing => connection \in {conn[Loop], NoConn}
  /\ pc[Loop] \in Closing => how[Loop] = "mark"

\* The other fibers hold a connection while they query or close it.
FibersHold ==
  /\ \A f \in Fibers : pc[f] \in {"ready", "query", "broken"} \cup Closing
  /\ \A f \in Fibers : pc[f] \in Closing => how[f] \in {"mark", "close"}
  /\ pc[Finalizer] \in {"ready", "dead"} \cup Closing
  /\ pc[Finalizer] \in Closing => how[Finalizer] = "finalize"
  /\ \A p \in Procs \ {Loop} : pc[p] \in {"query"} \cup Closing => conn[p] \in Conns

\* What the candidate owns, phase by phase.
CandidateOwns ==
  /\ pc[Loop] = "sender" => conn[Loop] \notin openSenders \cup openPools
  /\ pc[Loop] \in {"verify", "bootstrap"} => conn[Loop] \in openSenders \cap openPools

\* A listener belongs to an open pool, and a detached cleanup reaches the
\* published connection only after the finalizer is done.
ListenersAndCleanups ==
  /\ watched \subseteq openPools
  /\ connection \in detached => pc[Finalizer] = "dead"

\* A pool that was ended stays ended while the fiber that ended it awaits.
EndedStaysEnded ==
  \A p \in Procs : pc[p] = "endPool" => conn[p] \notin openPools

\* Who works on what: inductive by itself.
Holds ==
  /\ TypeOK
  /\ LoopHolds
  /\ FibersHold

IInv ==
  /\ Holds
  /\ CandidateOwns
  /\ ListenersAndCleanups
  /\ EndedStaysEnded
  /\ DeadIsBeingWithdrawn
  /\ CandidateIsPrivate
  /\ PublishedPoolIsWatched

-----------------------------------------------------------------------------
(* The types, and who works on what.                                       *)

LEMMA InitType == Init => TypeOK
  BY DistinctNames DEF Init, TypeOK, Procs, Phases, Creating, Discarding, Closing

LEMMA GoesType ==
  ASSUME TypeOK, NEW p \in Procs, NEW to \in Phases, NEW c \in Conns \cup {NoConn},
         Goes(p, to, c)
  PROVE  /\ pc' \in [Procs -> Phases]
         /\ conn' \in [Procs -> Conns \cup {NoConn}]
  BY DEF TypeOK, Goes

LEMMA ReadRefType ==
  ASSUME TypeOK, NEW p \in Procs, NEW op \in {"mark", "close", "finalize"},
         ReadRefToClose(p, op)
  PROVE  TypeOK'
  <1>1. "flush" \in Phases
    BY DEF Phases, Closing
  <1>2. connection \in Conns \cup {NoConn}
    BY DEF TypeOK
  <1>3. /\ pc' \in [Procs -> Phases]
        /\ conn' \in [Procs -> Conns \cup {NoConn}]
    BY <1>1, <1>2, GoesType DEF ReadRefToClose
  <1> QED
    BY <1>3 DEF ReadRefToClose, TypeOK, state, resources

LEMMA CloseStepType ==
  ASSUME Holds, NEW p \in Procs,
         CloseStep(p) \/ CloseReturns(p)
  PROVE  TypeOK'
  <1>1. {"closeSender", "endPool", "top", "ready"} \subseteq Phases
    BY DEF Phases, Closing
  <1>2. conn[p] \in Conns \cup {NoConn} /\ NoConn \in Conns \cup {NoConn}
    BY DEF Holds, TypeOK
  <1>3. /\ pc' \in [Procs -> Phases]
        /\ conn' \in [Procs -> Conns \cup {NoConn}]
    <2>1. CASE CloseSender(p)
      BY <2>1, <1>1, <1>2, GoesType DEF CloseSender, Holds
    <2>2. CASE EndPool(p)
      BY <2>2, <1>1, <1>2, GoesType DEF EndPool, Holds
    <2>3. CASE MarkDisconnected(p)
      BY <2>3, <1>1, <1>2, GoesType DEF MarkDisconnected, Holds
    <2>4. CASE CloseReturns(p)
      BY <2>4, <1>1, <1>2, GoesType DEF CloseReturns, Holds
    <2> QED
      BY <2>1, <2>2, <2>3, <2>4 DEF CloseStep
  <1> QED
    BY <1>3 DEF CloseStep, CloseReturns, CloseSender, EndPool, MarkDisconnected,
                SetDisconnected, Holds, TypeOK, state, resources

LEMMA NextType == Holds /\ [Next]_vars => TypeOK'
  <1> SUFFICES ASSUME Holds, [Next]_vars
               PROVE  TypeOK'
    OBVIOUS
  <1> USE DistinctNames DEF Holds, TypeOK, Procs, Phases, Creating, Discarding, Closing,
          state, resources
  <1>1. CASE LoopStep
    <2>1. ASSUME NEW c \in Conns, StartConnecting(c) PROVE TypeOK'
      BY <2>1 DEF StartConnecting, Goes
    <2>2. CASE SenderReady
      BY <2>2 DEF SenderReady, LoopHolds, Goes
    <2>3. CASE Verified \/ Wake \/ HealthCheckPasses
      BY <2>3 DEF Verified, Wake, HealthCheckPasses, Goes
    <2>11. CASE StartHealthCheck
      BY <2>11 DEF StartHealthCheck, Goes
    <2>4. CASE Publish
      BY <2>4 DEF Publish, LoopHolds, Goes
    <2>5. CASE SenderFails \/ Discarded
      BY <2>5 DEF SenderFails, Discarded, AttemptFailed, Goes
    <2>6. CASE AttemptTimesOut
      BY <2>6 DEF AttemptTimesOut, AttemptFailed, LoopHolds, Goes
    <2>7. CASE DiscardTimesOut
      BY <2>7 DEF DiscardTimesOut, AttemptFailed, LoopHolds, Goes
    <2>8. CASE DiscardSender \/ DiscardPool
      BY <2>8 DEF DiscardSender, DiscardPool, Goes
    <2>9. CASE HealthCheckFails
      <3>1. CASE ReadRefToClose(Loop, "mark")
        BY <3>1, ReadRefType
      <3>2. CASE ~ReadRefToClose(Loop, "mark")
        BY <2>9, <3>2 DEF HealthCheckFails, SetDisconnected, Goes
      <3> QED
        BY <3>1, <3>2
    <2>10. CASE CloseStep(Loop)
      BY <2>10, CloseStepType
    <2> QED
      BY <1>1, <2>1, <2>2, <2>3, <2>4, <2>5, <2>6, <2>7, <2>8, <2>9, <2>10, <2>11 DEF LoopStep
  <1>2. ASSUME NEW f \in Fibers, FiberStep(f) PROVE TypeOK'
    <2>1. CASE QueryReturns(f) \/ QueryBreaks(f)
      BY <2>1 DEF QueryReturns, QueryBreaks, Goes
    <2>8. CASE StartQuery(f)
      BY <2>8 DEF StartQuery, Goes
    <2>2. CASE QueryUnavailable(f)
      BY <2>2 DEF QueryUnavailable, SetDisconnected
    <2>3. ASSUME NEW c \in Conns, PoolError(c, f) PROVE TypeOK'
      BY <2>3 DEF PoolError, Goes
    <2>4. CASE ReadRefToClose(f, "mark") \/ ReadRefToClose(f, "close")
      BY <2>4, ReadRefType
    <2>5. CASE ReportError(f) /\ ~ReadRefToClose(f, "mark")
      BY <2>5 DEF ReportError, SetDisconnected, Goes
    <2>6. CASE Close(f) /\ ~ReadRefToClose(f, "close")
      BY <2>6 DEF Close
    <2>7. CASE CloseReturns(f) \/ CloseStep(f)
      BY <2>7, CloseStepType
    <2> QED
      BY <1>2, <2>1, <2>2, <2>3, <2>4, <2>5, <2>6, <2>7, <2>8 DEF FiberStep
  <1>3. CASE FinalizerStep
    <2>1. CASE ReadRefToClose(Finalizer, "finalize")
      BY <2>1, ReadRefType
    <2>2. CASE CloseSender(Finalizer) \/ EndPool(Finalizer)
      BY <2>2, CloseStepType DEF CloseStep
    <2>3. CASE InterruptLoop /\ UNCHANGED <<state, openSenders, openPools, watched, how, db>>
      <3>1. conn[Loop] \in Conns \/ pc[Loop] \notin Discarding \cup Closing
        BY DEF LoopHolds
      <3> QED
        BY <2>3, <3>1 DEF InterruptLoop
    <2> QED
      BY <1>3, <2>1, <2>2, <2>3 DEF FinalizerStep, Finalize, Finalized
  <1>4. ASSUME NEW c \in Conns, DetachedCleanup(c) PROVE TypeOK'
    BY <1>4 DEF DetachedCleanup
  <1>5. CASE UncaughtPoolError
    BY <1>5 DEF UncaughtPoolError
  <1>6. CASE DbChanges
    BY <1>6 DEF DbChanges
  <1>7. CASE UNCHANGED vars
    BY <1>7 DEF vars
  <1> QED
    BY <1>1, <1>2, <1>3, <1>4, <1>5, <1>6, <1>7 DEF Next

LEMMA NextLoopHolds == Holds /\ [Next]_vars => LoopHolds'
  <1> SUFFICES ASSUME Holds, [Next]_vars
               PROVE  LoopHolds'
    OBVIOUS
  <1> USE DistinctNames DEF Holds, TypeOK, LoopHolds, Procs, Phases, Creating, Discarding, Closing,
          state, resources, Goes
  <1>1. CASE LoopStep
    <2>1. ASSUME NEW c \in Conns, StartConnecting(c) PROVE LoopHolds'
      BY <2>1 DEF StartConnecting
    <2>2. CASE SenderReady
      BY <2>2 DEF SenderReady
    <2>3. CASE Verified \/ Wake \/ HealthCheckPasses \/ StartHealthCheck
      BY <2>3, ZenonT(40) DEF Verified, Wake, HealthCheckPasses, StartHealthCheck
    <2>4. CASE Publish
      BY <2>4 DEF Publish
    <2>5. CASE SenderFails \/ Discarded \/ AttemptTimesOut \/ DiscardTimesOut
      BY <2>5 DEF SenderFails, Discarded, AttemptTimesOut, DiscardTimesOut, AttemptFailed
    <2>6. CASE DiscardSender \/ DiscardPool
      BY <2>6 DEF DiscardSender, DiscardPool
    <2>7. CASE HealthCheckFails
      BY <2>7 DEF HealthCheckFails, ReadRefToClose, SetDisconnected
    <2>8. CASE CloseStep(Loop)
      BY <2>8 DEF CloseStep, CloseSender, EndPool, MarkDisconnected, SetDisconnected
    <2> QED
      BY <1>1, <2>1, <2>2, <2>3, <2>4, <2>5, <2>6, <2>7, <2>8 DEF LoopStep
  <1>2. ASSUME NEW f \in Fibers, FiberStep(f) PROVE LoopHolds'
    <2>1. CASE StartQuery(f) \/ QueryReturns(f) \/ QueryBreaks(f) \/ QueryUnavailable(f)
      BY <2>1 DEF StartQuery, QueryReturns, QueryBreaks, QueryUnavailable, SetDisconnected
    <2>2. ASSUME NEW c \in Conns, PoolError(c, f) PROVE LoopHolds'
      BY <2>2 DEF PoolError
    <2>3. CASE ReportError(f) \/ Close(f)
      BY <2>3, ZenonT(40) DEF ReportError, Close, ReadRefToClose, SetDisconnected
    <2>4. CASE CloseReturns(f) \/ CloseStep(f)
      BY <2>4 DEF CloseReturns, CloseStep, CloseSender, EndPool, MarkDisconnected, SetDisconnected
    <2> QED
      BY <1>2, <2>1, <2>2, <2>3, <2>4 DEF FiberStep
  <1>3. CASE FinalizerStep
    <2>1. CASE Finalize
      BY <2>1 DEF Finalize, ReadRefToClose, InterruptLoop
    <2>2. CASE CloseSender(Finalizer) \/ EndPool(Finalizer)
      BY <2>2 DEF CloseSender, EndPool
    <2>3. CASE Finalized
      BY <2>3 DEF Finalized, InterruptLoop
    <2> QED
      BY <1>3, <2>1, <2>2, <2>3 DEF FinalizerStep
  <1>4. ASSUME NEW c \in Conns, DetachedCleanup(c) PROVE LoopHolds'
    BY <1>4 DEF DetachedCleanup
  <1>5. CASE UncaughtPoolError
    BY <1>5 DEF UncaughtPoolError
  <1>6. CASE DbChanges
    BY <1>6 DEF DbChanges
  <1>7. CASE UNCHANGED vars
    BY <1>7 DEF vars
  <1> QED
    BY <1>1, <1>2, <1>3, <1>4, <1>5, <1>6, <1>7 DEF Next

LEMMA NextFibersHold == Holds /\ [Next]_vars => FibersHold'
  <1> SUFFICES ASSUME Holds, [Next]_vars
               PROVE  FibersHold'
    OBVIOUS
  <1> USE DistinctNames DEF Holds, TypeOK, FibersHold, Procs, Phases, Creating, Discarding, Closing,
          state, resources, Goes
  <1>1. CASE LoopStep
    <2>1. ASSUME NEW c \in Conns, StartConnecting(c) PROVE FibersHold'
      BY <2>1 DEF StartConnecting
    <2>2. CASE SenderReady
      BY <2>2 DEF SenderReady
    <2>3. CASE Verified \/ Wake \/ HealthCheckPasses \/ StartHealthCheck
      BY <2>3 DEF Verified, Wake, HealthCheckPasses, StartHealthCheck
    <2>4. CASE Publish
      BY <2>4 DEF Publish
    <2>5. CASE SenderFails \/ Discarded \/ AttemptTimesOut \/ DiscardTimesOut
      BY <2>5 DEF SenderFails, Discarded, AttemptTimesOut, DiscardTimesOut, AttemptFailed
    <2>6. CASE DiscardSender \/ DiscardPool
      BY <2>6 DEF DiscardSender, DiscardPool
    <2>7. CASE HealthCheckFails
      BY <2>7 DEF HealthCheckFails, ReadRefToClose, SetDisconnected
    <2>8. CASE CloseStep(Loop)
      BY <2>8 DEF CloseStep, CloseSender, EndPool, MarkDisconnected, SetDisconnected
    <2> QED
      BY <1>1, <2>1, <2>2, <2>3, <2>4, <2>5, <2>6, <2>7, <2>8 DEF LoopStep
  <1>2. ASSUME NEW f \in Fibers, FiberStep(f) PROVE FibersHold'
    <2>1. CASE StartQuery(f) \/ QueryReturns(f) \/ QueryBreaks(f) \/ QueryUnavailable(f)
      BY <2>1, ZenonT(40) DEF StartQuery, QueryReturns, QueryBreaks, QueryUnavailable, SetDisconnected
    <2>2. ASSUME NEW c \in Conns, PoolError(c, f) PROVE FibersHold'
      BY <2>2 DEF PoolError
    <2>3. CASE ReportError(f) \/ Close(f)
      BY <2>3, ZenonT(40) DEF ReportError, Close, ReadRefToClose, SetDisconnected
    <2>4. CASE CloseReturns(f) \/ CloseStep(f)
      BY <2>4, ZenonT(40) DEF CloseReturns, CloseStep, CloseSender, EndPool, MarkDisconnected, SetDisconnected
    <2> QED
      BY <1>2, <2>1, <2>2, <2>3, <2>4 DEF FiberStep
  <1>3. CASE FinalizerStep
    <2>1. CASE Finalize
      BY <2>1, ZenonT(40) DEF Finalize, ReadRefToClose, InterruptLoop
    <2>2. CASE CloseSender(Finalizer) \/ EndPool(Finalizer)
      BY <2>2 DEF CloseSender, EndPool
    <2>3. CASE Finalized
      BY <2>3 DEF Finalized, InterruptLoop
    <2> QED
      BY <1>3, <2>1, <2>2, <2>3 DEF FinalizerStep
  <1>4. ASSUME NEW c \in Conns, DetachedCleanup(c) PROVE FibersHold'
    BY <1>4 DEF DetachedCleanup
  <1>5. CASE UncaughtPoolError
    BY <1>5 DEF UncaughtPoolError
  <1>6. CASE DbChanges
    BY <1>6 DEF DbChanges
  <1>7. CASE UNCHANGED vars
    BY <1>7 DEF vars
  <1> QED
    BY <1>1, <1>2, <1>3, <1>4, <1>5, <1>6, <1>7 DEF Next

LEMMA InitHolds == Init => Holds
  BY InitType, DistinctNames
     DEF Init, Holds, LoopHolds, FibersHold, Procs, Phases, Creating, Discarding, Closing

\* Every variable of the connection service keeps its type: no state of the
\* loop, of a request or of the finalizer falls outside the ones modelled.
THEOREM TypeCorrect == Spec => []TypeOK
  <1>1. Spec => []Holds
    BY InitHolds, NextType, NextLoopHolds, NextFibersHold, PTL DEF Spec, Holds
  <1> QED
    BY <1>1, PTL DEF Holds

-----------------------------------------------------------------------------
(* The inductive invariant.                                                *)

LEMMA NextCandidateOwns == IInv /\ [Next]_vars => CandidateOwns'
  <1> SUFFICES ASSUME IInv, [Next]_vars
               PROVE  CandidateOwns'
    OBVIOUS
  <1> USE DistinctNames DEF IInv, Holds, TypeOK, LoopHolds, FibersHold,
          CandidateOwns, CandidateIsPrivate,
          Procs, Phases, Creating, Discarding, Closing, state, resources, Goes
  <1>1. CASE LoopStep
    <2>1. ASSUME NEW c \in Conns, StartConnecting(c) PROVE CandidateOwns'
      BY <2>1 DEF StartConnecting, Unused
    <2>2. CASE SenderReady
      BY <2>2 DEF SenderReady
    <2>3. CASE Verified \/ Wake \/ HealthCheckPasses
      BY <2>3 DEF Verified, Wake, HealthCheckPasses
    <2>4. CASE StartHealthCheck
      BY <2>4 DEF StartHealthCheck
    <2>5. CASE Publish
      BY <2>5 DEF Publish
    <2>6. CASE SenderFails \/ Discarded
      BY <2>6 DEF SenderFails, Discarded, AttemptFailed
    <2>7. CASE AttemptTimesOut \/ DiscardTimesOut
      BY <2>7 DEF AttemptTimesOut, DiscardTimesOut, AttemptFailed
    <2>8. CASE DiscardSender \/ DiscardPool
      BY <2>8 DEF DiscardSender, DiscardPool
    <2>9. CASE HealthCheckFails
      BY <2>9 DEF HealthCheckFails, ReadRefToClose, SetDisconnected
    <2>10. CASE CloseStep(Loop)
      BY <2>10 DEF CloseStep, CloseSender, EndPool, MarkDisconnected, SetDisconnected
    <2> QED
      BY <1>1, <2>1, <2>2, <2>3, <2>4, <2>5, <2>6, <2>7, <2>8, <2>9, <2>10 DEF LoopStep
  <1>2. ASSUME NEW f \in Fibers, FiberStep(f) PROVE CandidateOwns'
    <2>1. CASE QueryReturns(f) \/ QueryBreaks(f) \/ QueryUnavailable(f)
      BY <2>1 DEF QueryReturns, QueryBreaks, QueryUnavailable, SetDisconnected
    <2>2. CASE StartQuery(f)
      BY <2>2 DEF StartQuery
    <2>3. ASSUME NEW c \in Conns, PoolError(c, f) PROVE CandidateOwns'
      BY <2>3 DEF PoolError
    <2>4. CASE ReportError(f) \/ Close(f)
      BY <2>4 DEF ReportError, Close, ReadRefToClose, SetDisconnected
    <2>5. CASE CloseSender(f)
      BY <2>5 DEF CloseSender
    <2>6. CASE EndPool(f)
      BY <2>6 DEF EndPool
    <2>7. CASE MarkDisconnected(f) \/ CloseReturns(f)
      BY <2>7 DEF MarkDisconnected, CloseReturns, SetDisconnected
    <2> QED
      BY <1>2, <2>1, <2>2, <2>3, <2>4, <2>5, <2>6, <2>7 DEF FiberStep, CloseStep
  <1>3. CASE FinalizerStep
    <2>1. CASE ReadRefToClose(Finalizer, "finalize")
      BY <2>1 DEF ReadRefToClose
    <2>2. CASE CloseSender(Finalizer)
      BY <2>2 DEF CloseSender
    <2>3. CASE EndPool(Finalizer)
      BY <2>3 DEF EndPool
    <2>4. CASE InterruptLoop /\ UNCHANGED <<state, openSenders, openPools, watched, how, db>>
      BY <2>4 DEF InterruptLoop
    <2> QED
      BY <1>3, <2>1, <2>2, <2>3, <2>4 DEF FinalizerStep, Finalize, Finalized
  <1>4. ASSUME NEW c \in Conns, DetachedCleanup(c) PROVE CandidateOwns'
    BY <1>4 DEF DetachedCleanup
  <1>5. CASE UncaughtPoolError
    BY <1>5 DEF UncaughtPoolError
  <1>6. CASE DbChanges
    BY <1>6 DEF DbChanges
  <1>7. CASE UNCHANGED vars
    BY <1>7 DEF vars
  <1> QED
    BY <1>1, <1>2, <1>3, <1>4, <1>5, <1>6, <1>7 DEF Next

LEMMA NextListenersAndCleanups == IInv /\ [Next]_vars => ListenersAndCleanups'
  <1> SUFFICES ASSUME IInv, [Next]_vars
               PROVE  ListenersAndCleanups'
    OBVIOUS
  <1> USE DistinctNames DEF IInv, Holds, TypeOK, LoopHolds, FibersHold,
          ListenersAndCleanups, CandidateIsPrivate, CandidateOwns,
          Procs, Phases, Creating, Discarding, Closing, state, resources, Goes
  <1>1. CASE LoopStep
    <2>1. ASSUME NEW c \in Conns, StartConnecting(c) PROVE ListenersAndCleanups'
      BY <2>1 DEF StartConnecting, Unused
    <2>2. CASE SenderReady
      BY <2>2 DEF SenderReady
    <2>3. CASE Verified \/ Wake \/ HealthCheckPasses
      BY <2>3 DEF Verified, Wake, HealthCheckPasses
    <2>4. CASE StartHealthCheck
      BY <2>4 DEF StartHealthCheck
    <2>5. CASE Publish
      BY <2>5 DEF Publish
    <2>6. CASE SenderFails \/ Discarded
      BY <2>6 DEF SenderFails, Discarded, AttemptFailed
    <2>7. CASE AttemptTimesOut
      BY <2>7 DEF AttemptTimesOut, AttemptFailed
    <2>11. CASE DiscardTimesOut
      <3>1. connection' = NoConn /\ conn[Loop] # NoConn
        BY <2>11 DEF DiscardTimesOut, AttemptFailed
      <3> QED
        BY <2>11, <3>1 DEF DiscardTimesOut, AttemptFailed
    <2>8. CASE DiscardSender \/ DiscardPool
      BY <2>8 DEF DiscardSender, DiscardPool
    <2>9. CASE HealthCheckFails
      BY <2>9 DEF HealthCheckFails, ReadRefToClose, SetDisconnected
    <2>10. CASE CloseStep(Loop)
      BY <2>10 DEF CloseStep, CloseSender, EndPool, MarkDisconnected, SetDisconnected
    <2> QED
      BY <1>1, <2>1, <2>2, <2>3, <2>4, <2>5, <2>6, <2>7, <2>8, <2>9, <2>10, <2>11 DEF LoopStep
  <1>2. ASSUME NEW f \in Fibers, FiberStep(f) PROVE ListenersAndCleanups'
    <2>1. CASE QueryReturns(f) \/ QueryBreaks(f) \/ QueryUnavailable(f)
      BY <2>1 DEF QueryReturns, QueryBreaks, QueryUnavailable, SetDisconnected
    <2>2. CASE StartQuery(f)
      BY <2>2 DEF StartQuery
    <2>3. ASSUME NEW c \in Conns, PoolError(c, f) PROVE ListenersAndCleanups'
      BY <2>3 DEF PoolError
    <2>4. CASE ReportError(f) \/ Close(f)
      BY <2>4 DEF ReportError, Close, ReadRefToClose, SetDisconnected
    <2>5. CASE CloseSender(f)
      BY <2>5 DEF CloseSender
    <2>6. CASE EndPool(f)
      BY <2>6 DEF EndPool
    <2>7. CASE MarkDisconnected(f) \/ CloseReturns(f)
      BY <2>7 DEF MarkDisconnected, CloseReturns, SetDisconnected
    <2> QED
      BY <1>2, <2>1, <2>2, <2>3, <2>4, <2>5, <2>6, <2>7 DEF FiberStep, CloseStep
  <1>3. CASE FinalizerStep
    <2>1. CASE pc[Finalizer] = "ready" /\ ReadRefToClose(Finalizer, "finalize")
      BY <2>1 DEF ReadRefToClose
    <2>2. CASE CloseSender(Finalizer)
      BY <2>2 DEF CloseSender
    <2>3. CASE EndPool(Finalizer)
      BY <2>3 DEF EndPool
    <2>4. CASE InterruptLoop /\ UNCHANGED <<state, openSenders, openPools, watched, how, db>>
      BY <2>4 DEF InterruptLoop
    <2> QED
      BY <1>3, <2>1, <2>2, <2>3, <2>4 DEF FinalizerStep, Finalize, Finalized
  <1>4. ASSUME NEW c \in Conns, DetachedCleanup(c) PROVE ListenersAndCleanups'
    BY <1>4 DEF DetachedCleanup
  <1>5. CASE UncaughtPoolError
    BY <1>5 DEF UncaughtPoolError
  <1>6. CASE DbChanges
    BY <1>6 DEF DbChanges
  <1>7. CASE UNCHANGED vars
    BY <1>7 DEF vars
  <1> QED
    BY <1>1, <1>2, <1>3, <1>4, <1>5, <1>6, <1>7 DEF Next

LEMMA NextCandidateIsPrivate == IInv /\ [Next]_vars => CandidateIsPrivate'
  <1> SUFFICES ASSUME IInv, [Next]_vars
               PROVE  CandidateIsPrivate'
    OBVIOUS
  <1> USE DistinctNames DEF IInv, Holds, TypeOK, LoopHolds, FibersHold,
          ListenersAndCleanups, CandidateIsPrivate,
          Procs, Phases, Creating, Discarding, Closing, state, resources, Goes
  <1>1. CASE LoopStep
    <2>1. ASSUME NEW c \in Conns, StartConnecting(c) PROVE CandidateIsPrivate'
      BY <2>1 DEF StartConnecting, Unused
    <2>2. CASE SenderReady
      BY <2>2 DEF SenderReady
    <2>3. CASE Verified \/ Wake \/ HealthCheckPasses
      BY <2>3, ZenonT(40) DEF Verified, Wake, HealthCheckPasses
    <2>4. CASE StartHealthCheck
      BY <2>4 DEF StartHealthCheck
    <2>5. CASE Publish
      BY <2>5 DEF Publish
    <2>6. CASE SenderFails \/ Discarded
      BY <2>6 DEF SenderFails, Discarded, AttemptFailed
    <2>7. CASE AttemptTimesOut \/ DiscardTimesOut
      BY <2>7 DEF AttemptTimesOut, DiscardTimesOut, AttemptFailed
    <2>8. CASE DiscardSender \/ DiscardPool
      BY <2>8 DEF DiscardSender, DiscardPool
    <2>9. CASE HealthCheckFails
      BY <2>9, ZenonT(40) DEF HealthCheckFails, ReadRefToClose, SetDisconnected
    <2>10. CASE CloseStep(Loop)
      BY <2>10, ZenonT(40) DEF CloseStep, CloseSender, EndPool, MarkDisconnected, SetDisconnected
    <2> QED
      BY <1>1, <2>1, <2>2, <2>3, <2>4, <2>5, <2>6, <2>7, <2>8, <2>9, <2>10 DEF LoopStep
  <1>2. ASSUME NEW f \in Fibers, FiberStep(f) PROVE CandidateIsPrivate'
    <2>1. CASE QueryReturns(f) \/ QueryBreaks(f) \/ QueryUnavailable(f)
      BY <2>1, ZenonT(40) DEF QueryReturns, QueryBreaks, QueryUnavailable, SetDisconnected
    <2>2. CASE StartQuery(f)
      BY <2>2 DEF StartQuery
    <2>3. ASSUME NEW c \in Conns, PoolError(c, f) PROVE CandidateIsPrivate'
      BY <2>3 DEF PoolError
    <2>4. CASE ReportError(f) \/ Close(f)
      BY <2>4, ZenonT(40) DEF ReportError, Close, ReadRefToClose, SetDisconnected
    <2>5. CASE CloseSender(f)
      BY <2>5 DEF CloseSender
    <2>6. CASE EndPool(f)
      BY <2>6 DEF EndPool
    <2>7. CASE MarkDisconnected(f) \/ CloseReturns(f)
      BY <2>7, ZenonT(40) DEF MarkDisconnected, CloseReturns, SetDisconnected
    <2> QED
      BY <1>2, <2>1, <2>2, <2>3, <2>4, <2>5, <2>6, <2>7 DEF FiberStep, CloseStep
  <1>3. CASE FinalizerStep
    <2>1. CASE ReadRefToClose(Finalizer, "finalize")
      BY <2>1 DEF ReadRefToClose
    <2>2. CASE CloseSender(Finalizer)
      BY <2>2 DEF CloseSender
    <2>3. CASE EndPool(Finalizer)
      BY <2>3 DEF EndPool
    <2>4. CASE InterruptLoop /\ UNCHANGED <<state, openSenders, openPools, watched, how, db>>
      BY <2>4 DEF InterruptLoop
    <2> QED
      BY <1>3, <2>1, <2>2, <2>3, <2>4 DEF FinalizerStep, Finalize, Finalized
  <1>4. ASSUME NEW c \in Conns, DetachedCleanup(c) PROVE CandidateIsPrivate'
    BY <1>4 DEF DetachedCleanup
  <1>5. CASE UncaughtPoolError
    BY <1>5 DEF UncaughtPoolError
  <1>6. CASE DbChanges
    BY <1>6 DEF DbChanges
  <1>7. CASE UNCHANGED vars
    BY <1>7 DEF vars
  <1> QED
    BY <1>1, <1>2, <1>3, <1>4, <1>5, <1>6, <1>7 DEF Next

\* What a step may do to the published connection, its pool and its listener:
\* all steps but two withdraw, or leave, what is there.
LEMMA StepEffect ==
  ASSUME [Next]_vars
  PROVE  \/ Publish
         \/ SenderReady
         \/ /\ connection' \in {connection, NoConn}
            /\ openPools' \subseteq openPools
            /\ watched \cap openPools' \subseteq watched'
  <1> DEFINE Shrinks == /\ connection' \in {connection, NoConn}
                        /\ openPools' \subseteq openPools
                        /\ watched \cap openPools' \subseteq watched'
  <1> USE DEF state, resources
  <1>1. ASSUME NEW p \in Procs, CloseSender(p) \/ EndPool(p) \/ MarkDisconnected(p) \/ CloseReturns(p)
        PROVE  Shrinks
    BY <1>1 DEF CloseSender, EndPool, MarkDisconnected, CloseReturns, SetDisconnected
  <1>2. ASSUME NEW p \in Procs, NEW op, ReadRefToClose(p, op)
        PROVE  Shrinks
    BY <1>2 DEF ReadRefToClose
  <1>3. ASSUME LoopStep, ~Publish, ~SenderReady
        PROVE  Shrinks
    <2>1. ASSUME NEW c \in Conns, StartConnecting(c) PROVE Shrinks
      BY <2>1 DEF StartConnecting
    <2>2. CASE Verified \/ Wake \/ HealthCheckPasses \/ StartHealthCheck
      BY <2>2 DEF Verified, Wake, HealthCheckPasses, StartHealthCheck
    <2>3. CASE SenderFails \/ Discarded \/ AttemptTimesOut \/ DiscardTimesOut
      BY <2>3 DEF SenderFails, Discarded, AttemptTimesOut, DiscardTimesOut, AttemptFailed
    <2>4. CASE DiscardSender \/ DiscardPool
      BY <2>4 DEF DiscardSender, DiscardPool
    <2>5. CASE HealthCheckFails
      BY <2>5, <1>2 DEF HealthCheckFails, SetDisconnected, Procs
    <2>6. CASE CloseStep(Loop)
      BY <2>6, <1>1 DEF CloseStep, Procs
    <2> QED
      BY <1>3, <2>1, <2>2, <2>3, <2>4, <2>5, <2>6 DEF LoopStep
  <1>4. ASSUME NEW f \in Fibers, FiberStep(f)
        PROVE  Shrinks
    <2>1. CASE QueryReturns(f) \/ QueryBreaks(f) \/ StartQuery(f) \/ QueryUnavailable(f)
      BY <2>1 DEF QueryReturns, QueryBreaks, StartQuery, QueryUnavailable, SetDisconnected
    <2>2. ASSUME NEW c \in Conns, PoolError(c, f) PROVE Shrinks
      BY <2>2 DEF PoolError
    <2>3. CASE ReportError(f) \/ Close(f)
      BY <2>3, <1>2 DEF ReportError, Close, SetDisconnected, Procs
    <2>4. CASE CloseReturns(f) \/ CloseStep(f)
      BY <2>4, <1>1 DEF CloseStep, Procs
    <2> QED
      BY <1>4, <2>1, <2>2, <2>3, <2>4 DEF FiberStep
  <1>5. ASSUME FinalizerStep
        PROVE  Shrinks
    <2>1. CASE CloseSender(Finalizer) \/ EndPool(Finalizer)
      BY <2>1, <1>1 DEF Procs
    <2>2. CASE Finalize \/ Finalized
      BY <2>2, <1>2 DEF Finalize, Finalized, Procs
    <2> QED
      BY <1>5, <2>1, <2>2 DEF FinalizerStep
  <1>6. ASSUME NEW c \in Conns, DetachedCleanup(c)
        PROVE  Shrinks
    BY <1>6 DEF DetachedCleanup
  <1>7. CASE UncaughtPoolError
    BY <1>7 DEF UncaughtPoolError
  <1>8. CASE DbChanges \/ UNCHANGED vars
    BY <1>8 DEF DbChanges, vars
  <1> QED
    BY <1>3, <1>4, <1>5, <1>6, <1>7, <1>8 DEF Next

LEMMA NextPublishedPoolIsWatched == IInv /\ [Next]_vars => PublishedPoolIsWatched'
  <1> SUFFICES ASSUME IInv, [Next]_vars
               PROVE  PublishedPoolIsWatched'
    OBVIOUS
  <1>1. CASE Publish
    BY <1>1 DEF Publish, PublishedPoolIsWatched
  <1>2. CASE SenderReady
    <2>1. connection = NoConn /\ NoConn \notin openPools \cup {conn[Loop]}
      BY <1>2, DistinctNames
         DEF SenderReady, IInv, Holds, TypeOK, LoopHolds, CandidateIsPrivate, Creating
    <2> QED
      BY <1>2, <2>1 DEF SenderReady, PublishedPoolIsWatched, state
  <1>3. CASE /\ connection' \in {connection, NoConn}
             /\ openPools' \subseteq openPools
             /\ watched \cap openPools' \subseteq watched'
    <2>1. NoConn \notin openPools
      BY DistinctNames DEF IInv, Holds, TypeOK
    <2> QED
      BY <1>3, <2>1 DEF IInv, PublishedPoolIsWatched
  <1> QED
    BY <1>1, <1>2, <1>3, StepEffect


\* Nothing takes the finalizer back to "ready" while a connection is published.
LEMMA FinalizerWasReady ==
  ASSUME Holds, [Next]_vars, connection' # NoConn, pc'[Finalizer] = "ready"
  PROVE  pc[Finalizer] = "ready"
  <1> DEFINE WasReady == pc[Finalizer] = "ready"
  <1> USE DistinctNames DEF Holds, TypeOK, LoopHolds, Procs, state, resources, Goes
  <1>1. CASE LoopStep
    <2>1. ASSUME NEW c \in Conns, StartConnecting(c) PROVE WasReady
      BY <2>1 DEF StartConnecting
    <2>2. CASE SenderReady \/ Publish
      BY <2>2 DEF SenderReady, Publish
    <2>3. CASE Verified \/ Wake \/ HealthCheckPasses \/ StartHealthCheck
      BY <2>3 DEF Verified, Wake, HealthCheckPasses, StartHealthCheck
    <2>4. CASE SenderFails \/ Discarded \/ AttemptTimesOut \/ DiscardTimesOut
      BY <2>4 DEF SenderFails, Discarded, AttemptTimesOut, DiscardTimesOut, AttemptFailed
    <2>5. CASE DiscardSender \/ DiscardPool
      BY <2>5 DEF DiscardSender, DiscardPool
    <2>6. CASE HealthCheckFails
      BY <2>6 DEF HealthCheckFails, ReadRefToClose, SetDisconnected
    <2>7. CASE CloseStep(Loop)
      BY <2>7 DEF CloseStep, CloseSender, EndPool, MarkDisconnected, SetDisconnected
    <2> QED
      BY <1>1, <2>1, <2>2, <2>3, <2>4, <2>5, <2>6, <2>7 DEF LoopStep
  <1>2. ASSUME NEW f \in Fibers, FiberStep(f) PROVE WasReady
    <2>1. CASE QueryReturns(f) \/ QueryBreaks(f) \/ StartQuery(f) \/ QueryUnavailable(f)
      BY <2>1 DEF QueryReturns, QueryBreaks, StartQuery, QueryUnavailable, SetDisconnected
    <2>2. ASSUME NEW c \in Conns, PoolError(c, f) PROVE WasReady
      BY <2>2 DEF PoolError
    <2>3. CASE ReportError(f) \/ Close(f)
      BY <2>3 DEF ReportError, Close, ReadRefToClose, SetDisconnected
    <2>4. CASE CloseReturns(f) \/ CloseStep(f)
      BY <2>4 DEF CloseReturns, CloseStep, CloseSender, EndPool, MarkDisconnected, SetDisconnected
    <2> QED
      BY <1>2, <2>1, <2>2, <2>3, <2>4 DEF FiberStep
  <1>3. CASE FinalizerStep
    <2>1. CASE Finalize
      BY <2>1 DEF Finalize, ReadRefToClose, InterruptLoop
    <2>2. CASE CloseSender(Finalizer) \/ EndPool(Finalizer)
      BY <2>2 DEF CloseSender, EndPool
    <2>3. CASE Finalized
      BY <2>3 DEF Finalized, InterruptLoop
    <2> QED
      BY <1>3, <2>1, <2>2, <2>3 DEF FinalizerStep
  <1>4. ASSUME NEW c \in Conns, DetachedCleanup(c) PROVE WasReady
    BY <1>4 DEF DetachedCleanup
  <1>5. CASE UncaughtPoolError
    BY <1>5 DEF UncaughtPoolError
  <1>6. CASE DbChanges \/ UNCHANGED vars
    BY <1>6 DEF DbChanges, vars
  <1> QED
    BY <1>1, <1>2, <1>3, <1>4, <1>5, <1>6 DEF Next

\* A fiber that has called close() or end() keeps its connection and goes on,
\* until its own reset (which unpublishes) or the end of the scope.
LEMMA CloserGoesOn ==
  ASSUME Holds, [Next]_vars, NEW p \in Procs,
         connection # NoConn, connection' = connection, pc'[Finalizer] = "ready",
         pc[p] \in {"closeSender", "endPool"}
  PROVE  /\ conn'[p] = conn[p]
         /\ pc'[p] \in {"closeSender", "endPool"}
         /\ pc[p] = "endPool" => pc'[p] = "endPool"
  <1> DEFINE GoesOn == /\ conn'[p] = conn[p]
                       /\ pc'[p] \in {"closeSender", "endPool"}
                       /\ pc[p] = "endPool" => pc'[p] = "endPool"
  <1> USE DistinctNames DEF Holds, TypeOK, LoopHolds, FibersHold, Procs,
          Creating, Discarding, Closing, state, resources, Goes
  <1>1. CASE LoopStep
    <2>1. ASSUME NEW c \in Conns, StartConnecting(c) PROVE GoesOn
      BY <2>1 DEF StartConnecting
    <2>2. CASE SenderReady \/ Publish
      BY <2>2 DEF SenderReady, Publish
    <2>3. CASE Verified \/ Wake \/ HealthCheckPasses \/ StartHealthCheck
      BY <2>3, ZenonT(40) DEF Verified, Wake, HealthCheckPasses, StartHealthCheck
    <2>4. CASE SenderFails \/ Discarded \/ AttemptTimesOut \/ DiscardTimesOut
      BY <2>4 DEF SenderFails, Discarded, AttemptTimesOut, DiscardTimesOut, AttemptFailed
    <2>5. CASE DiscardSender \/ DiscardPool
      BY <2>5 DEF DiscardSender, DiscardPool
    <2>6. CASE HealthCheckFails
      BY <2>6 DEF HealthCheckFails, ReadRefToClose, SetDisconnected
    <2>7. CASE CloseStep(Loop)
      BY <2>7 DEF CloseStep, CloseSender, EndPool, MarkDisconnected, SetDisconnected
    <2> QED
      BY <1>1, <2>1, <2>2, <2>3, <2>4, <2>5, <2>6, <2>7 DEF LoopStep
  <1>2. ASSUME NEW f \in Fibers, FiberStep(f) PROVE GoesOn
    <2>1. CASE QueryReturns(f) \/ QueryBreaks(f) \/ StartQuery(f) \/ QueryUnavailable(f)
      BY <2>1 DEF QueryReturns, QueryBreaks, StartQuery, QueryUnavailable, SetDisconnected
    <2>2. ASSUME NEW c \in Conns, PoolError(c, f) PROVE GoesOn
      BY <2>2 DEF PoolError
    <2>3. CASE ReportError(f) \/ Close(f)
      BY <2>3 DEF ReportError, Close, ReadRefToClose, SetDisconnected
    <2>4. CASE CloseReturns(f) \/ CloseStep(f)
      BY <2>4 DEF CloseReturns, CloseStep, CloseSender, EndPool, MarkDisconnected, SetDisconnected
    <2> QED
      BY <1>2, <2>1, <2>2, <2>3, <2>4 DEF FiberStep
  <1>3. CASE FinalizerStep
    <2>1. CASE Finalize
      BY <2>1 DEF Finalize, ReadRefToClose, InterruptLoop
    <2>2. CASE CloseSender(Finalizer) \/ EndPool(Finalizer)
      BY <2>2 DEF CloseSender, EndPool
    <2>3. CASE Finalized
      BY <2>3 DEF Finalized, InterruptLoop
    <2> QED
      BY <1>3, <2>1, <2>2, <2>3 DEF FinalizerStep
  <1>4. ASSUME NEW c \in Conns, DetachedCleanup(c) PROVE GoesOn
    BY <1>4 DEF DetachedCleanup
  <1>5. CASE UncaughtPoolError
    BY <1>5 DEF UncaughtPoolError
  <1>6. CASE DbChanges \/ UNCHANGED vars
    BY <1>6 DEF DbChanges, vars
  <1> QED
    BY <1>1, <1>2, <1>3, <1>4, <1>5, <1>6 DEF Next

\* The published connection loses its sender or its pool only to such a fiber.
LEMMA ClosedByCloser ==
  ASSUME IInv, [Next]_vars,
         connection # NoConn, connection' = connection, pc'[Finalizer] = "ready"
  PROVE  /\ connection \in openPools \ openPools' =>
              \E p \in Procs : conn'[p] = connection /\ pc'[p] = "endPool"
         /\ connection \in openSenders \ openSenders' =>
              \E p \in Procs : conn'[p] = connection /\ pc'[p] = "closeSender"
  <1> DEFINE ByCloser ==
        /\ connection \in openPools \ openPools' =>
             \E p \in Procs : conn'[p] = connection /\ pc'[p] = "endPool"
        /\ connection \in openSenders \ openSenders' =>
             \E p \in Procs : conn'[p] = connection /\ pc'[p] = "closeSender"
  <1> USE DistinctNames DEF IInv, Holds, TypeOK, LoopHolds, FibersHold, CandidateIsPrivate,
          ListenersAndCleanups, Procs, Creating, Discarding, Closing, state, resources, Goes
  <1>1. CASE LoopStep
    <2>1. ASSUME NEW c \in Conns, StartConnecting(c) PROVE ByCloser
      BY <2>1 DEF StartConnecting
    <2>2. CASE SenderReady \/ Publish
      BY <2>2 DEF SenderReady, Publish
    <2>3. CASE Verified \/ Wake \/ HealthCheckPasses \/ StartHealthCheck
      BY <2>3 DEF Verified, Wake, HealthCheckPasses, StartHealthCheck
    <2>4. CASE SenderFails \/ Discarded \/ AttemptTimesOut \/ DiscardTimesOut
      BY <2>4 DEF SenderFails, Discarded, AttemptTimesOut, DiscardTimesOut, AttemptFailed
    <2>5. CASE DiscardSender \/ DiscardPool
      BY <2>5 DEF DiscardSender, DiscardPool
    <2>6. CASE HealthCheckFails
      BY <2>6 DEF HealthCheckFails, ReadRefToClose, SetDisconnected
    <2>7. CASE CloseStep(Loop)
      BY <2>7 DEF CloseStep, CloseSender, EndPool, MarkDisconnected, SetDisconnected
    <2> QED
      BY <1>1, <2>1, <2>2, <2>3, <2>4, <2>5, <2>6, <2>7 DEF LoopStep
  <1>2. ASSUME NEW f \in Fibers, FiberStep(f) PROVE ByCloser
    <2>1. CASE QueryReturns(f) \/ QueryBreaks(f) \/ StartQuery(f) \/ QueryUnavailable(f)
      BY <2>1 DEF QueryReturns, QueryBreaks, StartQuery, QueryUnavailable, SetDisconnected
    <2>2. ASSUME NEW c \in Conns, PoolError(c, f) PROVE ByCloser
      BY <2>2 DEF PoolError
    <2>3. CASE ReportError(f) \/ Close(f)
      BY <2>3 DEF ReportError, Close, ReadRefToClose, SetDisconnected
    <2>4. CASE CloseReturns(f) \/ CloseStep(f)
      BY <2>4 DEF CloseReturns, CloseStep, CloseSender, EndPool, MarkDisconnected, SetDisconnected
    <2> QED
      BY <1>2, <2>1, <2>2, <2>3, <2>4 DEF FiberStep
  <1>3. CASE FinalizerStep
    <2>1. CASE Finalize
      BY <2>1 DEF Finalize, ReadRefToClose, InterruptLoop
    <2>2. CASE CloseSender(Finalizer) \/ EndPool(Finalizer)
      BY <2>2 DEF CloseSender, EndPool
    <2>3. CASE Finalized
      BY <2>3 DEF Finalized, InterruptLoop
    <2> QED
      BY <1>3, <2>1, <2>2, <2>3 DEF FinalizerStep
  <1>4. ASSUME NEW c \in Conns, DetachedCleanup(c) PROVE ByCloser
    BY <1>4 DEF DetachedCleanup
  <1>5. CASE UncaughtPoolError
    BY <1>5 DEF UncaughtPoolError
  <1>6. CASE DbChanges \/ UNCHANGED vars
    BY <1>6 DEF DbChanges, vars
  <1> QED
    BY <1>1, <1>2, <1>3, <1>4, <1>5, <1>6 DEF Next

LEMMA NextDeadIsBeingWithdrawn == IInv /\ [Next]_vars => DeadIsBeingWithdrawn'
  <1> SUFFICES ASSUME IInv, [Next]_vars, connection' # NoConn, pc'[Finalizer] = "ready"
               PROVE  /\ connection' \notin openPools' =>
                           \E p \in Procs : pc'[p] = "endPool" /\ conn'[p] = connection'
                      /\ connection' \notin openSenders' =>
                           \E p \in Procs : /\ pc'[p] \in {"closeSender", "endPool"}
                                           /\ conn'[p] = connection'
    BY DEF DeadIsBeingWithdrawn
  <1>1. CASE Publish
    BY <1>1 DEF Publish, IInv, CandidateOwns
  <1>2. CASE ~Publish
    <2>1. connection' = connection
      BY <1>2, StepEffect DEF SenderReady, state
    <2>2. pc[Finalizer] = "ready"
      BY FinalizerWasReady DEF IInv
    <2>3. ASSUME connection \notin openPools'
          PROVE  \E p \in Procs : pc'[p] = "endPool" /\ conn'[p] = connection
      <3>1. CASE connection \in openPools
        BY <2>1, <2>3, <3>1, ClosedByCloser
      <3>2. CASE connection \notin openPools
        <4>1. PICK p \in Procs : pc[p] = "endPool" /\ conn[p] = connection
          BY <2>1, <2>2, <3>2 DEF IInv, DeadIsBeingWithdrawn
        <4> QED
          BY <2>1, <4>1, CloserGoesOn DEF IInv
      <3> QED
        BY <3>1, <3>2
    <2>4. ASSUME connection \notin openSenders'
          PROVE  \E p \in Procs : pc'[p] \in {"closeSender", "endPool"} /\ conn'[p] = connection
      <3>1. CASE connection \in openSenders
        BY <2>1, <2>4, <3>1, ClosedByCloser
      <3>2. CASE connection \notin openSenders
        <4>1. PICK p \in Procs : pc[p] \in {"closeSender", "endPool"} /\ conn[p] = connection
          BY <2>1, <2>2, <3>2 DEF IInv, DeadIsBeingWithdrawn
        <4> QED
          BY <2>1, <4>1, CloserGoesOn DEF IInv
      <3> QED
        BY <3>1, <3>2
    <2> QED
      BY <2>1, <2>3, <2>4
  <1> QED
    BY <1>1, <1>2

LEMMA NextEndedStaysEnded == IInv /\ [Next]_vars => EndedStaysEnded'
  <1> SUFFICES ASSUME IInv, [Next]_vars
               PROVE  EndedStaysEnded'
    OBVIOUS
  <1> USE DistinctNames DEF IInv, Holds, TypeOK, LoopHolds, FibersHold, CandidateIsPrivate,
          EndedStaysEnded, Procs, Creating, Discarding, Closing, state, resources, Goes
  <1>1. CASE LoopStep
    <2>1. ASSUME NEW c \in Conns, StartConnecting(c) PROVE EndedStaysEnded'
      BY <2>1 DEF StartConnecting
    <2>2. CASE SenderReady
      <3>1. /\ openPools' = openPools \cup {conn[Loop]}
            /\ conn' = conn
            /\ \A p \in Procs \ {Loop} : pc'[p] = pc[p] /\ conn[p] # conn[Loop]
            /\ pc'[Loop] = "verify"
        BY <2>2 DEF SenderReady
      <3> QED
        BY <3>1
    <2>8. CASE Publish
      BY <2>8 DEF Publish
    <2>3. CASE Verified \/ Wake \/ HealthCheckPasses \/ StartHealthCheck
      BY <2>3, ZenonT(40) DEF Verified, Wake, HealthCheckPasses, StartHealthCheck
    <2>4. CASE SenderFails \/ Discarded \/ AttemptTimesOut \/ DiscardTimesOut
      BY <2>4 DEF SenderFails, Discarded, AttemptTimesOut, DiscardTimesOut, AttemptFailed
    <2>5. CASE DiscardSender \/ DiscardPool
      BY <2>5 DEF DiscardSender, DiscardPool
    <2>6. CASE HealthCheckFails
      BY <2>6 DEF HealthCheckFails, ReadRefToClose, SetDisconnected
    <2>7. CASE CloseStep(Loop)
      BY <2>7, ZenonT(40) DEF CloseStep, CloseSender, EndPool, MarkDisconnected, SetDisconnected
    <2> QED
      BY <1>1, <2>1, <2>2, <2>3, <2>4, <2>5, <2>6, <2>7, <2>8 DEF LoopStep
  <1>2. ASSUME NEW f \in Fibers, FiberStep(f) PROVE EndedStaysEnded'
    <2>1. CASE QueryReturns(f) \/ QueryBreaks(f) \/ StartQuery(f) \/ QueryUnavailable(f)
      BY <2>1, ZenonT(40) DEF QueryReturns, QueryBreaks, StartQuery, QueryUnavailable, SetDisconnected
    <2>2. ASSUME NEW c \in Conns, PoolError(c, f) PROVE EndedStaysEnded'
      BY <2>2 DEF PoolError
    <2>3. CASE ReportError(f) \/ Close(f)
      BY <2>3, ZenonT(40) DEF ReportError, Close, ReadRefToClose, SetDisconnected
    <2>4. CASE CloseReturns(f) \/ CloseStep(f)
      BY <2>4, ZenonT(40) DEF CloseReturns, CloseStep, CloseSender, EndPool, MarkDisconnected, SetDisconnected
    <2> QED
      BY <1>2, <2>1, <2>2, <2>3, <2>4 DEF FiberStep
  <1>3. CASE FinalizerStep
    <2>1. CASE Finalize
      BY <2>1, ZenonT(40) DEF Finalize, ReadRefToClose, InterruptLoop
    <2>2. CASE CloseSender(Finalizer) \/ EndPool(Finalizer)
      BY <2>2 DEF CloseSender, EndPool
    <2>3. CASE Finalized
      BY <2>3 DEF Finalized, InterruptLoop
    <2> QED
      BY <1>3, <2>1, <2>2, <2>3 DEF FinalizerStep
  <1>4. ASSUME NEW c \in Conns, DetachedCleanup(c) PROVE EndedStaysEnded'
    BY <1>4 DEF DetachedCleanup
  <1>5. CASE UncaughtPoolError
    BY <1>5 DEF UncaughtPoolError
  <1>6. CASE DbChanges \/ UNCHANGED vars
    BY <1>6 DEF DbChanges, vars
  <1> QED
    BY <1>1, <1>2, <1>3, <1>4, <1>5, <1>6 DEF Next

LEMMA InitInv == Init => IInv
  BY InitHolds, DistinctNames
     DEF Init, IInv, CandidateOwns, ListenersAndCleanups, EndedStaysEnded, DeadIsBeingWithdrawn,
         CandidateIsPrivate, PublishedPoolIsWatched, Procs, Creating, Discarding

LEMMA NextInv == IInv /\ [Next]_vars => IInv'
  BY NextType, NextLoopHolds, NextFibersHold, NextCandidateOwns, NextListenersAndCleanups,
     NextEndedStaysEnded, NextDeadIsBeingWithdrawn, NextCandidateIsPrivate, NextPublishedPoolIsWatched
     DEF IInv, Holds

\* In every reachable state of connection.ts each fiber holds what its phase says, and
\* the three safety invariants hold together.
THEOREM Invariance == Spec => []IInv
  BY InitInv, NextInv, PTL DEF Spec

\* A connection that is published but already closed on one side always has a
\* fiber on its way to withdraw it, so no reader keeps getting a dead one.
THEOREM DeadConnectionsAreWithdrawn == Spec => []DeadIsBeingWithdrawn
  BY Invariance, PTL DEF IInv

\* Nobody but the loop can reach a connection before it is published.
THEOREM CandidatesArePrivate == Spec => []CandidateIsPrivate
  BY Invariance, PTL DEF IInv

\* The published pool never emits an 'error' without a listener.
THEOREM PublishedPoolsAreWatched == Spec => []PublishedPoolIsWatched
  BY Invariance, PTL DEF IInv

-----------------------------------------------------------------------------
(* The promise to the users.                                               *)

LEMMA InitSlot == Init => Slot!Init
  BY DEF Init, Slot!Init

\* A fiber that closes breaks the connection it holds, then withdraws.
LEMMA CloserImplementsSlot ==
  ASSUME Holds, NEW p \in Procs,
         CloseSender(p) \/ EndPool(p) \/ MarkDisconnected(p) \/ CloseReturns(p)
  PROVE  [Slot!Next]_<<connection, openSenders \cap openPools>>
  <1>1. pc[p] \in Closing => conn[p] \in Conns
    BY DEF Holds, LoopHolds, FibersHold, Procs
  <1>2. CASE CloseSender(p)
    <2>1. Slot!Break(conn[p])
      BY <1>2 DEF CloseSender, Slot!Break, state
    <2> QED
      BY <1>1, <1>2, <2>1 DEF CloseSender, Closing, Slot!Next
  <1>3. CASE EndPool(p)
    <2>1. Slot!Break(conn[p])
      BY <1>3 DEF EndPool, Slot!Break, state
    <2> QED
      BY <1>1, <1>3, <2>1 DEF EndPool, Closing, Slot!Next
  <1>4. CASE MarkDisconnected(p) \/ CloseReturns(p)
    <2>1. Slot!Withdraw
      BY <1>4 DEF MarkDisconnected, CloseReturns, SetDisconnected, Slot!Withdraw, resources
    <2> QED
      BY <2>1 DEF Slot!Next
  <1> QED
    BY <1>2, <1>3, <1>4

\* Every step of the fibers is a step of the slot, or leaves it alone.
LEMMA NextSlot == IInv /\ [Next]_vars => [Slot!Next]_<<connection, openSenders \cap openPools>>
  <1> DEFINE SlotStep == [Slot!Next]_<<connection, openSenders \cap openPools>>
             Untouched == UNCHANGED <<connection, openSenders \cap openPools>>
  <1> SUFFICES ASSUME IInv, [Next]_vars
               PROVE  SlotStep
    OBVIOUS
  <1> USE DEF state, resources
  <1>1. ASSUME NEW p \in Procs, NEW op, ReadRefToClose(p, op)
        PROVE  Untouched
    BY <1>1 DEF ReadRefToClose
  <1>2. CASE LoopStep
    <2>1. ASSUME NEW c \in Conns, StartConnecting(c) PROVE SlotStep
      BY <2>1 DEF StartConnecting
    <2>2. CASE SenderReady
      <3>1. conn[Loop] \in Conns /\ connection = NoConn /\ conn[Loop] # connection
        BY <2>2, DistinctNames
           DEF SenderReady, IInv, Holds, LoopHolds, CandidateIsPrivate, Creating
      <3>2. Slot!Build(conn[Loop])
        BY <2>2, <3>1 DEF SenderReady, Slot!Build, IInv, CandidateOwns
      <3> QED
        BY <3>1, <3>2 DEF Slot!Next
    <2>3. CASE Publish
      <3>1. conn[Loop] \in Conns /\ connection = NoConn
        BY <2>3 DEF Publish, IInv, Holds, LoopHolds, CandidateIsPrivate, Creating
      <3>2. Slot!Offer(conn[Loop])
        BY <2>3, <3>1 DEF Publish, Slot!Offer, IInv, CandidateOwns
      <3> QED
        BY <3>1, <3>2 DEF Slot!Next
    <2>4. CASE Verified \/ Wake \/ HealthCheckPasses \/ StartHealthCheck
      BY <2>4 DEF Verified, Wake, HealthCheckPasses, StartHealthCheck
    <2>5. CASE SenderFails \/ Discarded \/ DiscardTimesOut
      BY <2>5 DEF SenderFails, Discarded, DiscardTimesOut, AttemptFailed
    <2>6. CASE AttemptTimesOut
      <3>1. Untouched
        BY <2>6 DEF AttemptTimesOut, AttemptFailed, IInv, CandidateOwns
      <3> QED
        BY <3>1
    <2>7. CASE DiscardSender \/ DiscardPool
      <3>1. conn[Loop] \in Conns
        BY <2>7 DEF DiscardSender, DiscardPool, IInv, Holds, LoopHolds, Creating, Discarding
      <3>2. Slot!Break(conn[Loop])
        BY <2>7 DEF DiscardSender, DiscardPool, Slot!Break
      <3> QED
        BY <3>1, <3>2 DEF Slot!Next
    <2>8. CASE HealthCheckFails
      <3>1. Untouched
        BY <2>8, <1>1 DEF HealthCheckFails, SetDisconnected, Procs
      <3> QED
        BY <3>1
    <2>9. CASE CloseStep(Loop)
      BY <2>9, CloserImplementsSlot DEF CloseStep, IInv, Procs
    <2> QED
      BY <1>2, <2>1, <2>2, <2>3, <2>4, <2>5, <2>6, <2>7, <2>8, <2>9 DEF LoopStep
  <1>3. ASSUME NEW f \in Fibers, FiberStep(f) PROVE SlotStep
    <2>1. CASE QueryReturns(f) \/ QueryBreaks(f) \/ StartQuery(f) \/ QueryUnavailable(f)
      BY <2>1 DEF QueryReturns, QueryBreaks, StartQuery, QueryUnavailable, SetDisconnected
    <2>2. ASSUME NEW c \in Conns, PoolError(c, f) PROVE SlotStep
      BY <2>2 DEF PoolError
    <2>3. CASE ReportError(f) \/ Close(f)
      <3>1. Untouched
        BY <2>3, <1>1 DEF ReportError, Close, SetDisconnected, Procs
      <3> QED
        BY <3>1
    <2>4. CASE CloseReturns(f) \/ CloseStep(f)
      BY <2>4, CloserImplementsSlot DEF CloseStep, IInv, Procs
    <2> QED
      BY <1>3, <2>1, <2>2, <2>3, <2>4 DEF FiberStep
  <1>4. CASE FinalizerStep
    <2>1. CASE CloseSender(Finalizer) \/ EndPool(Finalizer)
      BY <2>1, CloserImplementsSlot DEF IInv, Procs
    <2>2. CASE Finalize \/ Finalized
      <3>1. Untouched
        BY <2>2, <1>1 DEF Finalize, Finalized, Procs
      <3> QED
        BY <3>1
    <2> QED
      BY <1>4, <2>1, <2>2 DEF FinalizerStep
  <1>5. ASSUME NEW c \in Conns, DetachedCleanup(c) PROVE SlotStep
    <2>1. Slot!Break(c)
      BY <1>5 DEF DetachedCleanup, Slot!Break
    <2> QED
      BY <2>1 DEF Slot!Next
  <1>6. CASE UncaughtPoolError
    <2>1. Slot!Restart
      BY <1>6 DEF UncaughtPoolError, Slot!Restart
    <2> QED
      BY <2>1 DEF Slot!Next
  <1>7. CASE DbChanges \/ UNCHANGED vars
    BY <1>7 DEF DbChanges, vars
  <1> QED
    BY <1>2, <1>3, <1>4, <1>5, <1>6, <1>7 DEF Next

\* The connection service implements the slot: what getConnection hands out is
\* put there only while the slot is empty, only when it is open on both sides,
\* and is never exchanged for another connection.
THEOREM ConnectionImplementsSlot == Spec => ImplementsSlot
  <1>1. Slot!Init /\ [][Slot!Next]_<<connection, openSenders \cap openPools>> => Slot!Spec
    BY DEF Slot!Spec
  <1> QED
    BY <1>1, InitSlot, NextSlot, Invariance, PTL DEF Spec, ImplementsSlot

\* Whatever the slot does is at most one step of the link.
LEMMA SlotIsLink ==
  ASSUME [Slot!Next]_<<connection, openSenders \cap openPools>>
  PROVE  [Link!Next]_<<connection # NoConn,
                       connection # NoConn /\ connection \notin openSenders \cap openPools>>
  <1> DEFINE usable == openSenders \cap openPools
             connected == connection # NoConn
             closing == connection # NoConn /\ connection \notin usable
  <1> SUFFICES [Link!Next]_<<connected, closing>>
    OBVIOUS
  <1> HIDE DEF usable
  <1>1. ASSUME NEW c \in Conns, Slot!Build(c)
        PROVE  UNCHANGED <<connected, closing>>
    BY <1>1 DEF Slot!Build, usable
  <1>2. ASSUME NEW c \in Conns, Slot!Offer(c)
        PROVE  Link!Connect \/ UNCHANGED <<connected, closing>>
    BY <1>2 DEF Slot!Offer, Link!Connect, usable
  <1>3. ASSUME NEW c \in Conns, Slot!Break(c)
        PROVE  Link!Close \/ UNCHANGED <<connected, closing>>
    BY <1>3 DEF Slot!Break, Link!Close, usable
  <1>4. ASSUME Slot!Withdraw \/ Slot!Restart
        PROVE  Link!Drop \/ UNCHANGED <<connected, closing>>
    BY <1>4 DEF Slot!Withdraw, Slot!Restart, Link!Drop, usable
  <1>5. ASSUME UNCHANGED <<connection, openSenders \cap openPools>>
        PROVE  UNCHANGED <<connected, closing>>
    BY <1>5 DEF usable
  <1> QED
    BY <1>1, <1>2, <1>3, <1>4, <1>5 DEF Slot!Next, Link!Next

\* getConnection gives writers the link that PingCycles is built on, for any number
\* of connections and fibers.
THEOREM ConnectionImplementsLink == Spec => ImplementsLink
  <1>1. Init => Link!Init
    BY DEF Init, Link!Init
  <1>2. [][Slot!Next]_<<connection, openSenders \cap openPools>> =>
          [][Link!Next]_<<connection # NoConn,
                          connection # NoConn /\ connection \notin openSenders \cap openPools>>
    BY SlotIsLink, PTL
  <1> QED
    BY <1>1, <1>2, ConnectionImplementsSlot, PTL
       DEF Spec, ImplementsSlot, Slot!Spec, ImplementsLink, Link!Spec

-----------------------------------------------------------------------------
(* Who may orphan a connection.                                            *)
LEMMA StepOrphans ==
  ASSUME IInv, [Next]_vars,
         connection # NoConn, connection' = NoConn, connection \in openPools'
  PROVE  \E f \in Fibers : pc[f] = "endPool" /\ conn[f] # connection /\ conn'[f] = NoConn
  <1> USE DEF state, resources
  <1>1. ASSUME NEW p \in Procs, MarkDisconnected(p) \/ CloseReturns(p)
        PROVE  p \in Fibers /\ pc[p] = "endPool" /\ conn[p] # connection /\ conn'[p] = NoConn
    <2>1. pc[p] = "endPool" /\ conn'[p] = NoConn /\ openPools' = openPools /\ how[p] # "finalize"
      BY <1>1 DEF MarkDisconnected, CloseReturns, Goes, IInv, Holds, TypeOK
    <2>2. conn[p] # connection
      BY <2>1 DEF IInv, EndedStaysEnded
    <2>3. p # Loop
      BY <2>1, <2>2 DEF IInv, Holds, LoopHolds, Closing
    <2>4. p # Finalizer
      BY <2>1 DEF IInv, Holds, FibersHold, Closing
    <2> QED
      BY <2>1, <2>2, <2>3, <2>4 DEF Procs
  <1>2. \E p \in Procs : MarkDisconnected(p) \/ CloseReturns(p)
    <2>1. ASSUME NEW p \in Procs, NEW op, ReadRefToClose(p, op) PROVE FALSE
      BY <2>1 DEF ReadRefToClose
    <2>2. CASE LoopStep
      <3>1. ASSUME NEW c \in Conns, StartConnecting(c) PROVE FALSE
        BY <3>1 DEF StartConnecting
      <3>2. CASE SenderReady \/ Publish
        BY <3>2 DEF SenderReady, Publish, IInv, CandidateIsPrivate, Creating
      <3>3. CASE Verified \/ Wake \/ HealthCheckPasses \/ StartHealthCheck
        BY <3>3 DEF Verified, Wake, HealthCheckPasses, StartHealthCheck
      <3>4. CASE SenderFails \/ Discarded \/ AttemptTimesOut \/ DiscardTimesOut
        BY <3>4 DEF SenderFails, Discarded, AttemptTimesOut, DiscardTimesOut, AttemptFailed
      <3>5. CASE DiscardSender \/ DiscardPool
        BY <3>5 DEF DiscardSender, DiscardPool
      <3>6. CASE HealthCheckFails
        BY <3>6, <2>1 DEF HealthCheckFails, Procs
      <3>7. CASE CloseStep(Loop)
        BY <3>7 DEF CloseStep, CloseSender, EndPool, Procs
      <3> QED
        BY <2>2, <3>1, <3>2, <3>3, <3>4, <3>5, <3>6, <3>7 DEF LoopStep
    <2>3. ASSUME NEW f \in Fibers, FiberStep(f)
          PROVE  \E p \in Procs : MarkDisconnected(p) \/ CloseReturns(p)
      <3>1. CASE QueryReturns(f) \/ QueryBreaks(f) \/ StartQuery(f) \/ QueryUnavailable(f)
        BY <3>1 DEF QueryReturns, QueryBreaks, StartQuery, QueryUnavailable
      <3>2. ASSUME NEW c \in Conns, PoolError(c, f) PROVE FALSE
        BY <3>2 DEF PoolError
      <3>3. CASE ReportError(f) \/ Close(f)
        BY <3>3, <2>1 DEF ReportError, Close, Procs
      <3>4. CASE CloseReturns(f) \/ CloseStep(f)
        BY <3>4 DEF CloseStep, CloseSender, EndPool, Procs
      <3> QED
        BY <2>3, <3>1, <3>2, <3>3, <3>4 DEF FiberStep
    <2>4. CASE FinalizerStep
      BY <2>4, <2>1 DEF FinalizerStep, Finalize, Finalized, CloseSender, EndPool, Procs
    <2>5. ASSUME NEW c \in Conns, DetachedCleanup(c) PROVE FALSE
      BY <2>5 DEF DetachedCleanup
    <2>6. CASE UncaughtPoolError
      BY <2>6 DEF UncaughtPoolError
    <2>7. CASE DbChanges \/ UNCHANGED vars
      BY <2>7 DEF DbChanges, vars
    <2> QED
      BY <2>2, <2>3, <2>4, <2>5, <2>6, <2>7 DEF Next
  <1> QED
    BY <1>1, <1>2

\* A connection that leaves the slot unclosed was reset by a request or a pool
\* error that had read the Ref before that connection was published; the loop's
\* own markDisconnected never orphans one.
THEOREM OrphansComeFromLateResets == Spec => OrphanedOnlyByLateReset
  <1>1. IInv /\ [Next]_vars =>
          [connection # NoConn /\ connection' = NoConn /\ connection \in openPools' =>
             \E f \in Fibers : pc[f] = "endPool" /\ conn[f] # connection /\ conn'[f] = NoConn]_vars
    BY StepOrphans
  <1> QED
    BY <1>1, Invariance, PTL DEF Spec, OrphanedOnlyByLateReset

=============================================================================
