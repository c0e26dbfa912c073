------------------------- MODULE QuestDBConnection -------------------------
(***************************************************************************)
(* The server's one shared connection to QuestDB                           *)
(* (apps/server/src/infrastructure/database/questdb/connection.ts) and the *)
(* way the query and write operations of service.ts use it.                *)
(*                                                                         *)
(* A connection is a pair of an ILP sender and a Pool of pgwire clients.   *)
(* The connection loop is the only fiber that builds connections; it       *)
(* publishes them in a Ref that every request reads.  Any fiber may close  *)
(* the published connection: the loop after a failed health check, a       *)
(* request whose query failed, a handler of the pool's 'error' event, the  *)
(* service's close and the layer's finalizer.  Closing takes three awaits  *)
(* (flush, close, end) before the Ref is reset, and other fibers run       *)
(* meanwhile.  Effect fibers are cooperative: everything between two       *)
(* awaits is one action here.                                              *)
(*                                                                         *)
(* An identity in Conns is used again once nothing of the connection it    *)
(* named is left.                                                          *)
(***************************************************************************)

CONSTANTS
  Conns,           \* identities of connections
  NoConn,          \* Option.none()
  Fibers,          \* request fibers and the fibers forked by pool errors, at once
  Loop,            \* the connection loop's fiber
  Finalizer,       \* the fiber that closes the layer's scope
  AttemptsTimeOut, \* whether the attempt's 10 s pass before its own timeouts
  CloseIsUsed,     \* whether callers use close()
  ScopeCloses      \* whether the layer's scope is ever closed

ASSUME DistinctNames ==
  /\ NoConn \notin Conns
  /\ Loop \notin Fibers
  /\ Finalizer \notin Fibers
  /\ Loop # Finalizer
  /\ AttemptsTimeOut \in BOOLEAN
  /\ CloseIsUsed \in BOOLEAN
  /\ ScopeCloses \in BOOLEAN

VARIABLES
  connection,    \* stateRef.connection
  isConnecting,  \* stateRef.isConnecting
  lastError,     \* stateRef.lastError: "none", "timed out" or "reported"
  openSenders,   \* connections whose sender exists and was not closed
  openPools,     \* connections whose Pool exists and was not ended
  watched,       \* connections whose Pool has the 'error' listener
  detached,      \* connections an abandoned attempt's promise still closes
  pc,            \* what each fiber is awaiting
  conn,          \* the connection each fiber works on
  how,           \* which operation a fiber's closing belongs to
  db             \* "up": QuestDB answers; "down": it fails or answers late

state == <<connection, isConnecting, lastError>>
resources == <<openSenders, openPools, watched, detached>>
vars == <<connection, isConnecting, lastError, openSenders, openPools, watched,
          detached, pc, conn, how, db>>

Procs == Fibers \cup {Loop, Finalizer}

\* What the loop awaits while it builds a connection, and while it discards one.
Creating   == {"sender", "verify", "bootstrap"}
Discarding == {"discardSender", "discardPool"}

\* What a fiber in closeConnection awaits: flush(), close(), end().
Closing == {"flush", "closeSender", "endPool"}

Phases ==
  {"ready", "query", "broken", "top", "health", "sleep", "dead"}
    \cup Creating \cup Discarding \cup Closing

TypeOK ==
  /\ connection \in Conns \cup {NoConn}
  /\ isConnecting \in BOOLEAN
  /\ lastError \in {"none", "timed out", "reported"}
  /\ openSenders \in SUBSET Conns
  /\ openPools \in SUBSET Conns
  /\ watched \in SUBSET Conns
  /\ detached \in SUBSET Conns
  /\ pc \in [Procs -> Phases]
  /\ conn \in [Procs -> Conns \cup {NoConn}]
  /\ how \in [Procs -> {"mark", "close", "finalize"}]
  /\ db \in {"up", "down"}

Init ==
  /\ connection = NoConn
  /\ isConnecting = FALSE
  /\ lastError = "none"
  /\ openSenders = {}
  /\ openPools = {}
  /\ watched = {}
  /\ detached = {}
  /\ pc = [p \in Procs |-> IF p = Loop THEN "top" ELSE "ready"]
  /\ conn = [p \in Procs |-> NoConn]
  /\ how = [p \in Procs |-> "mark"]
  /\ db \in {"up", "down"}

\* Fiber p resumes and next awaits `to`, working on connection c.
Goes(p, to, c) ==
  /\ pc' = [pc EXCEPT ![p] = to]
  /\ conn' = [conn EXCEPT ![p] = c]

\* An identity nothing refers to: no resource, no fiber, no listener.
Unused(c) ==
  /\ c \notin openSenders \cup openPools \cup detached \cup {connection}
  /\ \A p \in Procs : conn[p] # c

-----------------------------------------------------------------------------
(* Closing a connection.                                                   *)

\* Ref.set of markDisconnected: whatever is published now is unpublished.
SetDisconnected ==
  /\ connection' = NoConn
  /\ isConnecting' = FALSE
  /\ lastError' = "reported"

\* The rest of markDisconnected, close or the finalizer starts by reading the
\* Ref: a published connection, and not the one that failed, is closed first.
ReadRefToClose(p, op) ==
  /\ connection # NoConn
  /\ Goes(p, "flush", connection)
  /\ how' = [how EXCEPT ![p] = op]
  /\ UNCHANGED <<state, resources, db>>

\* flush() settled, its error ignored; sender.close() is called.
CloseSender(p) ==
  /\ pc[p] = "flush"
  /\ Goes(p, "closeSender", conn[p])
  /\ openSenders' = openSenders \ {conn[p]}
  /\ UNCHANGED <<state, openPools, watched, detached, how, db>>

\* sender.close() settled; pgClient.end() is called.
EndPool(p) ==
  /\ pc[p] = "closeSender"
  /\ Goes(p, "endPool", conn[p])
  /\ openPools' = openPools \ {conn[p]}
  /\ watched' = watched \ {conn[p]}
  /\ UNCHANGED <<state, openSenders, detached, how, db>>

\* Mutant: markDisconnected closes but never sets the Ref.
MarkDisconnectedKeepsRef(p) ==
  /\ pc[p] = "endPool"
  /\ how[p] = "mark"
  /\ Goes(p, IF p = Loop THEN "top" ELSE "ready", NoConn)
  /\ UNCHANGED <<state, resources, how, db>>

\* end() settled; markDisconnected sets the Ref.
MarkDisconnected(p) ==
  /\ pc[p] = "endPool"
  /\ how[p] = "mark"
  /\ Goes(p, IF p = Loop THEN "top" ELSE "ready", NoConn)
  /\ SetDisconnected
  /\ UNCHANGED <<resources, how, db>>

\* end() settled; close sets the Ref to its initial state.
CloseReturns(p) ==
  /\ pc[p] = "endPool"
  /\ how[p] = "close"
  /\ Goes(p, "ready", NoConn)
  /\ connection' = NoConn
  /\ isConnecting' = FALSE
  /\ lastError' = "none"
  /\ UNCHANGED <<resources, how, db>>

-----------------------------------------------------------------------------
(* The connection loop: building a connection.                             *)

\* Mutant: the loop connects without looking at the Ref.
StartConnectingAnyway(c) ==
  /\ pc[Loop] = "top"
  /\ Unused(c)
  /\ Goes(Loop, "sender", c)
  /\ isConnecting' = TRUE
  /\ UNCHANGED <<connection, lastError, resources, how, db>>

\* No connection is published: start createConnection for a new one.
StartConnecting(c) ==
  /\ pc[Loop] = "top"
  /\ connection = NoConn
  /\ Unused(c)
  /\ Goes(Loop, "sender", c)
  /\ isConnecting' = TRUE
  /\ UNCHANGED <<connection, lastError, resources, how, db>>

\* Sender.fromConfig resolved; the Pool is built and SELECT 1 sent.
SenderReady ==
  /\ pc[Loop] = "sender"
  /\ db = "up"
  /\ Goes(Loop, "verify", conn[Loop])
  /\ openSenders' = openSenders \cup {conn[Loop]}
  /\ openPools' = openPools \cup {conn[Loop]}
  /\ UNCHANGED <<state, watched, detached, how, db>>

\* SELECT 1 answered; bootstrapSchema runs.
Verified ==
  /\ pc[Loop] = "verify"
  /\ db = "up"
  /\ Goes(Loop, "bootstrap", conn[Loop])
  /\ UNCHANGED <<state, resources, how, db>>

\* Mutant: the Ref is set and the listener forgotten.
PublishUnwatched ==
  /\ pc[Loop] = "bootstrap"
  /\ db = "up"
  /\ Goes(Loop, "top", NoConn)
  /\ connection' = conn[Loop]
  /\ isConnecting' = FALSE
  /\ lastError' = "none"
  /\ UNCHANGED <<openSenders, openPools, watched, detached, how, db>>

\* The schema is in place: the listener is attached and the Ref set.
Publish ==
  /\ pc[Loop] = "bootstrap"
  /\ db = "up"
  /\ Goes(Loop, "top", NoConn)
  /\ watched' = watched \cup {conn[Loop]}
  /\ connection' = conn[Loop]
  /\ isConnecting' = FALSE
  /\ lastError' = "none"
  /\ UNCHANGED <<openSenders, openPools, detached, how, db>>

\* Mutant: a failed attempt ends the loop.
AttemptFailedGivesUp ==
  /\ Goes(Loop, "dead", NoConn)
  /\ isConnecting' = FALSE
  /\ lastError' = "timed out"
  /\ UNCHANGED connection

\* The attempt produced nothing: record it and sleep before the next one.
AttemptFailed ==
  /\ Goes(Loop, "sleep", NoConn)
  /\ isConnecting' = FALSE
  /\ lastError' = "timed out"
  /\ UNCHANGED connection

\* Sender.fromConfig (or its connect) was rejected.
SenderFails ==
  /\ pc[Loop] = "sender"
  /\ db = "down"
  /\ AttemptFailed
  /\ UNCHANGED <<resources, how, db>>

\* SELECT 1 or a bootstrap statement failed: sender.close() is called.
DiscardSender ==
  /\ pc[Loop] \in {"verify", "bootstrap"}
  /\ db = "down"
  /\ Goes(Loop, "discardSender", conn[Loop])
  /\ openSenders' = openSenders \ {conn[Loop]}
  /\ UNCHANGED <<state, openPools, watched, detached, how, db>>

\* sender.close() settled; pgClient.end() is called.
DiscardPool ==
  /\ pc[Loop] = "discardSender"
  /\ Goes(Loop, "discardPool", conn[Loop])
  /\ openPools' = openPools \ {conn[Loop]}
  /\ UNCHANGED <<state, openSenders, watched, detached, how, db>>

Discarded ==
  /\ pc[Loop] = "discardPool"
  /\ AttemptFailed
  /\ UNCHANGED <<resources, how, db>>

\* Effect.timeout interrupts the attempt.  Only an error runs the cleanup, so
\* a sender still connecting may end up open, and what is open stays open.
AttemptTimesOut ==
  /\ AttemptsTimeOut
  /\ pc[Loop] \in Creating
  /\ db = "down"
  /\ AttemptFailed
  /\ openSenders' \in IF pc[Loop] = "sender"
                        THEN {openSenders, openSenders \cup {conn[Loop]}}
                        ELSE {openSenders}
  /\ UNCHANGED <<openPools, watched, detached, how, db>>

\* The same timeout during the cleanup: its promise goes on without the fiber.
DiscardTimesOut ==
  /\ AttemptsTimeOut
  /\ pc[Loop] \in Discarding
  /\ db = "down"
  /\ AttemptFailed
  /\ detached' = detached \cup {conn[Loop]}
  /\ UNCHANGED <<openSenders, openPools, watched, how, db>>

\* A cleanup whose fiber is gone runs to its end.
DetachedCleanup(c) ==
  /\ c \in detached
  /\ detached' = detached \ {c}
  /\ openSenders' = openSenders \ {c}
  /\ openPools' = openPools \ {c}
  /\ watched' = watched \ {c}
  /\ UNCHANGED <<state, pc, conn, how, db>>

-----------------------------------------------------------------------------
(* The connection loop: watching the published connection.                 *)

StartHealthCheck ==
  /\ pc[Loop] = "top"
  /\ connection # NoConn
  /\ Goes(Loop, "health", connection)
  /\ UNCHANGED <<state, resources, how, db>>

HealthCheckPasses ==
  /\ pc[Loop] = "health"
  /\ db = "up"
  /\ conn[Loop] \in openPools
  /\ Goes(Loop, "sleep", NoConn)
  /\ UNCHANGED <<state, resources, how, db>>

\* Mutant: a failed health check resets the Ref and closes nothing.
HealthCheckFailsUnclosed ==
  /\ pc[Loop] = "health"
  /\ db = "down" \/ conn[Loop] \notin openPools
  /\ SetDisconnected
  /\ Goes(Loop, "top", NoConn)
  /\ UNCHANGED <<resources, how, db>>

\* SELECT 1 failed, timed out, or its pool has been ended meanwhile.
HealthCheckFails ==
  /\ pc[Loop] = "health"
  /\ db = "down" \/ conn[Loop] \notin openPools
  /\ \/ ReadRefToClose(Loop, "mark")
     \/ /\ connection = NoConn
        /\ SetDisconnected
        /\ Goes(Loop, "top", NoConn)
        /\ UNCHANGED <<resources, how, db>>

Wake ==
  /\ pc[Loop] = "sleep"
  /\ Goes(Loop, "top", NoConn)
  /\ UNCHANGED <<state, resources, how, db>>

-----------------------------------------------------------------------------
(* The fibers that use the connection.                                     *)

\* getConnection, then a query on the pool.
StartQuery(f) ==
  /\ pc[f] = "ready"
  /\ connection # NoConn
  /\ Goes(f, "query", connection)
  /\ UNCHANGED <<state, resources, how, db>>

\* A result, or an error that is not a connection error (an ended pool's is not).
QueryReturns(f) ==
  /\ pc[f] = "query"
  /\ Goes(f, "ready", NoConn)
  /\ UNCHANGED <<state, resources, how, db>>

\* The query fails with a connection error: DbUnavailable is on its way.
QueryBreaks(f) ==
  /\ pc[f] = "query"
  /\ db = "down"
  /\ Goes(f, "broken", NoConn)
  /\ UNCHANGED <<state, resources, how, db>>

\* An idle client of a pool fails: the listener forks markDisconnected.
PoolError(c, f) ==
  /\ db = "down"
  /\ c \in watched
  /\ pc[f] = "ready"
  /\ Goes(f, "broken", NoConn)
  /\ UNCHANGED <<state, resources, how, db>>

\* markDisconnected of a request or of a pool error: close first, or just set
\* the Ref when nothing is published.
ReportError(f) ==
  /\ pc[f] = "broken"
  /\ \/ ReadRefToClose(f, "mark")
     \/ /\ connection = NoConn
        /\ SetDisconnected
        /\ Goes(f, "ready", NoConn)
        /\ UNCHANGED <<resources, how, db>>

\* getConnection finds no connection: DbUnavailable, and markDisconnected.
QueryUnavailable(f) ==
  /\ pc[f] = "ready"
  /\ connection = NoConn
  /\ SetDisconnected
  /\ UNCHANGED <<resources, pc, conn, how, db>>

\* The service's close.
Close(f) ==
  /\ CloseIsUsed
  /\ pc[f] = "ready"
  /\ \/ ReadRefToClose(f, "close")
     \/ /\ connection = NoConn
        /\ isConnecting' = FALSE
        /\ lastError' = "none"
        /\ UNCHANGED <<connection, resources, pc, conn, how, db>>

-----------------------------------------------------------------------------
(* The end of the scope, and the environment.                              *)

\* Mutant: whatever the loop was doing is left to a detached cleanup.
InterruptLoopAnywhere ==
  /\ pc' = [pc EXCEPT ![Finalizer] = "dead", ![Loop] = "dead"]
  /\ conn' = [conn EXCEPT ![Finalizer] = NoConn, ![Loop] = NoConn]
  /\ detached' = detached \cup {conn[Loop]}

\* After the finalizer the scope interrupts the loop; what the loop was
\* closing goes on closing, what it was creating is abandoned.
InterruptLoop ==
  /\ pc' = [pc EXCEPT ![Finalizer] = "dead", ![Loop] = "dead"]
  /\ conn' = [conn EXCEPT ![Finalizer] = NoConn, ![Loop] = NoConn]
  /\ detached' = IF pc[Loop] \in Discarding \cup Closing
                   THEN detached \cup {conn[Loop]} ELSE detached

Finalize ==
  /\ ScopeCloses
  /\ pc[Finalizer] = "ready"
  /\ \/ ReadRefToClose(Finalizer, "finalize")
     \/ /\ connection = NoConn
        /\ InterruptLoop
        /\ UNCHANGED <<state, openSenders, openPools, watched, how, db>>

\* end() settled; the finalizer leaves the Ref alone.
Finalized ==
  /\ pc[Finalizer] = "endPool"
  /\ InterruptLoop
  /\ UNCHANGED <<state, openSenders, openPools, watched, how, db>>

\* An idle client of a pool without a listener fails: the error is thrown out
\* of the emitter, the process ends and supervisord starts it again.
UncaughtPoolError ==
  /\ db = "down"
  /\ \E c \in openPools : c \notin watched
  /\ connection' = NoConn
  /\ isConnecting' = FALSE
  /\ lastError' = "none"
  /\ openSenders' = {}
  /\ openPools' = {}
  /\ watched' = {}
  /\ detached' = {}
  /\ pc' = [p \in Procs |-> IF p = Loop THEN "top" ELSE "ready"]
  /\ conn' = [p \in Procs |-> NoConn]
  /\ how' = [p \in Procs |-> "mark"]
  /\ UNCHANGED db

DbChanges ==
  /\ db' \in {"up", "down"} \ {db}
  /\ UNCHANGED <<state, resources, pc, conn, how>>

-----------------------------------------------------------------------------
CloseStep(p) == CloseSender(p) \/ EndPool(p) \/ MarkDisconnected(p)

LoopStep ==
  \/ \E c \in Conns : StartConnecting(c)
  \/ SenderReady \/ Verified \/ Publish
  \/ SenderFails \/ DiscardSender \/ DiscardPool \/ Discarded
  \/ AttemptTimesOut \/ DiscardTimesOut
  \/ StartHealthCheck \/ HealthCheckPasses \/ HealthCheckFails \/ Wake
  \/ CloseStep(Loop)

FiberStep(f) ==
  \/ StartQuery(f) \/ QueryReturns(f) \/ QueryBreaks(f) \/ QueryUnavailable(f)
  \/ \E c \in Conns : PoolError(c, f)
  \/ ReportError(f)
  \/ Close(f) \/ CloseReturns(f)
  \/ CloseStep(f)

FinalizerStep == Finalize \/ CloseSender(Finalizer) \/ EndPool(Finalizer) \/ Finalized

Next ==
  \/ LoopStep
  \/ \E f \in Fibers : FiberStep(f)
  \/ FinalizerStep
  \/ \E c \in Conns : DetachedCleanup(c)
  \/ UncaughtPoolError
  \/ DbChanges

Spec == Init /\ [][Next]_vars

\* Every await of the loop settles (each has a timeout), sleeps end, and so do
\* the awaits of a fiber that reports an error or closes a connection.
Fairness ==
  /\ WF_vars(LoopStep)
  /\ \A f \in Fibers : WF_vars(ReportError(f) \/ CloseStep(f) \/ CloseReturns(f))
  /\ \A c \in Conns : WF_vars(DetachedCleanup(c))

FairSpec == Spec /\ Fairness

-----------------------------------------------------------------------------
(* Safety.                                                                 *)

\* A published connection whose sender or pool is closed is about to be
\* withdrawn: the fiber that closed it is still on its way to the Ref.set.  So
\* getConnection cannot hand out a dead connection for good (until the scope
\* ends, whose finalizer closes without touching the Ref).
DeadIsBeingWithdrawn ==
  connection # NoConn /\ pc[Finalizer] = "ready" =>
    /\ connection \notin openPools =>
         \E p \in Procs : pc[p] = "endPool" /\ conn[p] = connection
    /\ connection \notin openSenders =>
         \E p \in Procs : pc[p] \in {"closeSender", "endPool"} /\ conn[p] = connection

\* While the loop builds or discards a connection nothing is published, and no
\* other fiber, no listener and no detached cleanup can reach the candidate.
CandidateIsPrivate ==
  pc[Loop] \in Creating \cup Discarding =>
    /\ connection = NoConn
    /\ conn[Loop] \notin watched \cup detached
    /\ \A p \in Procs \ {Loop} : conn[p] # conn[Loop]

\* The published pool has its 'error' listener for as long as it can emit one:
\* an idle client's failure reaches markDisconnected and not the process.
PublishedPoolIsWatched ==
  connection \in openPools => connection \in watched

\* A connection that leaves the slot with its pool still open, and so is never
\* closed, was reset by a fiber that had been closing an earlier connection
\* (markDisconnected's Ref.get and Ref.set are three awaits apart).  The loop's
\* own reset never does that.
OrphanedOnlyByLateReset ==
  [][connection # NoConn /\ connection' = NoConn /\ connection \in openPools' =>
       \E f \in Fibers : pc[f] = "endPool" /\ conn[f] # connection /\ conn'[f] = NoConn]_vars

\* The slot the users see, whatever the fibers do.
Slot == INSTANCE ConnectionSlot WITH slot <- connection,
                                     usable <- openSenders \cap openPools

\* The connection service implements the slot: filled only when empty, only by
\* an open connection, never exchanged.
ImplementsSlot == Slot!Spec

\* The connection as a write finds it, over which PingCycles is built.
Link == INSTANCE ConnectionLink WITH
  connected <- connection # NoConn,
  closing   <- connection # NoConn /\ connection \notin openSenders \cap openPools

\* A published connection once closed on one side is not opened again, and no other
\* takes its place before it was withdrawn.
ImplementsLink == Link!Spec

-----------------------------------------------------------------------------
(* Liveness.                                                               *)

\* No identity is left: the bound of the model on connections never closed.
Exhausted == \A c \in Conns : ~Unused(c)

\* Once QuestDB stays up, a working connection is published and stays.
Recovers ==
  <>[](db = "up") => (<>[](connection \in openPools \cap openSenders) \/ <>Exhausted)

-----------------------------------------------------------------------------
(* What a comment of the code says, and the code does not keep.            *)

\* connection.ts:115 caps the backing connections by the `max` of one Pool:
\* that is a cap only while no second Pool is open.
OneBackingPool ==
  \A c, d \in openPools : c = d

=============================================================================
