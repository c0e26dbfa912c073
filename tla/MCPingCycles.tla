---------------------------- MODULE MCPingCycles ----------------------------
(* PingCycles on small instances for TLC. *)
EXTENDS PingCycles, TLC

CONSTANTS
  TracedSecond,  \* bound: the clock, once there is a trace of a triggered cycle or a retry
  TracedCycle,   \* bound: the cycles begun, once there is one
  FailedPings    \* bound: the pings that fail, once a connection or a request did

\* The entries of one instance are interchangeable.
Symmetry == Permutations(Entries)

Triggered == \E t \in Triggers : cycle[t] # 0 \/ \E x \in settled : x.by = t

Retried == \E x \in DOMAIN table : x \in InFlight \/ table[x] > 1

\* The scheduled cycles alone are followed to the end, with a triggered one among
\* them or requests sent again for a while.
Bounds ==
  /\ Triggered \/ Retried => clock <= TracedSecond /\ begun <= TracedCycle
  /\ failures > 0 => Cardinality({x \in settled : x.outcome = "failed"}) <= FailedPings

=============================================================================
