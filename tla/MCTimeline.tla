----------------------------- MODULE MCTimeline -----------------------------
(* Timeline on small instances for TLC. *)
EXTENDS Timeline

=============================================================================
