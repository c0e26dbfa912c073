---------------------------- MODULE MCSpeedtests ----------------------------
(* Speedtests on a small instance for TLC. *)
EXTENDS Speedtests

=============================================================================
