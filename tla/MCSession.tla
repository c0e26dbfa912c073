------------------------------ MODULE MCSession ------------------------------
(* Session, with its dashboard, on small instances for TLC. *)
EXTENDS Session

=============================================================================
