---------------------------- MODULE ConnectionLink ----------------------------
(***************************************************************************)
(* What a writer can tell of the connection to the database: whether there *)
(* is one, and whether it is being closed although it is still handed out. *)
(* A connection that was closed once does not work again before another    *)
(* one takes its place, and none takes it under the eyes of its users.  It *)
(* may go without having been closed.                                      *)
(***************************************************************************)

VARIABLES
  connected,   \* whether getConnection succeeds
  closing      \* whether the connection it returns is being closed

Init ==
  /\ connected = FALSE
  /\ closing = FALSE

Connect ==
  /\ ~connected
  /\ connected' = TRUE
  /\ UNCHANGED closing

Close ==
  /\ connected
  /\ ~closing
  /\ closing' = TRUE
  /\ UNCHANGED connected

Drop ==
  /\ connected
  /\ connected' = FALSE
  /\ closing' = FALSE

Next == Connect \/ Close \/ Drop

Spec == Init /\ [][Next]_<<connected, closing>>

=============================================================================
