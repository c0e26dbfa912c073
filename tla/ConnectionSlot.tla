--------------------------- MODULE ConnectionSlot ---------------------------
(***************************************************************************)
(* What the connection service promises to its users: one slot that offers *)
(* at most one connection, filled only when it is empty and only with a    *)
(* connection whose sender and pool are both open.  An offered connection  *)
(* may break or be withdrawn at any time; it is never exchanged for        *)
(* another one under the eyes of its users.                                *)
(***************************************************************************)

CONSTANTS Conns, NoConn

VARIABLES
  slot,    \* the connection getConnection hands out, or NoConn
  usable   \* connections that are open on both sides

Init ==
  /\ slot = NoConn
  /\ usable = {}

Build(c) ==
  /\ c # slot
  /\ usable' = usable \cup {c}
  /\ UNCHANGED slot

Offer(c) ==
  /\ slot = NoConn
  /\ c \in usable
  /\ slot' = c
  /\ UNCHANGED usable

Break(c) ==
  /\ usable' = usable \ {c}
  /\ UNCHANGED slot

Withdraw ==
  /\ slot' = NoConn
  /\ UNCHANGED usable

\* The process that holds the slot starts anew.
Restart ==
  /\ slot' = NoConn
  /\ usable' = {}

Next ==
  \/ \E c \in Conns : Build(c) \/ Offer(c) \/ Break(c)
  \/ Withdraw
  \/ Restart

Spec == Init /\ [][Next]_<<slot, usable>>

=============================================================================
