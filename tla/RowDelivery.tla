----------------------------- MODULE RowDelivery -----------------------------
(***************************************************************************)
(* What becomes of the row of a ping.  It is offered once, when its ping   *)
(* settles, and then buffered, underway or given up.  A row that is        *)
(* underway may be delivered and stay underway, to be delivered once more, *)
(* and that Retries times: a reader sees no more than Retries + 1 copies   *)
(* of it.  Nobody sees a row that is still buffered, none comes back that  *)
(* was given up, lost or done with, and what is delivered stays.           *)
(***************************************************************************)
EXTENDS RowCopies

CONSTANT Retries  \* how often a row that was delivered may be sent again

VARIABLES
  offered,   \* the rows of the pings that settled, with the fields cycle, at and entry
  buffered,  \* rows nobody has sent yet
  underway,  \* rows that were sent and whose delivery is not known
  delivered  \* the copies of rows that can be read

Init ==
  /\ offered = {}
  /\ buffered = {}
  /\ underway = {}
  /\ delivered = [row \in {} |-> 0]

\* A ping is an entry of a cycle's list of hosts, and a cycle has one time.
IsOfNewPing(row) ==
  \A x \in offered : x.cycle = row.cycle => x.entry # row.entry /\ x.at = row.at

\* The row is given up, joins the buffer or takes the buffer along.
Offer(row) ==
  /\ IsOfNewPing(row)
  /\ offered' = offered \cup {row}
  /\ \/ UNCHANGED <<buffered, underway>>
     \/ buffered' = buffered \cup {row} /\ UNCHANGED underway
     \/ buffered' = {} /\ underway' = underway \cup buffered \cup {row}
  /\ UNCHANGED delivered

\* Some of the rows underway are delivered, and again underway or not; others
\* are lost, perhaps with the buffer.
Deliver ==
  \E rows \in SUBSET underway :
    /\ delivered' = Inserted(delivered, rows, 1)
    /\ underway' \in SUBSET underway
    /\ \A row \in rows \cap underway' : Copies(row, delivered) < Retries
    /\ buffered' \in {buffered, {}}
    /\ UNCHANGED offered

\* The buffer is delivered, so often as what is underway may be, or lost.
Empty ==
  /\ buffered' = {}
  /\ \E n \in 0..Retries + 1 : delivered' = Inserted(delivered, buffered, n)
  /\ UNCHANGED <<offered, underway>>

Next ==
  \/ \E row \in offered' \ offered : Offer(row)
  \/ Deliver \/ Empty

Spec == Init /\ [][Next]_<<offered, buffered, underway, delivered>>

=============================================================================
