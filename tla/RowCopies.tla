------------------------------ MODULE RowCopies ------------------------------
(***************************************************************************)
(* A table of QuestDB as db-schema.ts creates it: without DEDUP, so that a *)
(* row inserted again is there again.  A table is a function from its rows *)
(* to the number of their copies.                                          *)
(***************************************************************************)

EXTENDS Naturals

Copies(row, rowsOf) == IF row \in DOMAIN rowsOf THEN rowsOf[row] ELSE 0

\* rowsOf after rows were inserted n times.
Inserted(rowsOf, rows, n) ==
  [row \in DOMAIN rowsOf \cup (IF n = 0 THEN {} ELSE rows) |->
     Copies(row, rowsOf) + (IF row \in rows THEN n ELSE 0)]

=============================================================================
