------------------------ MODULE MCQuestDBConnection ------------------------
(* QuestDBConnection on small instances for TLC. *)
EXTENDS QuestDBConnection, TLC

\* Connections are interchangeable, and so are the fibers that use them.
Symmetry == Permutations(Conns) \cup Permutations(Fibers)

=============================================================================
