---------------------------- MODULE MCDocuments ----------------------------
(***************************************************************************)
(* The documents for TLC.  Ids and contents are compared for equality      *)
(* only, so any two of them may be exchanged; the clients may not, where   *)
(* only some of them open documents.                                       *)
(***************************************************************************)
EXTENDS DocumentsRefinement, TLC

Symmetry == Permutations(Ids) \cup Permutations(Contents)

=============================================================================
