---------------------------- MODULE MCContentEdit ----------------------------
(* A small instance of ContentEdit for TLC. *)
EXTENDS ContentEdit, TLC

CONSTANTS w1, w2, front, back, name, limits

Symmetry == Permutations(Workers) \cup Permutations(CardFields) \cup Permutations(DeckFields)
=============================================================================
