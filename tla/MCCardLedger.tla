----------------------------- MODULE MCCardLedger -----------------------------
(* A small instance of CardLedger for TLC. *)
EXTENDS CardLedger, TLC

CONSTANTS c1, c2, d1

MCTimes == 0..2

Symmetry == Permutations(Cards)
=============================================================================
