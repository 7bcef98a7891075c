--------------------------- MODULE MCReviewService ---------------------------
(* Small instances of ReviewService for TLC. *)
EXTENDS ReviewService, TLC

CONSTANTS c1, c2, d1, w1, w2

MCTimes == 0..1

Symmetry == Permutations(Cards) \cup Permutations(Workers)
=============================================================================
