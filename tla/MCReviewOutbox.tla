---------------------------- MODULE MCReviewOutbox ----------------------------
(* Small instances of ReviewOutbox for TLC. *)
EXTENDS ReviewOutbox, TLC

CONSTANTS r1, r2, r3, d1, d2

Symmetry == Permutations(Reviews) \cup Permutations(Waiters)
=============================================================================
