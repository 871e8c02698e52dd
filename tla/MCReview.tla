------------------------------ MODULE MCReview ------------------------------
(***************************************************************************)
(* Instances of Review for TLC.                                            *)
(***************************************************************************)
EXTENDS Review, TLC

CONSTANTS c1, c2, c3, s1, s2

Symmetry == Permutations(Commit) \cup Permutations(Session)
=============================================================================
