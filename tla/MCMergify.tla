------------------------------ MODULE MCMergify ------------------------------
(***************************************************************************)
(* Instances of Mergify for TLC.                                           *)
(***************************************************************************)
EXTENDS Mergify, TLC

CONSTANTS s1, s2

SessionSymmetry == Permutations(Session)
=============================================================================
