------------------------------ MODULE MCDelivery ------------------------------
(***************************************************************************)
(* Instances of Delivery for TLC.                                          *)
(***************************************************************************)
EXTENDS Delivery, TLC

CONSTANTS c1, c2, c3, s1, s2

\* One operator running every command, or one who never runs `ready`.
OneDeliverer == [s \in {s1} |-> Command]
OneMerger    == [s \in {s1} |-> {"check", "pr", "merge"}]

CommitSymmetry == Permutations(Commit)
===============================================================================
