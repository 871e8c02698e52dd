------------------------------ MODULE MCHosted ------------------------------
(***************************************************************************)
(* Instances of Hosted for TLC.                                            *)
(***************************************************************************)
EXTENDS Hosted
=============================================================================
