---------------------------- MODULE MCMergeLease ----------------------------
(* Small instances of MergeLease for TLC. *)
EXTENDS MergeLease
=============================================================================
