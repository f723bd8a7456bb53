-------------------------- MODULE MCSubscriptions --------------------------
(* Small instances of Subscriptions for TLC.                               *)
EXTENDS Subscriptions
=============================================================================
