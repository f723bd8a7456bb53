---------------------------- MODULE MCCancelSaga ----------------------------
(* Small instances of CancelSaga for TLC. *)
EXTENDS CancelSaga
=============================================================================
