------------------------------- MODULE MCTasks -------------------------------
(* Small instances of Tasks for TLC. *)
EXTENDS Tasks, TLC

Alike == Permutations(Run) \cup Permutations(Claimer) \cup Permutations(Completer)
         \cup Permutations(Chain)
=============================================================================
