-------------------------- MODULE MCAtomicAppender --------------------------
(* Small instances of AtomicAppender for TLC. *)
EXTENDS AtomicAppenderRefinement, TLC

Interchangeable == Permutations(Proc) \cup Permutations(Call)
=============================================================================
