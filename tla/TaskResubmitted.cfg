\* A run that dies between its record and its signal, a commit, its resubmission.
CONSTANTS
  Run = {g1}
  Chain = {main}
  Claimer = {}
  Completer = {c1}
  Failer = {}
  MaxMoves = 4
  ClaimTries = 2
  CompleteTries = 2
  SyncTries = 2
  None = None
SPECIFICATION Spec
INVARIANT
  OnlyPassingTree
