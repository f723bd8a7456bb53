\* Two claims, two completions, a failure, two gate runs on two bases, four moves.
CONSTANTS
  Run = {g1, g2}
  Chain = {main, dev}
  Claimer = {a1, a2}
  Completer = {c1, c2}
  Failer = {f1}
  MaxMoves = 4
  ClaimTries = 2
  CompleteTries = 2
  SyncTries = 2
  None = None
SPECIFICATION Spec
SYMMETRY Alike
INVARIANTS
  ClaimsApart
  CompletedStands
  CheckedAtHead
  DocumentAgrees
  RerunsClear
