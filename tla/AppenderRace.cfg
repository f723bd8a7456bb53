\* Two processes, of which one may die, and two calls on one stream and one key:
\* every entry point, batches of two, SQLITE_BUSY, a deletion and a prune.
CONSTANTS
  Proc = {p1, p2}
  Stream = {s1}
  Call = {c1, c2}
  Key = {k1}
  Digest = {d1}
  Kinds = {"append", "unkeyed", "decide", "once"}
  MaxBatch = 2
  MaxAttempts = 2
  MaxCrashes = 1
  MaxDeletes = 1
  MaxPrunes = 1
  None = None
SPECIFICATION Spec
SYMMETRY Interchangeable
INVARIANTS
  KeyCommittedOnce
  AnswersDurable
  DecisionsSerialized
  GateIsTail
  GateCoversLog
  SequencesAscend
PROPERTY
  ImplementsIdempotentLog
