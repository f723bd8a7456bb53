\* Two calls, decideOnce on one operation id with two digests and two streams
\* among them; no stream is deleted.  Fairness for the promise chains.
CONSTANTS
  Proc = {p1, p2}
  Stream = {s1, s2}
  Call = {c1, c2}
  Key = {k1}
  Digest = {d1, d2}
  Kinds = {"append", "decide", "once"}
  MaxBatch = 1
  MaxAttempts = 2
  MaxCrashes = 1
  MaxDeletes = 0
  MaxPrunes = 0
  None = None
SPECIFICATION FairSpec
INVARIANTS
  OperationDecidedOnce
  DigestsAgree
PROPERTY
  WaitersServed
