\* Three calls, of sets with transitions and updates and of reconciles; an append that
\* fails, a call that dies.
CONSTANTS
  Setter = {s1, s2, s3}
  Reconciler = {c1, c2}
  Initializer = {i1}
  ideate = ideate
  plan = plan
  delegate = delegate
  f1 = f1
  f2 = f2
  v1 = v1
  v2 = v2
  Phase <- Phases
  Initial = ideate
  Edge <- Edges
  Field = {f1, f2}
  Value = {v1, v2}
  Requests <- Mixed
  MaxCasRetries = 1
  MaxCalls = 3
  MaxCrashes = 1
  MaxFaults = 1
  None = None
SPECIFICATION Spec
SYMMETRY AnyCall
INVARIANTS
  VersionsAgree
  AcknowledgedKept
  ObligationFrozen
  UnloggedIsContested
  SucceededIsFold
  CaughtUpIsFold
PROPERTY
  PhaseStepsLegal
