\* A reconcile races an update.
CONSTANTS
  Setter = {s1}
  Reconciler = {c1}
  Initializer = {i1}
  ideate = ideate
  plan = plan
  delegate = delegate
  f1 = f1
  f2 = f2
  v1 = v1
  v2 = v2
  Phase <- Phases
  Initial = ideate
  Edge <- Edges
  Field = {f1, f2}
  Value = {v1, v2}
  Requests <- Updates
  MaxCasRetries = 3
  MaxCalls = 2
  MaxCrashes = 0
  MaxFaults = 0
  None = None
SPECIFICATION Spec
INVARIANT
  VersionIsColumn
