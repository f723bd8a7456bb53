CONSTANTS
  Process = {p1, p2}
  Identified = {p1}
  Ref = {r1}
  Serial = {c1, c2, c3}
  Direct = {d1}
  Sweep = {w1}
  MaxFaults = 1
  None = None
SPECIFICATION LeaseFairSpec
INVARIANTS
  OneMerger
PROPERTIES
  LeaseNotTaken
  DeadHolderFreed
