CONSTANTS
  Process = {p1, p2}
  Identified = {p1}
  Ref = {r1}
  Serial = {c1}
  Direct = {}
  Sweep = {}
  MaxFaults = 1
  Tree = {t1}
  Target = r1
  Job = {j1, j2}
  MaxAdds = 1
  None = None
SPECIFICATION Spec
SYMMETRY AnyJob
PROPERTIES
  RequestUnowned
  ReservationKept
  NoRequestDuringMerge
