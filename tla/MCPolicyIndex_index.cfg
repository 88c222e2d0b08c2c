SPECIFICATION Spec
CONSTANTS
  Procs = {p1, p2, p3}
  Policies = {x1, x2}
  Listed = {x1}
  Models = {m1, m2}
  OldModel = m1
  Nil = Nil
SYMMETRY Symmetric
INVARIANTS
  IndexIsWhole
  EvidenceIsWhole
  UpgradeIsSeen
  WaitsEnd
  ProcedureIsEnough
PROPERTIES
  IndexedStaysIndexed
CHECK_DEADLOCK FALSE
