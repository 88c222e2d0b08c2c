SPECIFICATION Spec
CONSTANTS
  Threads = {t1, t2}
  Procs = {p1, p2}
  TaskIds = {k1}
  Products = {x1, x2}
  Prices = {low, high}
  LostAcks = FALSE
  Nil = Nil
SYMMETRY Symmetric
INVARIANTS
  HumanGate
  OneGraphPerThread
  PendingIsResumable
  NoPartialBatch
  ClosedIsComplete
  WaitsEnd
PROPERTIES
  ClosedIsFinal
  Implements
