SPECIFICATION Spec
CONSTANTS
  Syncs = {a, b}
  Skus = {1}
  Known = {1}
  LastDay = 2
  PerDay = 2
  PageSize = 1
  MaxPages = 3
  MaxVersion = 2
  MaxChanges = 1
  Plans = {n1, n2}
  Nil = Nil
INVARIANTS
  SyncedIsTheShops
PROPERTIES
  PlanIsKept
  SyncIsIdempotent
CHECK_DEADLOCK FALSE
