SPECIFICATION Spec
CONSTANTS
  Threads = {t1}
  Procs = {p1, p2}
  TaskIds = {k1}
  Products = {x1}
  Prices = {low}
  LostAcks = FALSE
  Nil = Nil
INVARIANTS
  DecisionIsFollowed
