SPECIFICATION PersistentSpec
CONSTANTS
  Threads = {t1}
  Procs = {p1, p2}
  TaskIds = {k1}
  Products = {x1, x2}
  Prices = {low}
  LostAcks = TRUE
  Nil = Nil
PROPERTIES
  ClosedIsFinal
  RequestsAreAnswered
  PendingIsDecided
