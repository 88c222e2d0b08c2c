SPECIFICATION FairSpec
CONSTANTS
  Threads = {t1, t2}
  Deciders = {d1, d2}
  Workers = {w1, w2}
  Capacity = 2
  Nil = Nil
INVARIANTS
  NoCircle
PROPERTIES
  RequestsEnd
CHECK_DEADLOCK FALSE
