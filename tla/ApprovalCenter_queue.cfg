SPECIFICATION FairSpec
CONSTANTS
  Threads = {t1, t2}
  Nil = Nil
INVARIANTS
  ReportIsTrue
PROPERTIES
  QueueIsHonest
  QueueFollows
