SPECIFICATION FairSpec
CONSTANTS
  Runs = {r1, r2}
  Tasks = {t1}
  Products = {x1, x2}
  Earlier = Earlier
  Nil = Nil
INVARIANTS
  DraftsHaveAudits
  AnswerIsKept
PROPERTIES
  Implements
  RunsEnd
CHECK_DEADLOCK FALSE
