SPECIFICATION Spec
CONSTANTS
  Runs = {r1}
  Tasks = {k1}
  Products = {x1}
  Modes = {"stream"}
  Faults = {"disconnect"}
  Earlier = Earlier
  Nil = Nil
INVARIANTS
  DraftsHaveAudits
CHECK_DEADLOCK FALSE
