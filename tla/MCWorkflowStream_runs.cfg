SPECIFICATION FairSpec
CONSTANTS
  Runs = {r1}
  Tasks = {k1}
  Products = {x1, x2}
  Modes = {"invoke", "stream", "evaluate"}
  Faults = {"node", "commit", "disconnect", "crash"}
  Earlier = Earlier
  Nil = Nil
INVARIANTS
  EventOrder
  ResultIsDurable
  ViewIsTrue
  DraftsAreReviewed
PROPERTIES
  Implements
  ClientsLearn
CHECK_DEADLOCK FALSE
