SPECIFICATION FairSpec
CONSTANTS
  MaxAttempts = 3
INVARIANTS
  RetriesAreBounded
  TraceTellsTheCall
PROPERTIES
  CallsAreAnswered
CHECK_DEADLOCK FALSE
