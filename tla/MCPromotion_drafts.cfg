SPECIFICATION PromotionSpec
CONSTANTS
  Products = {p1, p2, p3}
  Costs = {500, 510, 856}
  Sales = {480, 700, 1007}
  MaxDiscounts = {0, 12345, 20000}
  MinMargins = {0, 15000}
  Budgets = {1, 10000}
  Limits = {1, 3}
  MaxRuns = 2
  MaxChanges = 1
  NoDraft = NoDraft
INVARIANTS
  SelectionIsSound
  DraftsKeepTheRequest
SYMMETRY Symmetric
CHECK_DEADLOCK FALSE
