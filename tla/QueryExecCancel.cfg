SPECIFICATION CostSpec
CONSTANTS
  c1 = c1
  c2 = c2
  Calls <- TwoCalls
  Requests <- OnlySelects
  Limit <- NoneLimited
  ReadOnly = FALSE
  NamedWG = FALSE
  CreateWG = FALSE
  Sizes = {0, 1, 20}
  Full <- SmallAndLarge
INVARIANTS CancelStopsQuery
CHECK_DEADLOCK FALSE
