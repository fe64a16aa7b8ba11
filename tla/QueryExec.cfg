SPECIFICATION CostSpec
CONSTANTS
  c1 = c1
  c2 = c2
  Calls <- TwoCalls
  Requests <- AllRequests
  Limit <- OneLimited
  ReadOnly = TRUE
  NamedWG = TRUE
  CreateWG = TRUE
  Sizes = {0, 1, 20}
  Full <- SmallAndLarge
INVARIANTS TypeOK PollsBounded CostToldOnce RowsArePaidFor
PROPERTIES ImplementsPromise HonorsContext EndIsNoticed LimitIsKept StopIsEffective
CHECK_DEADLOCK FALSE
