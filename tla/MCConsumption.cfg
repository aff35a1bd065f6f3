SPECIFICATION ScanFairSpec
CONSTANTS
  Numbers = {1, 2, 3}
  Counts = {0, 1}
  Points = {None, 1}
  Captured = {1}
  SliceRequests = 2
  IndexLimit = 2
  FaultSets = {{"body lost"}, {"body too large"}, {"store fails", "workbench closes", "capture too long"}}
  None = None
INVARIANTS FindingsAreFirst NegativesAreComplete
PROPERTY ConsumptionIsFound
CHECK_DEADLOCK FALSE
