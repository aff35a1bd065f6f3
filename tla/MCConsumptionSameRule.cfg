SPECIFICATION ScanSpec
CONSTANTS
  Numbers = {1, 2, 3}
  Counts = {0, 1}
  Points = {None, 1}
  Captured = {1}
  SliceRequests = 2
  IndexLimit = 2
  FaultSets = {{"body lost"}, {"body too large"}, {"store fails", "workbench closes", "capture too long"}}
  None = None
INVARIANT SameRule
CHECK_DEADLOCK FALSE
