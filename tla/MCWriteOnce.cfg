SPECIFICATION FairSpec
CONSTANTS
  Writers = {w1, w2, w3}
  Names = {n1}
  MaxCalls = 1
  None = None
INVARIANTS
  NothingByHalves
PROPERTIES
  RecordSpec
  CallsReturn
