SPECIFICATION FairSpec
CONSTANTS
  Happenings <- MCHappenings
  Bounds <- MCBounds
  MaxBacklog = 2
  MaxUnsent = 2
INVARIANTS ToldTruly NobodyIsLeft
PROPERTIES CloseEnds GroupEndsWithOwner
CHECK_DEADLOCK FALSE
