CONSTANT Bounds <- MCBounds
SPECIFICATION Spec
INVARIANTS NothingForWhatEnded RunsAreTrue RefusedCloseChangesNothing
PROPERTY EveryoneIsTold
CHECK_DEADLOCK FALSE
