CONSTANT Bounds <- MCDecided
SPECIFICATION Spec
INVARIANT ApprovalsReachWantedWork
CHECK_DEADLOCK FALSE
