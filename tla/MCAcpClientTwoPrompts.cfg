CONSTANT Bounds <- MCTwoPrompts
SPECIFICATION Spec
INVARIANT AcceptedIsOwn
CHECK_DEADLOCK FALSE
