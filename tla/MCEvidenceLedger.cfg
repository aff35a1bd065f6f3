SPECIFICATION Spec
CONSTANTS
  result = result
  holdout = holdout
  selection = selection
  peeking = peeking
  request = request
  Records = {result, holdout, selection, peeking, request}
  Selections = {selection, peeking}
  Holdouts = {holdout}
  None = None
  Needs <- RefersTo
  MaxOpens = 5
  Faults = {"process ends", "machine stops", "write fails", "identity fails"}
INVARIANTS
  LedgerIsSound
  AckedKept
CHECK_DEADLOCK FALSE
