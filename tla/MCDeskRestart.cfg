SPECIFICATION FairSpec
CONSTANTS
  Proposals = {p1}
  Auths = {x1, x2}
  None = None
  MaxOpens = 3
  Faults = {"crash", "pi exits", "store fails", "authorization ages"}
INVARIANTS WrittenOnce OneConsequence FinishCoversWhatWasSent
PROPERTIES WrittenOnAllow CloseEnds
CHECK_DEADLOCK FALSE
