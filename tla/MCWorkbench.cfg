SPECIFICATION FairSpec
CONSTANTS
  Requests = {r1, r2}
  Attempts = {a1}
  MaxGrants = 1
  Faults = {"grant expires", "pi exits", "store fails", "close", "end", "spent elsewhere"}
  None = None
  Elsewhere = Elsewhere
INVARIANTS
  QuestionsInTurn
  ViewsAreTruthful
  SentIsOnRecord
  AttemptSentOnce
PROPERTIES
  SendsAreGated
  ApprovalsSettle
CHECK_DEADLOCK FALSE
