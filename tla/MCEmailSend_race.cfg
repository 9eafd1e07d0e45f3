SPECIFICATION Spec
CONSTANTS
  Emails = {e1}
  Jobs = {j1, j2}
  RetryLimit = 1
  MaxRcpts = 2
  Ceiling = 2
  Backlog = 1
  LastDay = 0
  Refusals = {"strip","stopped"}
  Reports = {"delivered"}
INVARIANTS  AtMostOnce AcceptedStaysFindable 
PROPERTIES  StatusOnlyClimbs
CHECK_DEADLOCK FALSE
