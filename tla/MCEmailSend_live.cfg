SPECIFICATION FairSpec
CONSTANTS
  Emails = {e1}
  Jobs = {j1, j2}
  RetryLimit = 0
  MaxRcpts = 1
  Ceiling = 1
  Backlog = 1
  LastDay = 0
  Refusals = {"refuse"}
  Reports = {"delivered"}
PROPERTIES QueuedSettles ParkedDrains KeepsPromise
CHECK_DEADLOCK FALSE
