SPECIFICATION FairSpec
CONSTANTS
  Drafts = {d1}
  MaxRevision = 2
  Senders = {s1}
  MaxTries = 2
  Allowance = 1
  Mishaps = 1
  Clocks = {c1}
INVARIANTS TypeOK HandedOnce LedgersAgree AllowanceKept ScheduleSendsOnce
PROPERTIES SendsResolve SchedulesResolve
CHECK_DEADLOCK FALSE
