SPECIFICATION Spec
CONSTANTS
  Emails = {e1, e2}
  Jobs = {j1}
  RetryLimit = 0
  MaxRcpts = 1
  Ceiling = 1
  Backlog = 1
  LastDay = 1
  Refusals = {}
  Reports = {}
INVARIANTS TypeOK 
CHECK_DEADLOCK FALSE
SYMMETRY EmailSymmetry
