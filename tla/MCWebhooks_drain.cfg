SPECIFICATION FairHookSpec
CONSTANTS
  Events = {1}
  Tests = {1}
  Passes = {p1, p2}
  MaxAttempts = 2
  DisableAfter = 1
  Mishaps = 1
  Switches = 1
INVARIANTS HookTypeOK PostsAreCharged
PROPERTIES NoPostAfterSuccess NothingStaysOpen
CHECK_DEADLOCK FALSE
