SPECIFICATION FairSpec
CONSTANTS
  Events = {1, 2}
  Tests = {}
  Passes = {p1}
  MaxAttempts = 2
  DisableAfter = 2
  Mishaps = 0
  Switches = 0
  Bounces = {2}
  Handlers = {h1, h2}
  Copies = 2
  Losses = 1
INVARIANTS TypeOK EffectsOnce
PROPERTIES TripsOnFailures  HookSpec
CHECK_DEADLOCK FALSE
