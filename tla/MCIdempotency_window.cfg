SPECIFICATION Spec
CONSTANTS
  Requests = {r1, r2, r3, r4}
  Bodies = {b1, b2}
  DayLong = TRUE
INVARIANTS TypeOK OneAcceptPerWindow AcceptStaysRecorded
CHECK_DEADLOCK FALSE
