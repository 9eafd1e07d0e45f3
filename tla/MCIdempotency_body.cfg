SPECIFICATION Spec
CONSTANTS
  Requests = {r1, r2, r3}
  Bodies = {b1, b2}
  DayLong = FALSE
INVARIANT AnswerMatchesBody
CHECK_DEADLOCK FALSE
