SPECIFICATION Spec
CONSTANTS
  Contacts = 2
  PageSize = 1
  Walks = {w1, w2}
  Mishaps = 1
SYMMETRY WalkSymmetry
INVARIANTS TypeOK NobodySkipped LateRowsRefused
CHECK_DEADLOCK FALSE
