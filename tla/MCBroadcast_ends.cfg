SPECIFICATION FairSpec
CONSTANTS
  Contacts = 2
  PageSize = 2
  Walks = {w1}
  Mishaps = 2
PROPERTY SendingEnds
CHECK_DEADLOCK FALSE
