\* Nothing is lost; the log beside the live book.
SPECIFICATION Spec
CONSTANTS
  b1 = b1  b2 = b2  a1 = a1
  Levels <- MCLevels
  Sizes = {1, 2}
  BookAt <- MCBookAt
  Visible <- MCVisible
  MaxUpdates = 3
  MaxPending = 4
  MaxConnections = 1
  Retention = FALSE
INVARIANT
  ReplayIsLiveBook
CHECK_DEADLOCK FALSE
