\* The connection is lost once and rows are dropped; the log is read back at
\* every moment.
SPECIFICATION Spec
CONSTANTS
  b1 = b1  b2 = b2  a1 = a1
  Levels <- MCLevels
  Sizes = {1, 2}
  BookAt <- MCBookAt
  Visible <- MCVisible
  MaxUpdates = 3
  MaxPending = 4
  MaxConnections = 2
  Retention = TRUE
INVARIANTS
  TypeOK
  OrderedLogReplaysExactly
  OrderedReplayIsLiveBook
  RetentionOnlyHidesLevels
  ReplayHasNoLookahead
CHECK_DEADLOCK FALSE
