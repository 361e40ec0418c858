\* Connections come and go, nothing else goes wrong; the snapshots' depth
\* limit hides a level.
SPECIFICATION FairSpec
CONSTANTS
  b1 = b1  b2 = b2  a1 = a1  t1 = t1  t2 = t2
  Levels <- MCLevels
  Sizes = {1, 2}
  BookAt <- MCBookAt
  Visible <- MCShallow
  Initial = initial
  Tasks <- MCNoTasks
  MaxUpdates = 4
  MaxPending = 4
  QueueSize = 2
  Faults = {"disconnect"}
INVARIANT
  SyncedBookIsExact
PROPERTIES
  DisconnectWithdrawsBook
  StableConnectionCatchesUp
