\* Connections come and go, messages are lost to a full queue, resyncs are
\* asked for.
SPECIFICATION FairSpec
CONSTANTS
  b1 = b1  b2 = b2  a1 = a1
  Levels <- MCLevels
  Sizes = {1, 2}
  BookAt <- MCBookAt
  Visible <- MCVisible
  MaxUpdates = 4
  MaxPending = 2
  QueueSize = 3
  MaxLost = 2
  Faults = {"disconnect", "full"}
INVARIANTS
  TypeOK
  SyncedBookIsExact
PROPERTIES
  ImplementsLiveBook
  SnapshotRestoresBook
  DisconnectWithdrawsBook
  StableConnectionCatchesUp
