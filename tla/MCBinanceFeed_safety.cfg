\* Every fault, snapshots that list every level.
SPECIFICATION Spec
CONSTANTS
  b1 = b1  b2 = b2  a1 = a1  t1 = t1  t2 = t2
  Levels <- MCLevels
  Sizes = {1, 2}
  BookAt <- MCBookAt
  Visible <- MCVisible
  Initial = initial
  Tasks <- MCTasks
  MaxUpdates = 4
  MaxPending = 2
  QueueSize = 3
  Faults = {"disconnect", "fetch", "full"}
SYMMETRY Symmetry
INVARIANTS
  TypeOK
  SyncedBookIsExact
  ClearedBookAwaitsSnapshot
PROPERTY
  ImplementsLiveBook
