\* A diff meets a full queue while the first snapshot is on its way.
SPECIFICATION Spec
CONSTANTS
  b1 = b1  b2 = b2  a1 = a1  t1 = t1  t2 = t2
  Levels <- MCLevels
  Sizes = {1, 2}
  BookAt <- MCBookAt
  Visible <- MCVisible
  Initial = initial
  Tasks <- MCTasks
  MaxUpdates = 3
  MaxPending = 4
  QueueSize = 2
  Faults = {"disconnect", "full"}
INVARIANT
  MissedUpdateIsRebuilt
