\* Two tasks and a database that never fails.
SPECIFICATION Spec
CONSTANTS
  MaxEvents = 3
  BatchSize = 2
  Faults = {}
INVARIANT
  BufferedOrStored
CHECK_DEADLOCK FALSE
