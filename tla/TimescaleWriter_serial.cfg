\* Two tasks, database errors and a cancellation.
SPECIFICATION FairSpec
CONSTANTS
  MaxEvents = 4
  BatchSize = 2
  Faults = {"database", "cancel"}
INVARIANTS
  TypeOK
  SerialFlushesLoseNothing
  ClosedWriterStoredAll
PROPERTY
  TimerFlushesRows
CHECK_DEADLOCK FALSE
