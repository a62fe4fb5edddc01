SPECIFICATION FairSpec
CONSTANTS
  MaxOps = 2
  MaxFiles = 2
INVARIANTS TypeOK EveryFileCountedOnce NothingInvented
PROPERTIES EveryRestoreReported
CHECK_DEADLOCK FALSE
