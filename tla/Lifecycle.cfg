\* Two operations, every kind of handler shape: one with a session (carve), one that
\* shares the tree and never polls (restore), one without hooks (backup).
SPECIFICATION FairSpec
CONSTANTS
  Kinds = {"deep", "carve", "restore", "backup"}
  MaxOps = 2
  Units = 2
INVARIANTS TypeOK CoreOwnsItsFrame CancelReachesCore ProgressHasReceiver IdleIsClean
PROPERTIES FinalSaveIsQuiet CompletedIsFinal OperationReturns
CHECK_DEADLOCK FALSE
