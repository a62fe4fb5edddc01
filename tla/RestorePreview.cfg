SPECIFICATION Spec
CONSTANTS
  Batches <- LargeBatches
  Buf = 2
  SectorSize = 2
  PreviewCap = 3
  Unreadable <- MCUnreadable
  MaxTasks = 2
INVARIANT PreviewShowsRestored
CHECK_DEADLOCK FALSE
