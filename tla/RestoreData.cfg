\* Pieces of 2 bytes: clusters of 1 and 2 are read at once, three sectors are not; the
\* preview's cap of 3 cuts carved files and makes the buffer of longer ones grow.
SPECIFICATION FairSpec
CONSTANTS
  Batches <- MCBatches
  Buf = 2
  SectorSize = 2
  PreviewCap = 3
  Unreadable <- MCUnreadable
  MaxTasks = 3
INVARIANTS TypeOK RestoredStays OnlyClashesFail
PROPERTIES CopiesFaithfully CopyEnds
CHECK_DEADLOCK FALSE
