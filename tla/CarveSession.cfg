SPECIFICATION Spec
CONSTANTS
  Size = 10
  Chunk = 4
  Overlap = 1
  SameTypeGap = 2
  MaxGap = 5
  Hints = {"jpg", "pdf", "png"}
  MaxFileSize <- MCMaxFileSize
  Trailer <- MCTrailer
  Marks = 2
  Disks <- MCDisks
  MaxRuns = 3
  MaxFiles = 3
INVARIANTS TypeOK NoChunkSkipped CarvedApart OneRunFindsAll
PROPERTIES SavedFilesStay ProgressStays
CHECK_DEADLOCK FALSE
