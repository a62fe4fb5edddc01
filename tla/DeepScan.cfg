\* MaxDirDepth 3 stops the walk in some of the directories, and MaxChain 2 cuts their
\* paths in the session file; batches of 2 are full in a run of 4 free clusters.
SPECIFICATION FairSpec
CONSTANTS
  MaxChain = 2
  Words <- MCWords
  Volumes <- MCVolumes
  Junk <- MCJunk
  MaxDirDepth = 3
  FatBatch = 2
  NtfsBatch = 2
  BitmapChunk = 2
  Every = 2
  MaxRuns = 3
INVARIANTS TypeOK  SavedReadsBack OwnClusters
PROPERTIES SavedFilesStay ScanEnds
CHECK_DEADLOCK FALSE
