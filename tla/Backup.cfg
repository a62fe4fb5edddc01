\* MaxDepth 3 stops the walk in some of the directories; MaxClusters 4 cuts the chain that
\* comes back to itself and holds the others; Wide 1000 is above every block.
SPECIFICATION FairSpec
CONSTANTS
  MaxChain = 5
  Volumes <- MCVolumes
  MaxDepth = 3
  MaxClusters = 4
  Wide = 1000
  MaxCompares = 2
INVARIANTS TypeOK BackupComplete ComparisonExact ClustersKept
PROPERTY BackupEnds
CHECK_DEADLOCK FALSE
