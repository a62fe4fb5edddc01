\* The partition is compared with the backup that was just made of it.
SPECIFICATION Spec
CONSTANTS
  MaxChain = 5
  Volumes <- SizedVolumes
  MaxDepth = 3
  MaxClusters = 4
  Wide = 1000
  MaxCompares = 1
INVARIANT OwnBackupAccepted
CHECK_DEADLOCK FALSE
