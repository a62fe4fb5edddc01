SPECIFICATION FairSpec
CONSTANTS
  Disks <- MCDisks
  Media <- MCMedia
  Strides <- MCStrides
  Window = 2
  Near = 1
  Width = 64
INVARIANTS TypeOK ListedTrue GhostsApart GhostsComplete RightPartition
PROPERTY SearchCloses
CHECK_DEADLOCK FALSE
