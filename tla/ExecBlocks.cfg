SPECIFICATION FairSpec
CONSTANTS
  Kinds = {"scan", "carve", "compare"}
  MaxOps = 2
  Units = 2
PROPERTY ExecBlocksUntilDone
CHECK_DEADLOCK FALSE
