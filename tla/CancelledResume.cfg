SPECIFICATION FairSpec
CONSTANTS
  Kinds = {"scan", "carve", "compare"}
  MaxOps = 2
  Units = 2
INVARIANT CancelledCarveIsResumable
CHECK_DEADLOCK FALSE
