CONSTANTS
  MaxMultiBulk = 2
  MaxBulk = 2
  Requests <- Kinds
  MaxSent = 3
  MaxPipeline = 2
  FlushAt = 3
  MaxOutput = 4
  ReplySizes = {1, 3}
  Configs <- TwoConfigs
SPECIFICATION FairSpec
INVARIANTS NothingOwed BatchBounded
PROPERTIES RepliesArrive
CHECK_DEADLOCK FALSE
