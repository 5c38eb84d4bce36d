CONSTANTS
  MaxMultiBulk = 2
  MaxBulk = 2
  Requests <- Odd
  MaxSent = 3
  MaxPipeline = 2
  FlushAt = 3
  MaxOutput = 4
  ReplySizes = {1, 3}
  Configs <- TwoConfigs
SPECIFICATION FairSpec
PROPERTIES RepliesAlwaysArrive
CHECK_DEADLOCK FALSE
