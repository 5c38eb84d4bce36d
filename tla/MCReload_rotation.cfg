SPECIFICATION ReloadFairSpec
CONSTANTS
  MaxDeeds = 1
  MaxRotations = 1
  Rejected = {}
  Broken = Broken
CHECK_DEADLOCK FALSE
INVARIANTS PairsOnly
PROPERTIES RotationServed
