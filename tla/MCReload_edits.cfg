SPECIFICATION ReloadSpec
CONSTANTS
  MaxDeeds = 2
  MaxRotations = 0
  Rejected = {3}
  Broken = Broken
CHECK_DEADLOCK FALSE
INVARIANTS ReportedIsApplied
