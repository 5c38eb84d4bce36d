CONSTANTS
  a = a  b = b  d = d
  o1 = o1  o2 = o2
  i1 = i1  i2 = i2
  ShardOf <- MCShardOf
  Keys = {a, b, d}
  Shards = 2
  Owners = {o1, o2}
  Ids = {i1, i2}
  MaxPerOwner = 1
  MaxBytes = 3
  Overhead = 1
  KeyCost = 1
  Counts = {1}
  Volatile = {b}

SPECIFICATION FairSpec
INVARIANTS RegistryExact NeverTwice
PROPERTIES ScanComplete ScanEnds

