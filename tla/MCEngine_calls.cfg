CONSTANTS
  p1 = p1  p2 = p2  p3 = p3
  a = a  b = b  c = c
  s1 = s1  s2 = s2
  None = None
  ShardOf <- MCShardOf
  Procs = {p1, p2}
  Keys = {a, b}
  Shards = {s1}
  MaxSize = 1
  Limits = {0, 1}
  AdmitAttempts = 1
  MaxEvictionsPerWrite = 1
  SampleSize = 1
  Policies = {TRUE}
  TTLs = {"live"}
  Calls = {"set", "get", "expire", "setttl"}
SPECIFICATION FairSpec
INVARIANTS TypeOK ShardExact
PROPERTIES LiveNeverReclaimed CallsReturn
