CONSTANTS
  p1 = p1  p2 = p2  p3 = p3
  a = a  b = b  c = c
  s1 = s1  s2 = s2
  None = None
  ShardOf <- MCShardOf
  Procs = {p1, p2}
  Keys = {a, b}
  Shards = {s1}
  MaxSize = 2
  Limits = {2}
  AdmitAttempts = 2
  MaxEvictionsPerWrite = 2
  SampleSize = 2
  Policies = {TRUE}
  TTLs = {"none"}
  Calls = {"set", "setnx"}
SYMMETRY Symmetry
SPECIFICATION Spec
PROPERTIES BlockedSetNXCostsNothing
