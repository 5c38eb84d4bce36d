CONSTANTS
  p1 = p1  p2 = p2  p3 = p3
  a = a  b = b  c = c
  s1 = s1  s2 = s2
  None = None
  ShardOf <- MCShardOf
  Procs = {p1, p2}
  Keys = {a, c}
  Shards = {s1, s2}
  MaxSize = 2
  Limits = {1, 2}
  AdmitAttempts = 2
  MaxEvictionsPerWrite = 1
  SampleSize = 2
  Policies = {TRUE, FALSE}
  TTLs = {"none"}
  Calls = {"set", "setnx", "get", "expire", "delete", "close"}
SYMMETRY Symmetry
SPECIFICATION Spec
INVARIANTS HardLimit EvictionBounded AccountingExact ClampsNeverBite
PROPERTIES SetNXNeverReplaces ImplementsBoundedCache
