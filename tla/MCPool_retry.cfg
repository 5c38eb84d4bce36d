CONSTANTS
  p1 = p1  p2 = p2  c1 = c1  c2 = c2
  Callers = {p1}
  Conns = {c1, c2}
  PoolSize = 1
  Retries = 1
  HasToken = FALSE
  Calls <- ExpireOnly
  MaxCalls = 1
  Hurried = {p1}
  MaxDials = 0
SPECIFICATION Spec
INVARIANTS ExpireTruthful
CHECK_DEADLOCK FALSE
