CONSTANTS
  p1 = p1  p2 = p2  c1 = c1  c2 = c2
  Callers = {p1, p2}
  Conns = {c1, c2}
  PoolSize = 1
  Retries = 1
  HasToken = TRUE
  Calls <- DelAndGet
  MaxCalls = 1
  Hurried = {p1}
  MaxDials = 1
SPECIFICATION Spec
SYMMETRY Symmetry
INVARIANTS IdleClean OwnReply Ceiling AnswersTruthful
CHECK_DEADLOCK FALSE
