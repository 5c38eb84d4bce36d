CONSTANTS
  c1 = c1  c2 = c2  c3 = c3
  Conns = {c1, c2}
  MaxConnections = 1
  MaxRequest = 1
  IdleOn = TRUE
SPECIFICATION Spec
INVARIANTS ShutdownCloses
CHECK_DEADLOCK FALSE
