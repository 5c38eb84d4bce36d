CONSTANTS
  a = a  b = b
  s1 = s1  s2 = s2
  w1 = w1  w2 = w2
  c1 = c1  c2 = c2
  h1 = h1  h2 = h2  h3 = h3  h4 = h4
  StripeOf <- MCStripeOf
  Keys = {a}
  Stripes = {s1}
  Writers = {w1}
  Stoppers = {c1}
  Hints = {h1}
  Step = 2
  MaxHintsPerTick = 0
  TTLs = {1}
  LastWrite = 1
  Horizon = 4
SPECIFICATION Spec
INVARIANTS StopWaits
CHECK_DEADLOCK FALSE
