CONSTANTS
  a = a  b = b
  s1 = s1  s2 = s2
  w1 = w1  w2 = w2
  c1 = c1  c2 = c2
  h1 = h1  h2 = h2  h3 = h3  h4 = h4
  StripeOf <- MCStripeOf
  Keys = {a, b}
  Stripes = {s1}
  Writers = {w1, w2}
  Stoppers = {c1}
  Hints = {h1, h2}
  Step = 2
  MaxHintsPerTick = 1
  TTLs = {0, 1}
  LastWrite = 2
  Horizon = 6
SPECIFICATION FairSpec
INVARIANTS HintCoverage
PROPERTIES NeverEarly StripesAreStores ExpiredReclaimed
CHECK_DEADLOCK FALSE
