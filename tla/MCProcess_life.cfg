SPECIFICATION Spec
CONSTANTS
  Kilo = 4
  Word = 256
  MaxInt = 127
  Ceiling = 32
  Framing = 2
  Margin = 4
  BulkMargin = 2
  MinRequest = 21
  DefaultRequest = 24
  MinOutput = 8
  Million = 9
  Second = 3
  TenMs = 2
  MaxElements = 8
  Malformed = Malformed
  NoToken = NoToken
  Unloaded = Unloaded
  Candidates <- MCCandidates
CHECK_DEADLOCK FALSE
INVARIANTS NothingLeft ProbesHonest AcceptedIsHonoured
