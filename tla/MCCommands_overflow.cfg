CONSTANTS
  val = val  reader = reader  writer = writer  e1 = e1  e2 = e2  e3 = e3  e4 = e4
  Keys <- OneKey
  Values = {val}
  Sessions = {reader, writer}
  Shards = 2
  ShardOf <- MCShardOf
  Lazy = TRUE
  Uses <- ReadAndWrite
  Patterns <- TwoPatterns
  Amounts <- BigAmounts
  Ids = {e1, e2, e3, e4}
  MaxNow = 3
  MaxInt = 3
SPECIFICATION CommandsSpec
SYMMETRY Symmetry
INVARIANTS NotInstantly
