\* Three nodes, one of which may join between the rounds; a write is in the
\* window until the clock ticks.
SPECIFICATION HarnessSpec
CONSTANTS
  Node = {1, 2, 3}
  Key = {k}
  Value = {0, 1}
  Hash <- MCHash
  ClockSkew = 0
  MaxTime = 1
  MaxLamport = 4
  MaxSkips = 0
  MaxWrites = 2
  MaxRounds = 2
  NoReceipt = NoReceipt
PROPERTIES
  RoundConverges
  RoundAuthorizes
