\* Two nodes, one key.
SPECIFICATION Spec
CONSTANTS
  Node = {1, 2}
  Key = {k}
  Value = {0}
  Hash <- MCHash
  ClockSkew = 0
  MaxTime = 1
  MaxLamport = 4
  MaxSkips = 4
  MaxWrites = 3
  NoReceipt = NoReceipt
INVARIANTS
  TypeOK
  AuthorizedIsBacked
PROPERTIES
  PromotionIsJustified
  ImplementsConvergentMap
