SPECIFICATION Spec
CONSTANTS
  a = a
  b = b
  c = c
  Tokens <- MCTokens
  Slots <- MCSlots
  U64 = 64
  TxCost = 1
  MinTip = 1
  TipFraction = 1
  TipScale = 10
  RecentCap = 2
  DedupSlots = 2
  MaxAge = 1
  MaxAdmitted = 5
CONSTRAINT Bounded
INVARIANTS
  DedupSpacing
  DriftBounded
