SPECIFICATION FairSpec
CONSTANTS
  a = a
  b = b
  t1 = t1
  t2 = t2
  t3 = t3
  NoTask = NoTask
  Tokens <- MCLiveTokens
  Slots <- MCLiveSlots
  TaskIds <- MCLiveTaskIds
  SellOutputs <- MCSellOutputs
  U64 = 64
  TxCost = 1
  MinTip = 1
  TipFraction = 1
  TipScale = 10
  MaxAge = 1
  RecentCap = 2
  DedupSlots = 2
  MigrationCap = 1
  OpportunityCap = 1
  ScannerMaxConcurrency = 2
  MobileMaxConcurrency = 4
  MaxLoan = 2
  MinProfit = 2
  MaxEvents = 3
PROPERTIES
  ShutdownCompletes
  EvaluationEnds
