SPECIFICATION FairSpec
CONSTANTS
  dex = dex
  token = token
  v1 = v1
  v2 = v2
  x1 = x1
  Wsol = Wsol
  SystemProgram = SystemProgram
  Unreadable = Unreadable
  NoTask = NoTask
  Keys <- MCKeys
  DexPrograms <- MCDexPrograms
  Transactions <- MCTransactions
  AccountUpdates <- MCAccountUpdates
  InitialBackoff = 1
  MaxBackoff = 1
  MaxUpdates = 2
  Slots <- MCSlots
  MaxAge = 1
  RecentCap = 2
  DedupSlots = 2
  MigrationCap = 1
  OpportunityCap = 1
  ScannerMaxConcurrency = 2
  MobileMaxConcurrency = 2
  TaskIds <- MCTaskIds
  MaxLoan = 1
  MinProfit = 4
  SellOutputs <- MCSellOutputs
  MobileMaxExec = 1
  ExecIds <- MCExecIds
  SkipSimulation = TRUE
  RpcLag = 0
  Timeout <- MCTimeout
  MaxSlot = 2
  U64 = 64
  TxCost = 1
  MinTip = 2
  TipFraction = 7
  TipScale = 10
INVARIANTS
  NeverAborts
  BundlesSpaced
  NobodyQuitsAlone
PROPERTIES
  ComponentsFit
  KeepsPromise
  PipelineStops
