SPECIFICATION FairSpec
CONSTANTS
  e1 = e1
  e2 = e2
  NoTask = NoTask
  Opportunities <- MCOpportunities
  ExecIds <- MCExecIds
  U64 = 64
  TxCost = 1
  MinTip = 2
  TipFraction = 7
  TipScale = 10
  MaxAge = 1
  OpportunityCap = 1
  ScannerMaxConcurrency = 4
  MobileMaxExec = 2
  SkipSimulation = FALSE
  RpcLag = 1
  Timeout <- MCTimeout
  MaxSlot = 5
  MaxSent = 3
INVARIANTS
  TypeOK
  ExecPermitsConserved
  BundlesWorthIt
  OpportunitiesSpentOnce
PROPERTIES
  SubmittedInTime
  ShutdownCompletes
