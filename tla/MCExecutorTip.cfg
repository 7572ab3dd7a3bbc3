SPECIFICATION Spec
CONSTANTS
  e1 = e1
  e2 = e2
  NoTask = NoTask
  Opportunities <- MCTiny
  ExecIds <- MCExecIds
  U64 = 64
  TxCost = 1
  MinTip = 2
  TipFraction = 7
  TipScale = 10
  MaxAge = 1
  OpportunityCap = 1
  ScannerMaxConcurrency = 4
  MobileMaxExec = 2
  SkipSimulation = TRUE
  RpcLag = 1
  Timeout <- MCTimeout
  MaxSlot = 3
  MaxSent = 1
PROPERTIES
  TinyProfitsTipped
