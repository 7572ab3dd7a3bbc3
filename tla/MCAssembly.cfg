SPECIFICATION Spec
CONSTANTS
  U64 = 64
  TxCost = 3
  MinTip = 2
  TipFraction = 7
  TipScale = 10
  NoAnswer = NoAnswer
  Answers <- MCAnswers
INVARIANTS
  EstimateIsExact
  TradePays
  PatchedIndexIsEnd
  TradeInsideLoan
