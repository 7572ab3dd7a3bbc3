SPECIFICATION Spec
CONSTANTS
  dex = dex
  other = other
  pool = pool
  token = token
  Wsol = Wsol
  SystemProgram = SystemProgram
  Unreadable = Unreadable
  Keys <- MCKeys
  DexPrograms <- MCDexPrograms
  Transactions <- MCTransactions
  AccountUpdates <- MCAccountUpdates
  MigrationCap = 2
  InitialBackoff = 5
  MaxBackoff = 60
  MaxUpdates = 1
INVARIANTS
  BackoffResets
