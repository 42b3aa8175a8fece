SPECIFICATION Spec
CONSTANTS
  a1 = a1
  s1 = s1
  Arbiters = {a1}
  Sweeps = {}
  Symbols = {s1}
  Outcomes = {"FILLED", "PLACED", "UNKNOWN", "PARTIAL", "FAILED"}
  Cooldown = 3
  FlatCooldown = 4
  ReserveTTL = 1
  StaleAfter = 2
  HardMax = 2
  MaxOpen = 3
  RiskBudget = 5
  MaxPositions = 3
  ManualDesk = TRUE
  Watchdog = TRUE
  SyncWithin = 1
  SettleWithin = 1
  MaxTime = 7
INVARIANT TypeOK
INVARIANT OneOrderAfterStop
PROPERTY OrderSpacing
PROPERTY SymbolCeiling
