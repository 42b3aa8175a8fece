SPECIFICATION FairSpec
CONSTANTS
  w1 = w1
  w2 = w2
  s1 = s1
  Arbiters = {}
  Sweeps = {w1, w2}
  Symbols = {s1}
  Outcomes = {"UNKNOWN", "FAILED"}
  Cooldown = 0
  FlatCooldown = 1
  ReserveTTL = 0
  StaleAfter = 0
  HardMax = 1
  MaxOpen = 1
  RiskBudget = 2
  MaxPositions = 1
  ManualDesk = FALSE
  Watchdog = TRUE
  SyncWithin = 1
  SettleWithin = 1
  MaxTime = 1
INVARIANT SweepMutex
PROPERTY ClaimReleased
