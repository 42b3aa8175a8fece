SPECIFICATION FairSpec
CONSTANTS
  acct = acct
  scan = scan
  g1 = g1
  s1 = s1
  Recorders = {acct}
  Operators = {acct}
  Checkers = {scan}
  Symbols = {s1}
  Regimes = {g1}
  LossLimit = 2
  VelocityThreshold = 2
  LossWindow = 1
  LossMemory = 2
  SymbolLossLimit = 3
  RegimeLossLimit = 9
  SymbolPause = 1
  RegimePause = 1
  ShortCooldown = 1
  MidCooldown = 2
  LongCooldown = 2
  MidStreak = 3
  LongStreak = 9
  MaxTime = 2
  MaxLosses = 3
  MaxRestarts = 1
INVARIANTS
  TypeOK
  StreakHalts
  VelocityHalts
  RowCurrent
  KillSwitchHolds
PROPERTIES
  CooldownServed
  CoolingTripExpires
