SPECIFICATION Spec
CONSTANTS
  api = api
  chk = chk
  g1 = g1
  rec = rec
  s1 = s1
  Recorders = {rec}
  Checkers = {chk}
  Operators = {api}
  Symbols = {s1}
  Regimes = {g1}
  LossLimit = 3
  VelocityThreshold = 2
  LossWindow = 1
  LossMemory = 2
  SymbolLossLimit = 9
  RegimeLossLimit = 9
  SymbolPause = 1
  RegimePause = 1
  ShortCooldown = 1
  MidCooldown = 1
  LongCooldown = 1
  MidStreak = 5
  LongStreak = 7
  MaxTime = 2
  MaxLosses = 3
  MaxRestarts = 0
PROPERTIES
  OnlyResumeClearsHalt
