SPECIFICATION Spec
CONSTANTS
  c1 = c1
  c2 = c2
  Callers = {c1, c2}
  Equities = {190, 200, 210}
  MaxDailyLoss = 50
  RecoveryMax = 60
  MaxDrawdown = 90
  MaxAttempts = 1
  LastDay = 2
  MaxCalls = 3
  MaxRestarts = 1
SYMMETRY Symmetry
CONSTRAINT NotRaced
INVARIANTS
  TypeOK
  BaselinesKept
  RecoveryRationed
PROPERTIES
  SentWithinLimits
CHECK_DEADLOCK FALSE
