SPECIFICATION Spec
CONSTANTS
  Switchers = {t1, t2}
  Dispatchers = {d1}
  Confirmed = TRUE
  Account = "real"
  Slots = {e1, e2}
SYMMETRY Symmetry
CONSTRAINT NotCrossed
INVARIANTS
  TypeOK
  StopStands
PROPERTIES
  NothingCrossesModes
