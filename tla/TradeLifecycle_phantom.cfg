SPECIFICATION Spec
CONSTANTS
  t1 = t1
  NoTicket = NoTicket
  Tickets = {t1}
  Commission = TRUE
  MaxRestarts = 0
  MaxBadReads = 1
  MaxFaults = 0
PROPERTIES
  NoUnobservedLoss
