SPECIFICATION Spec
CONSTANTS
  t1 = t1
  t2 = t2
  NoTicket = NoTicket
  Tickets = {t1, t2}
  Commission = TRUE
  MaxRestarts = 1
  MaxBadReads = 1
  MaxFaults = 1
INVARIANTS
  TypeOK
  RowsAreTrades
  OutcomeRecoverable
  CountedOnce
PROPERTIES
  RowsOnlyAdvance
  BootSettlesJournal
  ImplementsLedger
