SPECIFICATION Spec
CONSTANTS
  m1 = m1
  NoTicket = NoTicket
  Tickets = {m1}
  Manual = {m1}
  Lots = 2
  Top = 2
  MinDist = 1
  MaxEvents = 2
INVARIANTS TypeOK OffIsRespected PartialsBounded
PROPERTIES RunnerRemains StopHolds
