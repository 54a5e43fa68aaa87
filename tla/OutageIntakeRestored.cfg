CONSTANTS
  Works <- SecondTrip
  Desks <- NoDesk
  NoWork = NoWork
  NoFeeder = NoFeeder
  NoSubstation = NoSubstation
  MaxIncidents = 3
  MayAge = {}
  MaxFaults = 0
  d1 = d1
  S = S
  f1 = f1
SPECIFICATION Spec
INVARIANTS
  RestoredWhenAllClosed
CHECK_DEADLOCK FALSE
