CONSTANTS
  Works <- BothReclose
  Desks <- NoDesk
  NoWork = NoWork
  NoFeeder = NoFeeder
  NoSubstation = NoSubstation
  MaxIncidents = 3
  MayAge = {}
  MaxFaults = 1
  d1 = d1
  S = S
  f1 = f1
SPECIFICATION Spec
INVARIANTS
  RecloseIsIdempotent
CHECK_DEADLOCK FALSE
