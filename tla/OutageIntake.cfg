CONSTANTS
  Works <- Storm
  Desks <- OneDesk
  NoWork = NoWork
  NoFeeder = NoFeeder
  NoSubstation = NoSubstation
  MaxIncidents = 3
  MayAge = {1}
  MaxFaults = 1
  d1 = d1
  S = S
  f1 = f1
SPECIFICATION FairSpec
INVARIANTS
  TypeOK
  OneIncidentPerFault
  EmptiedIsRestored
PROPERTIES
  OpensOnce
  EveryWorkServed
CHECK_DEADLOCK FALSE
