SPECIFICATION FairSpec
CONSTANTS
  Jobs = {1, 2}
  Crews = {"a", "b"}
  NoCrew = "nobody"
  Slots = {1, 2, 3}
  Desks = {1, 2}
  Made <- Ladder
  Phones = {1}
  Taps <- Theirs
  FormOf <- FormFor
  FirstJob = 1
  FirstCrew = "a"
  Marks = {"On Site", "Work Started"}
  Budget = 2
  MaxFaults = 2
INVARIANTS
  TypeOK
  FinishedIsPending
  OneActiveJob
  FormNotLost
PROPERTIES
  KeepsLedger
  NeverBack
  LandsOnce
  EveryUpdateAnswered
CHECK_DEADLOCK FALSE
