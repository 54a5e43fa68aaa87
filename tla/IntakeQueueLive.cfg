SPECIFICATION FairSpec
CONSTANTS
  l1 = l1
  l2 = l2
  Events <- Mixed
  Loops <- TwoLoops
  ComplaintLane <- SecondLoop
  Tokens <- Claims
  NoTag = NoTag
  NoFeeder = NoFeeder
  NoLoop = NoLoop
  NoToken = NoToken
  MaxAttempts = 2
  BatchMax = 2
  GroupMax = 2
  ClaimScan = 2
  MaxId = 3
  MaxFaults = 1
CHECK_DEADLOCK FALSE
INVARIANTS
  TypeOK
PROPERTIES
  EverythingSettles
