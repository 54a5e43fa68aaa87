SPECIFICATION Spec
CONSTANTS
  l1 = l1
  l2 = l2
  Events <- OneBreaker
  Loops <- TwoLoops
  ComplaintLane = {}
  Tokens <- Claims
  NoTag = NoTag
  NoFeeder = NoFeeder
  NoLoop = NoLoop
  NoToken = NoToken
  MaxAttempts = 2
  BatchMax = 2
  GroupMax = 2
  ClaimScan = 2
  MaxId = 3
  MaxFaults = 0
CHECK_DEADLOCK FALSE
INVARIANTS
  OneInFlightPerTag
