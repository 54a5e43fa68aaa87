SPECIFICATION Spec
CONSTANTS
  l1 = l1
  l2 = l2
  Events <- OneFeeder
  Loops <- TwoLoops
  ComplaintLane = {}
  Tokens <- Claims
  NoTag = NoTag
  NoFeeder = NoFeeder
  NoLoop = NoLoop
  NoToken = NoToken
  MaxAttempts = 2
  BatchMax = 2
  GroupMax = 2
  ClaimScan = 2
  MaxId = 3
  MaxFaults = 1
SYMMETRY Interchangeable
CHECK_DEADLOCK FALSE
INVARIANTS
  ExactlyOnce
  NothingLost
  HeldBackByTag
  PublishedAfterCommit
PROPERTIES
  OnlyTheHolderSettles
  KeepsPromise
