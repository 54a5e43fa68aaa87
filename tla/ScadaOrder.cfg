SPECIFICATION Spec
CONSTANTS
  Events <- OneBreaker
  NoEvent = NoEvent
  NoKey = NoKey
  Requests = {1, 2}
  Processes = {"p1"}
  NoProcess = "none"
  BatchMax = 2
  Submissions = {1}
  ExternalIds = {"x"}
  NoExternalId = NoExternalId
  Channels = {"p1"}
  NoChannel = "none"
  Workers = {"w1", "w2"}
  MaxAttempts = 2
  Parts = {"scada"}
  Budget = 2
INVARIANTS
  ArrivalOrder
CHECK_DEADLOCK FALSE
