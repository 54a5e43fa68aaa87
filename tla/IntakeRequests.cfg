SPECIFICATION FairSpec
CONSTANTS
  Events <- OneBreaker
  NoEvent = NoEvent
  NoKey = NoKey
  Requests = {1, 2, 3, 4}
  Processes = {"p1"}
  NoProcess = "none"
  BatchMax = 2
  Submissions = {1, 2}
  ExternalIds = {"x"}
  NoExternalId = NoExternalId
  Channels = {"p1"}
  NoChannel = "none"
  Workers = {"w1", "w2"}
  MaxAttempts = 2
  Parts = {"scada", "complaints"}
  Budget = 5
INVARIANTS
  TypeOK
  EventStoredOnce
  AnswersHold
  OrderKept
  OneCallPerExternalId
  RepliesHold
PROPERTIES
  EverybodyIsAnswered
CHECK_DEADLOCK FALSE
