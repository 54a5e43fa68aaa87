SPECIFICATION FairSpec
CONSTANTS
  Processes = {"p1", "p2"}
  Jobs = {"reactions", "timers"}
  Nobody = "nobody"
  MaxTroubles = 2
  Restoration = "reactions"
  Notifier = "reactions"
  Scheduler = "timers"
  Escalations = "timers"
  Handlers = {1, 2}
  MaxEvents = 2
  Levels = 2
  MaxRounds = 2
  Parts = {"restoration", "notice", "escalation"}
INVARIANTS
  TypeOK
  CommandedOnce
  NoticeOnce
  EscalatedOnce
PROPERTIES
  KeepsOwnership
  RunsInOne
  DueIsDone
CHECK_DEADLOCK FALSE
