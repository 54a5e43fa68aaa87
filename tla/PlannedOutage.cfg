SPECIFICATION Spec
CONSTANTS
  a = a
  b = b
  Crews <- BothCrews
  NoCrew = NoCrew
  j1 = j1
  j2 = j2
  Jobs <- SomeJobs
  NoJob = NoJob
  Drafts <- OneDraft
  Desks <- ForEach
  MaxPermits = 2
SYMMETRY JobSymmetry
INVARIANTS
  TypeOK
  PermitKeepsLineDead
  SwitchedInOrder
  StatusTellsThePlan
PROPERTY
  KeepsSwitching
