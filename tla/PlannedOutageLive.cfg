SPECIFICATION Spec
CONSTANTS
  a = a
  b = b
  Crews <- BothCrews
  NoCrew = NoCrew
  j1 = j1
  j2 = j2
  Jobs = {1}
  NoJob = NoJob
  Drafts <- TwoEndsOnly
  Desks <- ForEach
  MaxPermits = 1
INVARIANT
  NobodyOnALiveLine
