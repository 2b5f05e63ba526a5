SPECIFICATION Spec
CONSTANTS
  t1 = t1
  t2 = t2
  None = None
  Threads <- MCThreads
  Uses = {"connects", "orderly"}
  MaxFd <- MCMaxFd
  MaxCalls = 3
INVARIANTS TypeOK GlobalsLive FailureLeavesNothing SessionIntact
PROPERTY ForeignKept
SYMMETRY MCSymmetry
CHECK_DEADLOCK FALSE
