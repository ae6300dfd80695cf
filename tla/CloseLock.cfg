SPECIFICATION FairSpec
CONSTANTS
  t1 = t1
  t2 = t2
  t3 = t3
  NULL = NULL
  cl_opsig = cl_opsig
  MaxOps = 2
  Tasks <- MCTasks
  Sigs <- MCSigs
  Uses <- MCUses
CHECK_DEADLOCK FALSE
INVARIANT ClosesSound
INVARIANT CloserServed
PROPERTY CallsReturn
