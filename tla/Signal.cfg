SPECIFICATION SgSpec
CONSTANTS
  t1 = t1
  t2 = t2
  t3 = t3
  NULL = NULL
  s1 = s1
  s2 = s2
  MaxN = 2
  Tasks <- MCTasks
  Sigs <- MCSigs
  Uses <- MCUses
SYMMETRY Symm
CHECK_DEADLOCK FALSE
INVARIANT QueuesSound
INVARIANT DeadDrained
