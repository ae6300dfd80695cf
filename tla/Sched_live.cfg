SPECIFICATION FairSpec
CONSTANTS
  t1 = t1
  t2 = t2
  t3 = t3
  NULL = NULL
  Sig = Sig
  Tasks <- MCTasks
  Uses <- LiveUses
CHECK_DEADLOCK FALSE
PROPERTY SchedulerProgress
