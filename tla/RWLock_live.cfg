SPECIFICATION FairSpec
CONSTANTS
  t1 = t1
  t2 = t2
  t3 = t3
  NULL = NULL
  rw_sig = rw_sig
  Tasks <- MCTasks
  Sigs <- MCSigs
  Uses <- LiveUses
CHECK_DEADLOCK FALSE
PROPERTY CallsReturn
