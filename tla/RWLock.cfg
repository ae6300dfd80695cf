SPECIFICATION Spec
CONSTANTS
  t1 = t1
  t2 = t2
  t3 = t3
  NULL = NULL
  rw_sig = rw_sig
  Tasks <- MCTasks
  Sigs <- MCSigs
  Uses <- MCUses
SYMMETRY Symm
CHECK_DEADLOCK FALSE
INVARIANT LockSound
INVARIANT LockPassedOn
