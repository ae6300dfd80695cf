SPECIFICATION Spec
CONSTANTS
  t1 = t1
  t2 = t2
  t3 = t3
  NULL = NULL
  s_sig = s_sig
  Width = 4
  Tasks <- MCTasks
  Sigs <- MCSigs
  Uses <- MCUses
SYMMETRY Symm
CHECK_DEADLOCK FALSE
INVARIANT TicketsConserved
INVARIANT TicketsReachWaiters
