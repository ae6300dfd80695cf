SPECIFICATION MxSpec
CONSTANTS
  t1 = t1
  t2 = t2
  t3 = t3
  NULL = NULL
  m_sig = m_sig
  Tasks <- MCTasks
  Sigs <- MCSigs
  Uses <- MCUses
SYMMETRY Symm
CHECK_DEADLOCK FALSE
INVARIANT Exclusion
INVARIANT ClosedMutexEmpties
