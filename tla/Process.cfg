SPECIFICATION Spec
CONSTANTS
  a1 = a1
  a2 = a2
  b1 = b1
  pa = pa
  pb = pb
  f1 = f1
  f2 = f2
  k0 = k0
  k1 = k1
  k2 = k2
  k3 = k3
  q0 = q0
  q1 = q1
  q2 = q2
  NoFile = NoFile
  fdm_max = 3
  RefMax = 4
  FirstProc = pa
  FdThreads <- MCThreads
  FdProcs <- MCProcs
  ProcOf <- MCProcOf
  Files <- MCFiles
  FdUses <- MCFdUses
  Root = k0
  RootProc = q0
  NoTk = NoTk
  TkTasks <- MCTkTasks
  TkProcs <- MCTkProcs
  TkUses <- MCTkUses
SYMMETRY Symm
CHECK_DEADLOCK FALSE
INVARIANT FdSound
PROPERTY FdImplementsTable
INVARIANT TreeRefs
 
