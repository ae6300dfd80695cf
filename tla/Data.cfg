SPECIFICATION Spec
CONSTANTS
  p1 = p1
  p2 = p2
  r1 = r1
  r2 = r2
  w1 = w1
  b1 = b1
  b2 = b2
  c1 = c1
  c2 = c2
  a1 = a1
  a2 = a2
  a3 = a3
  NoThread = NoThread
  PageCount = 7
  MaxRun = 3
  CountMod = 8
  PfThreads <- MCPfThreads
  PfUses <- MCPfUses
  AddrEnd = 32
  PAGESIZE = 4
  kernel_begin = 8
  KernelEnds = {12, 14}
  NoIb = NoIb
  IbMax = 3
  MaxBytes = 5
  IbTasks <- MCIbTasks
  IbUses <- MCIbUses
  DdTasks <- MCDdTasks
  DdUses <- MCDdUses
  NoTicket = NoTicket
  AdTasks <- MCAdTasks
  AdUses <- MCAdUses
SYMMETRY Symm
CHECK_DEADLOCK FALSE
INVARIANT PfSound
PROPERTY PfImplementsPool
INVARIANT RamSound
INVARIANT IbSound
PROPERTY IbImplementsQueue
 
INVARIANT AdSound
