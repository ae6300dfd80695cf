SPECIFICATION Spec
CONSTANTS
  g1 = g1
  g2 = g2
  g3 = g3
  f1 = f1
  f2 = f2
  f3 = f3
  t1 = t1
  t2 = t2
  t3 = t3
  sp_futex = sp_futex
  RCntMax = 2
  FcThreads <- MCFcThreads
  Futexes <- MCFutexes
  FcIds = {1, 2}
  FcUses <- MCFcUses
  Lock = "lock"
  NoOwner = NoOwner
  FuTasks <- MCFuTasks
  Addrs <- MCAddrs
  FuUses <- MCFuUses
CHECK_DEADLOCK FALSE
INVARIANT FcSound
 
INVARIANT UsSound
INVARIANT NoLostWake
 
PROPERTY CallsEnd
