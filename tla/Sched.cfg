SPECIFICATION Spec
CONSTANTS
  t1 = t1
  t2 = t2
  t3 = t3
  NULL = NULL
  Sig = Sig
  Tasks <- MCTasks
  Uses <- MCUses
SYMMETRY Symm
CHECK_DEADLOCK FALSE
INVARIANT ListsAgree
INVARIANT RefsSound
PROPERTY TerminationSound
INVARIANT JoinsSound
INVARIANT StillNotified
