------------------------------ MODULE PagePool ------------------------------
(***************************************************************************)
(* What the physical page allocator promises its callers: a pool of page   *)
(* frames from which runs of consecutive frames are taken and to which     *)
(* they are given back.  A frame is free or belongs to one block; a        *)
(* request is refused only when no run of that length is free.  PageFrame  *)
(* shows that the sorted free list of src/kernel/pageframe.c implements    *)
(* this.                                                                   *)
(***************************************************************************)
EXTENDS Integers

CONSTANTS PageCount,  \* the frames are 0 .. PageCount - 1
          MaxRun      \* the longest run a caller asks for

VARIABLES free,   \* the free frames
          owned,  \* the blocks [start, n] that callers own
          refused \* the length of the request refused last, 0 for none

Run(b) == b.start .. (b.start + b.n - 1)

Blocks == [start : 0 .. PageCount - 1, n : 1 .. PageCount]

PoolInit == free = {} /\ owned \subseteq Blocks /\ refused = 0

\* Any run of the right length may be handed out.
Grant(b) ==
  /\ Run(b) \subseteq free
  /\ free' = free \ Run(b)
  /\ owned' = owned \cup {b}
  /\ refused' = 0

\* A request is refused only when no run of its length is free.
Refuse(n) ==
  /\ \A b \in Blocks : b.n = n => ~(Run(b) \subseteq free)
  /\ refused' = n
  /\ UNCHANGED <<free, owned>>

GiveBack(b) ==
  /\ b \in owned
  /\ owned' = owned \ {b}
  /\ free' = free \cup Run(b)
  /\ refused' = 0

PoolNext ==
  \/ \E b \in Blocks : Grant(b) \/ GiveBack(b)
  \/ \E n \in 1 .. MaxRun : Refuse(n)

PoolSpec == PoolInit /\ [][PoolNext]_<<free, owned, refused>>
=============================================================================
