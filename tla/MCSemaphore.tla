---------------------------- MODULE MCSemaphore ----------------------------
(* Small instances of Semaphore for TLC. *)
EXTENDS Semaphore, TLC

CONSTANTS t1, t2, t3

MCTasks == {t1, t2, t3}
MCSigs == {s_sig}
Symm == Permutations(MCTasks)

\* Timeouts, interrupts and posts up to the limit; longer runs without them.
MCUses ==
  {[calls |-> SemCalls, posts |-> {0, 1, 3}, timed |-> BOOLEAN, intr |-> TRUE, n |-> 2],
   [calls |-> SemCalls, posts |-> {1, 2}, timed |-> {FALSE}, intr |-> FALSE, n |-> 3]}
============================================================================
