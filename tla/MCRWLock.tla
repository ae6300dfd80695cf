------------------------------ MODULE MCRWLock ------------------------------
(* Small instances of RWLock for TLC. *)
EXTENDS RWLock, TLC

CONSTANTS t1, t2, t3

MCTasks == {t1, t2, t3}
MCSigs == {rw_sig}
Symm == Permutations(MCTasks)

\* Interrupts and no resets; resets and no interrupts.
MCUses ==
  {[calls |-> RWCalls \ {"reset"}, timed |-> BOOLEAN, intr |-> TRUE, n |-> 2],
   [calls |-> RWCalls, timed |-> BOOLEAN, intr |-> FALSE, n |-> 2]}
\* The blocking calls and the releases, without timeouts.
LiveUses ==
  {[calls |-> {"beginread", "beginwrite", "upgrade", "atomic_upgrade", "close", "end"},
    timed |-> {FALSE}, intr |-> FALSE, n |-> 2]}
============================================================================
