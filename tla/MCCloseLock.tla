---------------------------- MODULE MCCloseLock ----------------------------
(* Small instances of CloseLock for TLC. *)
EXTENDS CloseLock, TLC

CONSTANTS t1, t2, t3

MCTasks == {t1, t2, t3}
MCSigs == {cl_opsig}
Symm == Permutations(MCTasks)

\* Closes that look again, resets by the owner; every call, and interrupts; closes
\* that do not time out.
MCUses ==
  {[calls |-> {"beginop", "tryclose", "timedclose", "reset"}, intr |-> FALSE, n |-> 3],
   [calls |-> CLCalls, intr |-> TRUE, n |-> 2],
   [calls |-> {"beginop", "close", "tryclose", "reset"}, intr |-> FALSE, n |-> 3]}
CloseUse == {[calls |-> {"beginop", "close"}, intr |-> FALSE, n |-> 2]}
============================================================================
