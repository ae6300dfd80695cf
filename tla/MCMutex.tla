------------------------------ MODULE MCMutex ------------------------------
(* Small instances of Mutex for TLC. *)
EXTENDS Mutex, TLC

CONSTANTS t1, t2, t3

MCTasks == {t1, t2, t3}
MCSigs == {m_sig}
Symm == Permutations(MCTasks)

\* Interrupts and no closes; every call.
MCUses == {[calls |-> {"lock", "trylock", "timedlock"}, intr |-> TRUE, n |-> 2],
           [calls |-> MutexCalls, intr |-> FALSE, n |-> 2]}
LockUse == {[calls |-> {"lock"}, intr |-> FALSE, n |-> 2]}
============================================================================
