------------------------------ MODULE MCSignal ------------------------------
(* Small instances of Signal for TLC. *)
EXTENDS Signal, TLC

CONSTANTS t1, t2, t3, s1, s2

MCTasks == {t1, t2, t3}
MCSigs == {s1, s2}
Symm == Permutations(MCTasks) \cup Permutations(MCSigs)

Everything == {"recv", "send", "close", "reset"}
\* Interrupts; timeouts.
MCUses == {[calls |-> Everything, timed |-> {FALSE}, intr |-> TRUE, n |-> 2],
           [calls |-> Everything, timed |-> BOOLEAN, intr |-> FALSE, n |-> 2]}
TimedUse == {[calls |-> {"recv", "send"}, timed |-> BOOLEAN, intr |-> FALSE, n |-> 2]}
=============================================================================
