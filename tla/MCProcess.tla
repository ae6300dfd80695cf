----------------------------- MODULE MCProcess ------------------------------
(* Small instances of FdMan and of TaskTree; one of the two moves. *)
EXTENDS FdMan, TaskTree, TLC

CONSTANTS a1, a2, b1, pa, pb, f1, f2, k0, k1, k2, k3, q0, q1, q2

VARIABLE part

MCThreads == {a1, a2, b1}
MCProcs == {pa, pb}
MCProcOf == (a1 :> pa) @@ (a2 :> pa) @@ (b1 :> pb)
MCFiles == {f1, f2}

\* Files opened at chosen descriptors, with memory running out; duplicates;
\* special descriptors and closing a range.
MCFdUses ==
  {[calls |-> {"open", "openat", "openh", "use", "close", "fork", "exit", "nomem"}, n |-> 4],
   [calls |-> {"open", "dup", "dup2", "duph", "close", "fork"}, n |-> 4],
   [calls |-> {"open", "openat", "close", "closespecial", "closeall"}, n |-> 4]}

MCTkTasks == {k0, k1, k2, k3}
MCTkProcs == {q0, q1, q2}
TkBase == {"exit", "kill", "getthread", "getproc", "drop"}

\* Processes that fork; threads; threads that cannot be created; all calls.
MCTkUses ==
  {[calls |-> TkBase \cup {"fork"}, n |-> 5],
   [calls |-> TkBase \cup {"thread"}, n |-> 4],
   [calls |-> {"thread", "nomem", "getthread", "drop"}, n |-> 4],
   [calls |-> TkCalls, n |-> 4]}

Symm == Permutations({k1, k2, k3}) \cup Permutations({q1, q2})

Init ==
  /\ part \in {"fd", "tk"}
  /\ FdInit /\ (part # "fd" => fduse = CHOOSE u \in FdUses : TRUE)
  /\ TkInit /\ (part # "tk" => tkuse = CHOOSE u \in TkUses : TRUE)

Next ==
  \/ part = "fd" /\ FdNext /\ UNCHANGED <<tkvars, part>>
  \/ part = "tk" /\ TkNext /\ UNCHANGED <<fdvars, part>>

Spec == Init /\ [][Next]_<<fdvars, tkvars, part>>
=============================================================================
