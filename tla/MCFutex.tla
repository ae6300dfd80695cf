------------------------------ MODULE MCFutex -------------------------------
(* Small instances of FutexChain and of UserSync; one of the two moves. *)
EXTENDS FutexChain, UserSync, TLC

CONSTANTS g1, g2, g3, f1, f2, f3, t1, t2, t3

VARIABLE part

MCFcThreads == {g1, g2, g3}
MCFutexes == {f1, f2, f3}
MCFcUses == {[ids |-> {1, 2}, n |-> 1, nomem |-> b] : b \in BOOLEAN}

MCFuTasks == {t1, t2, t3}
MCAddrs == {"lock", "a", "b"}

Basic == [kind |-> "mutex", w |-> 2, init |-> 0, n |-> 1, wants |-> {"lock"},
          hows |-> {"block"}, again |-> FALSE, intr |-> FALSE, nomem |-> FALSE,
          calls |-> {}, posts |-> {}, main |-> t1]

\* All threads block, twice, on every kind of lock.
Blocking ==
  {[Basic EXCEPT !.n = 2],
   [Basic EXCEPT !.kind = "rmutex", !.n = 2],
   [Basic EXCEPT !.kind = "rwlock", !.w = 3, !.wants = {"read", "write"}, !.n = 2],
   [Basic EXCEPT !.kind = "sem", !.init = 1, !.wants = {"ticket"}, !.n = 2],
   [Basic EXCEPT !.kind = "spin", !.hows = {"block", "try"}, !.n = 2],
   [Basic EXCEPT !.kind = "once"]}

\* Timeouts, termination and memory that runs out; a recursive mutex that is locked
\* again; a read count of 1; the objects that do not work.
Adverse ==
  {[Basic EXCEPT !.hows = {"block", "try", "timed"}, !.intr = TRUE, !.nomem = TRUE],
   [Basic EXCEPT !.kind = "rmutex", !.again = TRUE, !.n = 2],
   [Basic EXCEPT !.kind = "rwlock", !.w = 3, !.wants = {"read"}, !.hows = {"try", "timed"}, !.n = 2],
   [Basic EXCEPT !.kind = "rwlock", !.wants = {"read", "write"}, !.hows = {"block", "try"}],
   [Basic EXCEPT !.kind = "sem", !.init = 1, !.wants = {"ticket"},
                 !.hows = {"block", "timed"}, !.intr = TRUE],
   [Basic EXCEPT !.kind = "errorcheck_recursive"],
   [Basic EXCEPT !.kind = "ksem", !.init = 1]}

If(a) == RecvCall(a, "EQUAL", FALSE, 0, "recv")
Both == SetCall({Condition(a, "EQUAL", FALSE, 0) : a \in {"a", "b"}}, "recv")
Calls == [Basic EXCEPT !.kind = "calls"]

\* System calls of all kinds.
Syscalls ==
  {[Calls EXCEPT !.n = 2, !.calls = {If("a"), Both, SetCall({}, "recv")},
                 !.posts = {[a |-> a, val |-> 1] : a \in {"a", "b"}}],
   [Calls EXCEPT !.calls = {Secondary(Both, "CX", "lock", op, neg, 1) :
                              op \in {"ADD", "AND"}, neg \in BOOLEAN}
                             \cup {RecvCall("lock", "LOWER", FALSE, 1, "recv")},
                 !.posts = {[a |-> "a", val |-> 1]}],
   [Calls EXCEPT !.calls = {Secondary(Both, cmd, a2, "ADD", FALSE, 1) :
                              cmd \in {"C0", "C1"}, a2 \in {"lock", "a"}}
                             \cup {RecvCall("lock", "LOWER", FALSE, 1, "recv")},
                 !.intr = TRUE, !.nomem = TRUE],
   [Calls EXCEPT !.calls = {Secondary(If("a"), "CX", "b", "ADD", FALSE, 1), If("b")},
                 !.posts = {[a |-> "a", val |-> 1]}],
   [Calls EXCEPT !.calls = {Secondary(If("a"), cmd, "a", "ADD", FALSE, 1) : cmd \in {"C0", "CX"}}
                             \cup {Secondary(If("a"), cmd, "b", "ADD", FALSE, 1) : cmd \in {"C0", "C1"}}
                             \cup {If("b")},
                 !.intr = TRUE],
   [Calls EXCEPT !.calls = {Secondary(Both, "CX", "lock", "DIV", FALSE, v) : v \in 0 .. 1}]}

\* The futex test.
Test ==
  {[Basic EXCEPT !.kind = "test",
                 !.calls = {Secondary(SetCall({Condition(a, "FALSE", TRUE, 0) : a \in {"a", "b"}},
                                              "vrecv"), "CX", "lock", "ADD", FALSE, 1)}]}

MCFuUses == Blocking \cup Adverse \cup Syscalls \cup Test

Init ==
  /\ part \in {"fc", "us"}
  /\ FcInit /\ (part # "fc" => fcuse = CHOOSE u \in FcUses : TRUE)
  /\ UsInit /\ (part # "us" => fuuse = CHOOSE u \in FuUses : TRUE)

Next ==
  \/ part = "fc" /\ FcNext /\ UNCHANGED <<usvars, part>>
  \/ part = "us" /\ UsNext /\ UNCHANGED <<fcvars, part>>

Spec == Init /\ [][Next]_<<fcvars, usvars, part>> /\ UsFairness
=============================================================================
