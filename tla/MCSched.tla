------------------------------ MODULE MCSched ------------------------------
(* Small instances of Sched for TLC. *)
EXTENDS Sched, TLC

CONSTANTS t1, t2, t3

MCTasks == {t1, t2, t3}
Symm == Permutations(MCTasks)

Use(ops, time, calls) == [ops |-> ops, time |-> time, calls |-> calls]

\* Timed waits and signals; tasks that must not be terminated yet; suspension;
\* suspension of tasks that wait; suspension of critical tasks; alarms; tasks that
\* put others to sleep.
MCUses ==
  {Use({"timedrecv", "sleep", "send", "terminate"}, 2, 2),
   Use({"recv", "send", "crit", "nointr", "kill", "join"}, 0, 3),
   Use({"suspend", "resume", "terminate"}, 0, 2),
   Use({"recv", "send", "join", "terminate", "suspend", "resume"}, 0, 2),
   Use({"recv", "crit", "terminate", "suspend", "resume"}, 0, 2),
   Use({"recv", "timedrecv", "sleep", "send", "alarm"}, 2, 2),
   Use({"recv", "timedrecv", "send", "pauseother"}, 2, 2)}

\* Critical tasks are killed; sleepers are woken by signals and by the timer.
LiveUses ==
  {Use({"crit", "kill"}, 0, 2),
   Use({"timedrecv", "sleep", "send", "terminate"}, 2, 1)}

\* A task that waits is suspended and resumed at once.
RaceUse == {Use({"recv", "suspend", "resume"}, 0, 1)}
============================================================================
