------------------------------- MODULE Sched -------------------------------
(***************************************************************************)
(* The task scheduler of one CPU: the state machine of struct ktask        *)
(* (include/kos/kernel/task.h, src/kernel/sched/task.c,                    *)
(* src/kernel/sched/task-timetick.c.inl) and the operations that drive it  *)
(* (src/kernel/sched/task-util.c.inl).                                     *)
(*                                                                         *)
(* kcpu_self() and kcpu_leastload() always give the one CPU, and every     *)
(* scheduler function runs with interrupts off, so a call is one step of   *)
(* the task that runs; the timer interrupt may come between two calls and  *)
(* between the parts of a call that are not under NOIRQ.                   *)
(*                                                                         *)
(* The scheduler's data is one record k, and each kernel function is an    *)
(* operator from a record to the record it leaves behind.                  *)
(***************************************************************************)
EXTENDS Integers, Sequences, FiniteSets, SequencesExt

CONSTANTS
  Tasks,     \* the tasks
  Sig,       \* a signal tasks wait for
  NULL,      \* no signal, no task, no time
  Uses       \* the ways the scheduler is used, a set of records

AllOps == {"recv", "timedrecv", "sleep", "send", "suspend", "resume", "terminate",
           "kill", "join", "crit", "nointr", "alarm", "pauseother"}

\* A use: the operations tasks start, the time at which the clock stops (a bound),
\* and how many operations each task starts (a bound).
ASSUME SchedAssumption ==
  /\ IsFiniteSet(Tasks)
  /\ Sig \notin Tasks
  /\ NULL \notin Tasks \cup {Sig}
  /\ Uses \subseteq [ops : SUBSET AllOps, time : Nat, calls : Nat]

VARIABLES
  k,       \* the scheduler
  susp,    \* t_suspended
  pc,      \* where each task is
  arg,     \* the task or signal u its call is about, the state ns it blocked in
  budget,  \* how many more operations each task starts
  use      \* how the scheduler is used: chosen at the start and kept

vars == <<k, susp, pc, arg, budget, use>>

TaskStates == {"RUNNING", "SUSPENDED", "TERMINATED", "WAITING", "WAITINGTMO"}

IsWaiting(s) == s \in {"WAITING", "WAITINGTMO"}
HasCpu(s) == s \in {"RUNNING", "WAITINGTMO"}

\* What tasks can wait for: Sig, and for each task u its t_joinsig, named u.
Sources == Tasks \cup {Sig}

Kernels ==
  [state    : [Tasks -> TaskStates],      \* t_state
   new      : [Tasks -> TaskStates],      \* t_newstate
   crit     : SUBSET Tasks,               \* KTASK_FLAG_CRITICAL
   nointr   : SUBSET Tasks,               \* KTASK_FLAG_NOINTR
   wasintr  : SUBSET Tasks,               \* KTASK_FLAG_WASINTR
   timedout : SUBSET Tasks,               \* KTASK_FLAG_TIMEDOUT
   alarmed  : SUBSET Tasks,               \* KTASK_FLAG_ALARMED
   cpu      : SUBSET Tasks,               \* t_cpu # NULL
   ring     : Seq(Tasks),                 \* c_current and the tasks after it
   sleepers : Seq(Tasks),                 \* c_sleeping
   abstime  : [Tasks -> Nat],             \* t_abstime
   refs     : [Tasks -> Int],             \* t_refcnt, see RefsCounted
   waiters  : [Sources -> Seq(Tasks)],    \* the signals' queues of slots
   now      : Nat,                        \* ktime_getnow
   locked   : BOOLEAN,                    \* a call returned without unlocking a lock
   panic    : BOOLEAN]                    \* an assertion of the code failed

Places == {"run", "asleep", "joining", "joined", "suspend", "resume"}

\* The type invariant.
TypeOK ==
  /\ k \in Kernels
  /\ susp \in [Tasks -> Int]
  /\ pc \in [Tasks -> Places]
  /\ arg \in [Tasks -> [u : Sources \cup {NULL}, ns : TaskStates]]
  /\ budget \in [Tasks -> Nat]
  /\ use \in Uses

\* Some tasks run, the others were created suspended.  Each has one reference of
\* its creator and, if it runs, one of the CPU.
Booted(run) ==
  [state    |-> [t \in Tasks |-> IF t \in Range(run) THEN "RUNNING" ELSE "SUSPENDED"],
   new      |-> [t \in Tasks |-> "RUNNING"],
   crit     |-> {}, nointr |-> {}, wasintr |-> {}, timedout |-> {}, alarmed |-> {},
   cpu      |-> Range(run),
   ring     |-> run,
   sleepers |-> <<>>,
   abstime  |-> [t \in Tasks |-> 0],
   refs     |-> [t \in Tasks |-> IF t \in Range(run) THEN 2 ELSE 1],
   waiters  |-> [s \in Sources |-> <<>>],
   now      |-> 0,
   locked   |-> FALSE,
   panic    |-> FALSE]

NoArg == [u |-> NULL, ns |-> "RUNNING"]

Init ==
  /\ \E R \in (SUBSET Tasks) \ {{}} : \E run \in SetToSeqs(R) : k = Booted(run)
  /\ susp = [t \in Tasks |-> IF k.state[t] = "SUSPENDED" THEN 1 ELSE 0]
  /\ pc = [t \in Tasks |-> "run"]
  /\ arg = [t \in Tasks |-> NoArg]
  /\ use \in Uses
  /\ budget = [t \in Tasks |-> use.calls]

----------------------------------------------------------------------------
(* References, slots and sleepers *)

Panic(q) == [q EXCEPT !.panic = TRUE]
Incref(q, u) == [q EXCEPT !.refs[u] = @ + 1]
Decref(q, u) == [q EXCEPT !.refs[u] = @ - 1]

\* How many slots task u has on the signals' queues.
Slots(q, u) ==
  SumFunction([s \in Sources |-> Len(SelectSeq(q.waiters[s], LAMBDA w : w = u))])

\* Mutant of AddSlot: the slot takes no reference.
AddSlotBorrowed(q, u, s) == IF s = NULL THEN q ELSE [q EXCEPT !.waiters[s] = Append(@, u)]

\* ktasksig_addsig_locked: the slot holds a reference.
AddSlot(q, u, s) ==
  IF s = NULL THEN q
  ELSE [q EXCEPT !.waiters[s] = Append(@, u), !.refs[u] = @ + 1]

\* ktask_unscheduleallsignals
UnscheduleAllSignals(q, u) ==
  [q EXCEPT !.waiters = [s \in Sources |-> Remove(@[s], u)],
            !.refs[u] = @ - Slots(q, u)]

\* Mutant of ScheduleTimeout: the list is not kept in order.
ScheduleTimeoutFirst(q, u) ==
  IF u \notin q.cpu THEN Panic(q) ELSE [q EXCEPT !.sleepers = <<u>> \o @]

\* kcpu_schedulesleep_unlocked: after the sleepers that are due no later.
ScheduleTimeout(q, u) ==
  IF u \notin q.cpu THEN Panic(q)
  ELSE LET due(i) == q.abstime[q.sleepers[i]]
           at == CHOOSE i \in 1 .. Len(q.sleepers) + 1 :
                   /\ \A j \in 1 .. i - 1 : due(j) <= q.abstime[u]
                   /\ i <= Len(q.sleepers) => due(i) > q.abstime[u]
       IN  [q EXCEPT !.sleepers = InsertAt(@, at, u)]

\* kcpu_unschedulesleep_unlocked
UnscheduleTimeout(q, u) ==
  IF u \notin q.cpu \/ u \notin Range(q.sleepers) THEN Panic(q)
  ELSE [q EXCEPT !.sleepers = Remove(@, u)]

\* Task u leaves the ring (ktask_unschedulecurrent, or unlinked in place).
Unlink(q, u) == [q EXCEPT !.ring = Remove(@, u), !.cpu = @ \ {u}]

\* KTASK_RESCHEDULE_HINT_LAST: u runs after all the others.
ScheduleLast(q, u) ==
  [q EXCEPT !.state[u] = "RUNNING", !.cpu = @ \cup {u}, !.ring = Append(@, u)]

\* u runs right after the current task.
ScheduleNext(q, u) ==
  [q EXCEPT !.state[u] = "RUNNING", !.cpu = @ \cup {u},
            !.ring = IF @ = <<>> THEN <<u>> ELSE InsertAt(@, 2, u)]

----------------------------------------------------------------------------
(* ktask_reschedule_ex; the reference it consumes has been taken already *)

Ret(q, r) == [k |-> q, r |-> r]

\* Mutant of Deliver: a terminated task is not told from a waiting one.
DeliverLate(q, u) ==
  CASE q.state[u] = "SUSPENDED" -> [q EXCEPT !.new[u] = "RUNNING"]
    [] q.state[u] = "RUNNING" -> Decref(q, u)
    [] q.state[u] \in {"WAITING", "TERMINATED"} -> ScheduleLast(UnscheduleAllSignals(q, u), u)
    [] q.state[u] = "WAITINGTMO" ->
         ScheduleLast(UnscheduleAllSignals(Decref(UnscheduleTimeout(q, u), u), u), u)

\* Without KTASK_RESCHEDULE_HINTFLAG_UNDOSUSPEND: task u receives a signal.  For a
\* suspended task the reference is not given back.
Deliver(q, u) ==
  CASE q.state[u] = "SUSPENDED" ->
         [(IF IsWaiting(q.new[u]) THEN UnscheduleAllSignals(q, u) ELSE q)
            EXCEPT !.new[u] = "RUNNING"]
    [] q.state[u] \in {"TERMINATED", "RUNNING"} -> Decref(q, u)
    [] q.state[u] = "WAITING" -> ScheduleLast(UnscheduleAllSignals(q, u), u)
    [] q.state[u] = "WAITINGTMO" ->
         ScheduleLast(UnscheduleAllSignals(Decref(UnscheduleTimeout(q, u), u), u), u)

\* ksignal_sendone: the slot's reference goes to the reschedule.
SendOne(q, s) ==
  IF q.waiters[s] = <<>> THEN q
  ELSE Deliver([q EXCEPT !.waiters[s] = Tail(@)], Head(q.waiters[s]))

\* Mutant of OnTerminate: one joiner is woken.
OnTerminateOne(q, u) == SendOne(q, u)

\* ktask_onterminate: t_joinsig is closed, everybody who waits for it is woken.
OnTerminate(q, u) == FoldLeft(LAMBDA p, w : SendOne(p, u), q, q.waiters[u])

\* With KTASK_RESCHEDULE_HINTFLAG_UNDOSUSPEND.
Undo(q, u) ==
  CASE q.state[u] # "SUSPENDED" ->
         Ret(Deliver(q, u), CASE q.state[u] = "TERMINATED" -> "KE_DESTROYED"
                              [] q.state[u] = "RUNNING" -> "KS_UNCHANGED"
                              [] OTHER -> "KE_OK")
    [] q.state[u] = "SUSPENDED" /\ q.new[u] = "SUSPENDED" -> Ret(Deliver(q, u), "KS_BLOCKING")
    [] q.state[u] = "SUSPENDED" /\ q.new[u] \in {"RUNNING", "TERMINATED"} ->
         IF q.new[u] = "RUNNING" \/ u \in q.crit THEN Ret(ScheduleLast(q, u), "KE_OK")
         ELSE Ret(Decref(OnTerminate([q EXCEPT !.state[u] = "TERMINATED"], u), u),
                  "KE_DESTROYED")
    [] q.state[u] = "SUSPENDED" /\ IsWaiting(q.new[u]) ->
         LET p == [q EXCEPT !.state[u] = q.new[u], !.new[u] = "RUNNING"]
         IN  Ret(CASE q.new[u] = "WAITING" -> Decref(p, u)
                   [] q.now >= q.abstime[u] ->
                        Decref([p EXCEPT !.timedout = @ \cup {u}], u)
                   [] OTHER -> ScheduleTimeout(p, u),
                 "KE_OK")

----------------------------------------------------------------------------
(* ktask_unschedule_ex, called by task c for task u: the new state ns, the   *)
(* time tm of a timeout, the signal s to wait for                            *)

\* "State didn't change/waiting --> waiting".
WaitMore(q, u, ns, tm, s) ==
  LET p == AddSlot(q, u, s) IN
  Ret(CASE ns = "WAITINGTMO" /\ q.state[u] = "WAITING" ->
             [ScheduleTimeout([Incref(p, u) EXCEPT !.cpu = @ \cup {u}, !.abstime[u] = tm], u)
                EXCEPT !.state[u] = ns]
        [] ns = "WAITINGTMO" /\ q.state[u] = "WAITINGTMO" ->
             IF tm >= q.abstime[u] THEN p
             ELSE ScheduleTimeout([UnscheduleTimeout(p, u) EXCEPT !.abstime[u] = tm], u)
        [] ns = "WAITING" /\ q.state[u] = "WAITINGTMO" ->
             Decref([UnscheduleTimeout(p, u) EXCEPT !.cpu = @ \ {u}, !.state[u] = ns], u)
        [] OTHER -> p,
      "KS_UNCHANGED")

\* "Terminating a critical task": it is told to, and woken unless it asked not
\* to be.
TerminateCritical(q, c, u) ==
  LET p == [q EXCEPT !.new[u] = "TERMINATED"]
      told == [p EXCEPT !.wasintr = @ \cup {u}] IN
  IF q.new[u] = "TERMINATED" THEN Ret(q, "KE_DESTROYED")
  ELSE IF u \in q.nointr \/ (u # c /\ q.state[u] = "RUNNING") THEN Ret(told, "KS_BLOCKING")
  ELSE IF u = c THEN Ret(p, "KE_INTR")
  ELSE LET woken == IF q.state[u] = "WAITINGTMO" THEN UnscheduleTimeout(told, u)
                    ELSE Incref(told, u)
       IN  Ret(ScheduleNext(UnscheduleAllSignals(woken, u), u), "KS_BLOCKING")

\* Mutant of LeaveWait: a suspended task gives up its signals.
LeaveWaitForgets(q, u, ns) ==
  LET p == IF q.state[u] = "WAITINGTMO"
           THEN [UnscheduleTimeout(q, u) EXCEPT !.cpu = @ \ {u}] ELSE q
      left == UnscheduleAllSignals(p, u)
  IN  Ret(Decref(IF ns = "TERMINATED" THEN OnTerminate([left EXCEPT !.state[u] = ns], u)
                 ELSE [left EXCEPT !.new[u] = q.state[u], !.state[u] = ns], u),
          "KE_OK")

\* "Unscheduling a waiting task", to be terminated or suspended.
LeaveWait(q, u, ns) ==
  LET p == IF q.state[u] = "WAITINGTMO"
           THEN [UnscheduleTimeout(q, u) EXCEPT !.cpu = @ \ {u}] ELSE q
  IN  Ret(Decref(IF ns = "TERMINATED"
                 THEN OnTerminate([UnscheduleAllSignals(p, u) EXCEPT !.state[u] = ns], u)
                 ELSE [p EXCEPT !.new[u] = q.state[u], !.state[u] = ns], u),
          "KE_OK")

\* ktask_dopostunscheduling of a task that has left the ring, and what follows
\* for a terminated one; the reference of the ring is dropped last.
PostUnschedule(q, u, ns, tm, s) ==
  LET p == IF ns # "WAITINGTMO" THEN q
           ELSE ScheduleTimeout([Incref(q, u) EXCEPT !.abstime[u] = tm, !.cpu = @ \cup {u}], u)
      done == [AddSlot(p, u, s) EXCEPT !.state[u] = ns]
  IN  Decref(IF ns = "TERMINATED" THEN OnTerminate(done, u) ELSE done, u)

\* A call that returns through 'goto end' leaves the signal locked.
LeftLocked(q, s) == [q EXCEPT !.locked = @ \/ s # NULL]

\* The current task: a pending interrupt is found with KCPU_LOCK_TASKS held.
SwitchOut(q, u, ns, tm, s) ==
  IF u \in q.wasintr /\ u \notin q.nointr
  THEN Ret([q EXCEPT !.wasintr = @ \ {u}, !.locked = TRUE], "KE_INTR")
  ELSE Ret(PostUnschedule(Unlink(q, u), u, ns, tm, s), "switched")

\* __ktask_unschedule_nocpu: task u is suspended.
UnscheduleNoCpu(q, u, ns, tm, s) ==
  IF q.new[u] = "TERMINATED" THEN Ret(LeftLocked(q, s), "KE_DESTROYED")
  ELSE IF ns = "TERMINATED"
  THEN Ret(OnTerminate([q EXCEPT !.state[u] = ns], u), "KE_OK")
  ELSE LET later == ns = "WAITINGTMO" /\ (q.new[u] # ns \/ tm < q.abstime[u])
       IN  Ret([AddSlot(q, u, s) EXCEPT !.new[u] = ns,
                                        !.abstime[u] = IF later THEN tm ELSE @], "KE_OK")

\* The task's alarm turns a wait into a timed one.
Alarmed(q, u, want) == u \in q.alarmed /\ IsWaiting(want)

\* The cases, in the order of the code.
Unschedule(q, c, u, want, at, s) ==
  LET rung == Alarmed(q, u, want) /\ want = "WAITING"
      ns == IF rung THEN "WAITINGTMO" ELSE want
      tm == IF rung THEN q.abstime[u] ELSE at
      p == IF Alarmed(q, u, want) THEN [q EXCEPT !.alarmed = @ \ {u}] ELSE q
  IN
  IF (u \in q.cpu) # HasCpu(q.state[u]) THEN Ret(Panic(q), "panic")
  ELSE IF q.state[u] = "TERMINATED" THEN Ret(LeftLocked(q, s), "KE_DESTROYED")
  ELSE IF want = "WAITINGTMO" /\ q.now >= at THEN Ret(LeftLocked(q, s), "KE_TIMEDOUT")
  ELSE IF rung /\ q.now >= tm THEN Ret(LeftLocked(p, s), "KE_TIMEDOUT")
  ELSE IF q.state[u] = ns \/ (IsWaiting(q.state[u]) /\ IsWaiting(ns))
  THEN WaitMore(p, u, ns, tm, s)
  ELSE IF ns = "TERMINATED" /\ u \in q.crit THEN TerminateCritical(p, c, u)
  ELSE IF IsWaiting(q.state[u]) THEN LeaveWait(p, u, ns)
  ELSE IF q.state[u] = "SUSPENDED" THEN UnscheduleNoCpu(p, u, ns, tm, s)
  ELSE IF u = c THEN SwitchOut(p, u, ns, tm, s)
  ELSE Ret(PostUnschedule(Unlink(p, u), u, ns, tm, s), "KE_OK")

----------------------------------------------------------------------------
(* The timer, and what a task does to itself *)

\* One turn of kcpu_ticktime_unlocked2: the first sleeper, if it is due, runs
\* again.  Its slots stay where they are; its reference goes to the ring.
TickOne(q) ==
  IF q.panic \/ q.sleepers = <<>> THEN q
  ELSE LET u == Head(q.sleepers) IN
       IF q.state[u] # "WAITINGTMO" \/ q.new[u] # "RUNNING" THEN Panic(q)
       ELSE IF q.now < q.abstime[u] THEN q
       ELSE ScheduleLast([q EXCEPT !.sleepers = Tail(@), !.timedout = @ \cup {u}], u)

TickTime(q) == FoldLeft(LAMBDA p, u : TickOne(p), q, q.sleepers)

\* kcpu_rotate_unlocked, for tasks of equal priority.
Rotate(q) == [q EXCEPT !.ring = IF @ = <<>> THEN @ ELSE Append(Tail(@), Head(@))]

\* ktask_tryyield, and ktask_schedule called by the timer interrupt.
Yield(q) == Rotate(TickTime(q))

\* Mutant of AfterCrit: the termination is forgotten.
AfterCritForgets(q, c) == [q EXCEPT !.crit = @ \ {c}]

\* ktask_unschedule_aftercrit: the termination that was asked for meanwhile.
AfterCrit(q, c) ==
  LET p == [q EXCEPT !.crit = @ \ {c}] IN
  IF q.new[c] # "TERMINATED" THEN p
  ELSE Decref(OnTerminate([Unlink(p, c) EXCEPT !.state[c] = "TERMINATED"], c), c)

\* ktask_setalarm_k; tm = NULL deletes the alarm.
SetAlarm(q, u, tm) ==
  CASE q.state[u] = "TERMINATED" -> q
    [] q.state[u] = "WAITING" ->
         IF tm = NULL THEN q
         ELSE IF u \in q.alarmed \/ u \in q.cpu THEN Panic(q)
         ELSE ScheduleTimeout([q EXCEPT !.cpu = @ \cup {u}, !.abstime[u] = tm,
                                        !.state[u] = "WAITINGTMO"], u)
    [] q.state[u] = "WAITINGTMO" ->
         IF u \in q.alarmed \/ u \notin q.cpu THEN Panic(q)
         ELSE IF tm = NULL THEN [UnscheduleTimeout(q, u) EXCEPT !.state[u] = "WAITING"]
         ELSE ScheduleTimeout([UnscheduleTimeout(q, u) EXCEPT !.abstime[u] = tm], u)
    [] OTHER ->
         IF tm = NULL THEN [q EXCEPT !.alarmed = @ \ {u}]
         ELSE [q EXCEPT !.alarmed = @ \cup {u}, !.abstime[u] = tm]

----------------------------------------------------------------------------
(* The tasks' calls *)

\* Task t has the CPU.  Nothing is said of what follows a failed assertion, or a
\* lock that was left locked.
Active(t) == k.ring # <<>> /\ Head(k.ring) = t /\ ~k.panic /\ ~k.locked

\* Task t starts operation op.
Start(t, op) ==
  /\ Active(t)
  /\ pc[t] = "run"
  /\ op \in use.ops
  /\ budget[t] > 0
  /\ budget' = [budget EXCEPT ![t] = @ - 1]

\* Task t goes on at p, in a call about u, having blocked in state ns.
Goto(t, p, u, ns) ==
  /\ pc' = [pc EXCEPT ![t] = p]
  /\ arg' = [arg EXCEPT ![t] = [u |-> u, ns |-> ns]]

Done(t) == Goto(t, "run", NULL, "RUNNING")

\* With the scheduler at q task t blocks itself, and once it was switched out goes
\* on at p in a call about u.  Its alarm may make a timed wait of a wait.
Block(q, t, want, at, s, p, u) ==
  LET b == Unschedule(q, t, t, want, at, s)
      ns == IF want = "WAITING" /\ t \in q.alarmed THEN "WAITINGTMO" ELSE want
  IN  /\ k' = b.k
      /\ IF b.r = "switched" THEN Goto(t, p, u, ns) ELSE Done(t)

\* ksignal_recv, ksignal_timedrecv, ktask_sleep; the timeouts are in the future.
Receive(t) ==
  /\ \/ Start(t, "recv") /\ Block(k, t, "WAITING", 0, Sig, "asleep", Sig)
     \/ \E at \in k.now + 1 .. use.time :
          \/ Start(t, "timedrecv") /\ Block(k, t, "WAITINGTMO", at, Sig, "asleep", Sig)
          \/ Start(t, "sleep") /\ Block(k, t, "WAITINGTMO", at, NULL, "asleep", NULL)
  /\ UNCHANGED <<susp, use>>

\* The end of ktask_unschedule_ex, when task t runs again.
Result(t) ==
  IF t \in k.wasintr /\ t \notin k.nointr THEN "KE_INTR"
  ELSE IF arg[t].ns = "WAITINGTMO" /\ t \in k.timedout THEN "KE_TIMEDOUT" ELSE "KE_OK"

Woken(t) ==
  /\ Active(t)
  /\ pc[t] \in {"asleep", "joining"}
  /\ k' = CASE Result(t) = "KE_INTR"     -> [k EXCEPT !.wasintr = @ \ {t}]
            [] Result(t) = "KE_TIMEDOUT" -> [k EXCEPT !.timedout = @ \ {t}]
            [] Result(t) = "KE_OK"       -> k
  /\ IF pc[t] = "joining" /\ Result(t) = "KE_OK" THEN Goto(t, "joined", arg[t].u, "RUNNING")
     ELSE Done(t)
  /\ UNCHANGED <<susp, budget, use>>

\* ktask_join returns KE_OK.
Joined(t) ==
  /\ Active(t)
  /\ pc[t] = "joined"
  /\ Done(t)
  /\ UNCHANGED <<k, susp, budget, use>>

\* ksignal_sendone
Send(t) ==
  /\ Start(t, "send")
  /\ k' = SendOne(k, Sig)
  /\ UNCHANGED <<susp, pc, arg, use>>

\* ktask_join(u) with the scheduler at q: ktask_tryjoin, then wait for t_joinsig,
\* which is closed when u terminates.
JoinFrom(q, t, u) ==
  IF q.state[u] = "TERMINATED" THEN k' = q /\ Goto(t, "joined", u, "RUNNING")
  ELSE Block(q, t, "WAITING", 0, u, "joining", u)

Join(t, u) ==
  /\ Start(t, "join")
  /\ u # t
  /\ JoinFrom(k, t, u)
  /\ UNCHANGED <<susp, use>>

\* _ktask_terminate_k, of oneself or of another task.
Terminate(t, u) ==
  /\ Start(t, "terminate")
  /\ k' = Unschedule(k, t, u, "TERMINATED", 0, NULL).k
  /\ UNCHANGED <<susp, pc, arg, use>>

\* ktask_terminate_k of another task: a critical one is waited for.
Kill(t, u) ==
  /\ Start(t, "kill")
  /\ u # t
  /\ LET e == Unschedule(k, t, u, "TERMINATED", 0, NULL) IN
       IF e.r = "KS_BLOCKING" THEN JoinFrom(e.k, t, u) ELSE k' = e.k /\ UNCHANGED <<pc, arg>>
  /\ UNCHANGED <<susp, use>>

\* ktask_suspend_k and ktask_resume_k: the counter first, and the scheduler only
\* when the counter left or reached zero.
Suspend(t, u) ==
  /\ Start(t, "suspend")
  /\ susp' = [susp EXCEPT ![u] = @ + 1]
  /\ IF susp[u] = 0 THEN Goto(t, "suspend", u, "RUNNING") ELSE UNCHANGED <<pc, arg>>
  /\ UNCHANGED <<k, use>>

Resume(t, u) ==
  /\ Start(t, "resume")
  /\ susp' = [susp EXCEPT ![u] = @ - 1]
  /\ IF susp[u] = 1 THEN Goto(t, "resume", u, "RUNNING") ELSE UNCHANGED <<pc, arg>>
  /\ UNCHANGED <<k, use>>

\* Their second half, tried again after a yield while nothing changes.
SuspendLoop(t) ==
  /\ Active(t)
  /\ pc[t] = "suspend"
  /\ LET u == Unschedule(k, t, arg[t].u, "SUSPENDED", 0, NULL) IN
       CASE u.r = "KS_UNCHANGED" -> k' = Yield(u.k) /\ UNCHANGED <<pc, arg>>
         [] u.r = "switched"     -> k' = u.k /\ Goto(t, "asleep", NULL, "SUSPENDED")
         [] OTHER                -> k' = u.k /\ Done(t)
  /\ UNCHANGED <<susp, budget, use>>

ResumeLoop(t) ==
  /\ Active(t)
  /\ pc[t] = "resume"
  /\ LET u == Undo(Incref(k, arg[t].u), arg[t].u) IN
       IF u.r = "KS_UNCHANGED" THEN k' = Yield(u.k) /\ UNCHANGED <<pc, arg>>
       ELSE k' = u.k /\ Done(t)
  /\ UNCHANGED <<susp, budget, use>>

\* KTASK_CRIT_BEGIN and KTASK_CRIT_END, KTASK_NOINTR_BEGIN and KTASK_NOINTR_END.
EnterCrit(t) ==
  /\ Start(t, "crit")
  /\ t \notin k.crit
  /\ k' = [k EXCEPT !.crit = @ \cup {t}]
  /\ UNCHANGED <<susp, pc, arg, use>>

LeaveCrit(t) ==
  /\ Active(t)
  /\ pc[t] = "run"
  /\ t \in k.crit \ k.nointr
  /\ k' = AfterCrit(k, t)
  /\ UNCHANGED <<susp, pc, arg, budget, use>>

EnterNoIntr(t) ==
  /\ Start(t, "nointr")
  /\ t \in k.crit \ k.nointr
  /\ k' = [k EXCEPT !.nointr = @ \cup {t}]
  /\ UNCHANGED <<susp, pc, arg, use>>

LeaveNoIntr(t) ==
  /\ Active(t)
  /\ pc[t] = "run"
  /\ t \in k.nointr
  /\ k' = [k EXCEPT !.nointr = @ \ {t}]
  /\ UNCHANGED <<susp, pc, arg, budget, use>>

\* ktask_setalarm_k
Alarm(t, u) ==
  /\ Start(t, "alarm")
  /\ \E at \in (k.now + 1 .. use.time) \cup {NULL} : k' = SetAlarm(k, u, at)
  /\ UNCHANGED <<susp, pc, arg, use>>

\* ktask_pause and ktask_sleep of another task.
PauseOther(t, u) ==
  /\ Start(t, "pauseother")
  /\ u # t
  /\ \/ k' = Unschedule(k, t, u, "WAITING", 0, NULL).k
     \/ \E at \in k.now + 1 .. use.time : k' = Unschedule(k, t, u, "WAITINGTMO", at, NULL).k
  /\ UNCHANGED <<susp, pc, arg, use>>

----------------------------------------------------------------------------
\* The timer interrupt; also the turns of kcpu_idlewaitfortasks_unlocked.
Irq ==
  /\ ~k.panic /\ ~k.locked
  /\ k' = IF k.ring = <<>> THEN TickTime(k) ELSE Yield(k)
  /\ UNCHANGED <<susp, pc, arg, budget, use>>

\* Time passes.
Clock ==
  /\ k.now < use.time
  /\ k' = [k EXCEPT !.now = @ + 1]
  /\ UNCHANGED <<susp, pc, arg, budget, use>>

\* What a task does without being asked: it finishes calls and leaves regions.
Step(t) ==
  Woken(t) \/ Joined(t) \/ SuspendLoop(t) \/ ResumeLoop(t) \/ LeaveNoIntr(t) \/ LeaveCrit(t)

Call(t) ==
  \/ Receive(t) \/ Send(t) \/ EnterCrit(t) \/ EnterNoIntr(t)
  \/ \E u \in Tasks :
       \/ Join(t, u) \/ Terminate(t, u) \/ Kill(t, u) \/ Suspend(t, u) \/ Resume(t, u)
       \/ Alarm(t, u) \/ PauseOther(t, u)

Next == Irq \/ Clock \/ \E t \in Tasks : Step(t) \/ Call(t)

Spec == Init /\ [][Next]_vars

\* Time passes and the timer interrupts; a task that gets the CPU again and again
\* gets on with its work.
FairSpec == Spec /\ WF_vars(Irq) /\ WF_vars(Clock) /\ \A t \in Tasks : SF_vars(Step(t))

----------------------------------------------------------------------------
(* Properties.  Where the code breaks one under some use, the property excepts *)
(* that use and says why.                                                      *)

Unused(ops) == use.ops \cap ops = {}

\* No assertion has failed; nothing is said of a kernel that stopped at one.
Up == ~k.panic

\* The operations that may have a task sleep with a timeout.
Timeouts == {"sleep", "timedrecv", "pauseother", "alarm"}

\* The CPU's ring holds exactly the running tasks, each once; its sleeper list
\* exactly the tasks that wait with a timeout, each once, in the order they are due
\* (kcpu_ticktime_unlocked2 only ever looks at the first).  Without resuming a
\* task that sleeps: ktask_reschedule_ex leaves it out of both lists when its
\* timeout has passed.
SchedulerLists ==
  (Up /\ (Unused(Timeouts) \/ Unused({"resume"})))
  => /\ IsInjective(k.ring) /\ Range(k.ring) = {t \in Tasks : k.state[t] = "RUNNING"}
     /\ IsInjective(k.sleepers)
     /\ Range(k.sleepers) = {t \in Tasks : k.state[t] = "WAITINGTMO"}
     /\ \A i, j \in DOMAIN k.sleepers :
          i < j => k.abstime[k.sleepers[i]] <= k.abstime[k.sleepers[j]]

\* What ktask_unschedule_ex asserts of every task it is given: t_cpu is set in
\* exactly the states that have a CPU (task.h, struct ktask, t_cpu).  Without
\* alarms (deleting the one of a sleeping task leaves t_cpu set) and without
\* resuming a task that sleeps.
CpuAgrees ==
  (Up /\ Unused({"alarm"}) /\ (Unused(Timeouts) \/ Unused({"resume"})))
  => \A t \in Tasks : t \in k.cpu <=> HasCpu(k.state[t])

\* Nobody holds a reference that was dropped and no reference is lost: a task has
\* one of its creator, one of the ring or of the sleeper list it is in, and one of
\* each slot it has on a signal.  Without alarms, without unscheduling a task that
\* waits without a timeout, and without sending to a suspended task, the three
\* places where the code counts wrongly.
RefsCounted ==
  (/\ Up
   /\ Unused({"alarm"})
   /\ Unused({"recv", "join", "kill", "pauseother"}) \/ Unused({"terminate", "kill", "suspend"})
   /\ Unused({"send"}) \/ Unused({"suspend"}))
  => \A t \in Tasks :
       k.refs[t] = 1 + Cardinality({l \in {k.ring, k.sleepers} : t \in Range(l)}) + Slots(k, t)

\* No assertion of the scheduler fails.  Without alarms, and if there are timeouts,
\* without resuming (a sleeper is put back on the list without a CPU) and without
\* critical tasks (the timer finds one that was told to terminate).
NoPanic ==
  (Unused({"alarm"}) /\ (Unused(Timeouts) \/ Unused({"resume", "crit"}))) => Up

\* A task in a critical region is never terminated, whoever asks for it, however it
\* waits, is suspended or is resumed (task.h, KTASK_FLAG_CRITICAL).
CriticalSurvives == \A t \in k.crit : k.state[t] # "TERMINATED"

\* A terminated task never runs again: no late signal, timeout or resume brings it
\* back (its stack is gone).
TerminatedForever ==
  [][\A t \in Tasks : k.state[t] = "TERMINATED" => k'.state[t] = "TERMINATED"]_vars

\* A critical task that was told to terminate stays told until it terminates.
\* Without suspensions: suspending a task that waits overwrites t_newstate.
TermRequestKept ==
  [][Unused({"suspend"}) =>
       \A t \in Tasks : k.new[t] = "TERMINATED" => k'.new[t] = "TERMINATED"]_vars

\* What ktask_join asserts when it returns KE_OK: the task it waited for has
\* terminated.  Without timeouts, whose slots stay behind and wake a later join, and
\* without suspensions, as resuming the joiner with a signal pending does the same.
JoinSound ==
  Unused({"timedrecv", "alarm", "pauseother", "suspend"})
  => \A t \in Tasks : pc[t] = "joined" => k.state[arg[t].u] = "TERMINATED"

\* Nobody waits for a task that has terminated: ktask_onterminate reaches everybody
\* who joins it.  Without ktask_pause of others, which has a task wait for nothing.
JoinersWoken ==
  Unused({"pauseother"})
  => \A t \in Tasks :
       (pc[t] = "joining" /\ k.state[arg[t].u] = "TERMINATED") => ~IsWaiting(k.state[t])

\* A task that waits, or will wait again when it is resumed, is still on the queue
\* of what it waits for (task.h: "If a waiting task gets suspended and the signal
\* its been waiting for get sent, the task must still be notified").  Without
\* ktask_pause of others.
StillNotified ==
  Unused({"pauseother"})
  => \A t \in Tasks :
       (/\ pc[t] \in {"asleep", "joining"}
        /\ arg[t].u # NULL
        /\ \/ IsWaiting(k.state[t])
           \/ k.state[t] = "SUSPENDED" /\ IsWaiting(k.new[t]))
       => t \in Range(k.waiters[arg[t].u])

\* While no ktask_suspend_k or ktask_resume_k is under way, a living task is
\* suspended exactly while its suspension counter is positive (task.h, t_suspended).
CounterAgrees ==
  (\A t \in Tasks : pc[t] \notin {"suspend", "resume"})
  => \A t \in Tasks :
       k.state[t] # "TERMINATED" => (susp[t] > 0 <=> k.state[t] = "SUSPENDED")

\* That is so for tasks that do not wait and are in no critical region, however the
\* halves of several suspensions, resumes and terminations interleave.
SuspendAgrees == use.ops \subseteq {"suspend", "resume", "terminate"} => CounterAgrees

\* Somebody who waits for a terminated task goes on, unless they were terminated.
JoinReturns ==
  \A t \in Tasks :
    (pc[t] = "joining" /\ k.state[arg[t].u] = "TERMINATED")
    ~> (pc[t] # "joining" \/ k.state[t] = "TERMINATED" \/ k.locked)

\* A critical task that was told to terminate does, once it has left its regions;
\* a wait it is in does not keep it.
TerminationHappens ==
  \A t \in Tasks : (k.new[t] = "TERMINATED") ~> (k.state[t] = "TERMINATED" \/ k.locked)

\* A task that sleeps wakes up.
SleepersWake ==
  \A t \in Tasks : (k.state[t] = "WAITINGTMO") ~> (k.state[t] # "WAITINGTMO" \/ k.locked)

\* A task's state, the list it is in, its CPU and its suspension counter agree,
\* whichever two operations met on it.
ListsAgree == TypeOK /\ SchedulerLists /\ CpuAgrees /\ SuspendAgrees

\* Every reference is accounted for and no assertion fails.
RefsSound == RefsCounted /\ NoPanic

\* A termination comes neither too early nor undone: critical tasks survive it, a
\* request for one is kept, and whoever is terminated stays so.
TerminationSound == []CriticalSurvives /\ TermRequestKept /\ TerminatedForever

\* A join ends exactly because the task it waits for has terminated.
JoinsSound == JoinSound /\ JoinersWoken

\* What the scheduler owes happens: terminations that were asked for, the end of
\* joins and of sleeps.
SchedulerProgress == TerminationHappens /\ JoinReturns /\ SleepersWake
============================================================================
