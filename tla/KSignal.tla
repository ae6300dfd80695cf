------------------------------ MODULE KSignal ------------------------------
(***************************************************************************)
(* The kernel's wait/wake primitive: struct ksignal                        *)
(* (include/kos/kernel/signal.h, src/kernel/sched/sync/signal.c.inl) with  *)
(* the part of the scheduler a receive and a send go through               *)
(* (ktask_unschedule_ex, ktask_reschedule_ex and the timer tick of         *)
(* src/kernel/sched/task.c).                                               *)
(*                                                                         *)
(* The module holds the state of all signals and tasks and one operator    *)
(* per kernel function.  It has no Next of its own: Signal and every       *)
(* synchronisation primitive built on a signal (RWLock, Semaphore, Mutex,  *)
(* CloseLock) extend it and call these operators from their actions.       *)
(*                                                                         *)
(* A region of the code that holds KSIGNAL_LOCK_WAIT is one step.  What    *)
(* the code does after it dropped that lock is another step, so a receive  *)
(* is atomic from the lock to the switch to another task, while a send is  *)
(* two steps: the pop under the lock, and the reschedule after it.         *)
(***************************************************************************)
EXTENDS Naturals, Sequences, FiniteSets, Functions

CONSTANTS Tasks,   \* the tasks, all of them in a critical region
          Sigs,    \* the signals
          NULL,    \* no task / no signal
          Uses     \* the ways clients use the object, a set of records

ASSUME TasksAssumption ==
  /\ IsFiniteSet(Tasks)
  /\ NULL \notin Tasks
  /\ NULL \notin Sigs

VARIABLES
  waiters,   \* s_wakefirst .. s_wakelast: the tasks whose slots queue on each signal
  dead,      \* the signals with KSIGNAL_FLAG_DEAD
  siglock,   \* the signals whose KSIGNAL_LOCK_WAIT a finished call never released
  cpulock,   \* the task that returned holding KCPU_LOCK_TASKS, or NULL
  tstate,    \* t_state of each task
  tmo,       \* the tasks whose current receive was given a timeout
  timedout,  \* KTASK_FLAG_TIMEDOUT
  wasintr,   \* KTASK_FLAG_WASINTR
  termreq,   \* the tasks with t_newstate = KTASK_STATE_TERMINATED
  snd,       \* the send each task is in the middle of
  use        \* how clients use the object: chosen at the start and kept

sigvars == <<waiters, dead, siglock, cpulock, tstate, tmo, timedout, wasintr,
             termreq, snd, use>>

TaskStates == {"RUNNING", "WAITING", "WAITINGTMO"}

\* How a send loops: ksignal_sendone repeated while KS_UNCHANGED, ksignal_sendn,
\* ksignal_sendall.
SendModes == {"one", "n", "all"}

NoSend == [mode |-> "none", sig |-> NULL, left |-> 0, task |-> NULL]

Sends == [mode : SendModes \cup {"none"}, sig : Sigs \cup {NULL}, left : Nat,
          task : Tasks \cup {NULL}]

SigTypeOK ==
  /\ waiters \in [Sigs -> Seq(Tasks)]
  /\ dead \subseteq Sigs
  /\ siglock \subseteq Sigs
  /\ cpulock \in Tasks \cup {NULL}
  /\ tstate \in [Tasks -> TaskStates]
  /\ tmo \subseteq Tasks
  /\ timedout \subseteq Tasks
  /\ wasintr \subseteq Tasks
  /\ termreq \subseteq Tasks
  /\ snd \in [Tasks -> Sends]
  /\ use \in Uses

SigInit ==
  /\ waiters = [s \in Sigs |-> <<>>]
  /\ dead = {}
  /\ siglock = {}
  /\ cpulock = NULL
  /\ tstate = [t \in Tasks |-> "RUNNING"]
  /\ tmo = {}
  /\ timedout = {}
  /\ wasintr = {}
  /\ termreq = {}
  /\ snd = [t \in Tasks |-> NoSend]
  /\ use \in Uses

----------------------------------------------------------------------------
\* Task t can execute: it is scheduled, and if some task still holds the lock of
\* the one CPU's task ring, no other task is ever switched to.
Runs(t) == tstate[t] = "RUNNING" /\ cpulock \in {NULL, t}

Sending(t) == snd[t].mode # "none"

\* A task between two calls of its own: neither asleep nor inside a send.
Free(t) == Runs(t) /\ ~Sending(t)

\* Queue q without the slots of task t, the others in their order.
Without(q, t) ==
  LET kept[i \in 0 .. Len(q)] ==
        IF i = 0 THEN <<>>
        ELSE IF q[i] = t THEN kept[i - 1] ELSE Append(kept[i - 1], q[i])
  IN  kept[Len(q)]

\* Every slot of task t, on whatever signal, is gone (ktasksig_clear).
Unlinked(t) == [s \in Sigs |-> Without(waiters[s], t)]

----------------------------------------------------------------------------
(* Receiving: _ksignal_recv_andunlock_c, _ksigset_recvs_andunlock_c and the *)
(* timed versions of both                                                   *)

\* Mutant: only one signal of the set gets a slot.
EnqueuedOnce(S, t) ==
  LET first == CHOOSE s \in S : TRUE
  IN  [waiters EXCEPT ![first] = Append(@, t)]

\* One slot of task t at the end of the queue of each signal of S
\* (ktasksig_addsigs_andunlock).
Enqueued(S, t) ==
  [s \in Sigs |-> IF s \in S THEN Append(waiters[s], t) ELSE waiters[s]]

\* Task t, holding the locks of the signals S, starts to receive.  r is what
\* happens: the error the call returns at once, or "blocked" when t was switched
\* out.  The three errors are the early exits in the order the code tests them:
\* a dead signal, a timeout that has already passed, a pending interrupt.
\* The last two leave ktask_unschedule_ex by 'goto end', which does not unlock
\* the signals; the pending interrupt is seen with KCPU_LOCK_TASKS held as well.
RecvSet(S, t, timed, r) ==
  \/ /\ r = "KE_DESTROYED"
     /\ S \cap dead # {}
     /\ UNCHANGED sigvars
  \/ /\ r = "KE_TIMEDOUT"
     /\ S \cap dead = {}
     /\ timed
     /\ siglock' = siglock \cup S
     /\ UNCHANGED <<waiters, dead, cpulock, tstate, tmo, timedout, wasintr,
                    termreq, snd, use>>
  \/ /\ r = "KE_INTR"
     /\ S \cap dead = {}
     /\ cpulock = NULL
     /\ t \in wasintr
     /\ wasintr' = wasintr \ {t}
     /\ siglock' = siglock \cup S
     /\ cpulock' = t
     /\ UNCHANGED <<waiters, dead, tstate, tmo, timedout, termreq, snd, use>>
  \/ /\ r = "blocked"
     /\ S \cap dead = {}
     /\ cpulock = NULL
     /\ t \notin wasintr
     /\ waiters' = Enqueued(S, t)
     /\ tstate' = [tstate EXCEPT ![t] = IF timed THEN "WAITINGTMO" ELSE "WAITING"]
     /\ tmo' = IF timed THEN tmo \cup {t} ELSE tmo
     /\ UNCHANGED <<dead, siglock, cpulock, timedout, wasintr, termreq, snd, use>>

\* The receive of a single signal.
Recv(s, t, timed, r) == RecvSet({s}, t, timed, r)

RecvResults == {"KE_DESTROYED", "KE_TIMEDOUT", "KE_INTR", "blocked"}

\* What ktask_unschedule_ex returns once task t runs again: an interrupt comes
\* first, then a timeout, and only for a receive that was given one.
WakeResult(t) ==
  IF t \in wasintr THEN "KE_INTR"
  ELSE IF t \in tmo /\ t \in timedout THEN "KE_TIMEDOUT"
  ELSE "KE_OK"

\* Task t runs again and returns from its receive with r.  Only the flag that
\* r reports is cleared.
Woken(t, r) ==
  /\ Runs(t)
  /\ r = WakeResult(t)
  /\ wasintr' = wasintr \ {t}
  /\ timedout' = IF r = "KE_TIMEDOUT" THEN timedout \ {t} ELSE timedout
  /\ tmo' = tmo \ {t}
  /\ UNCHANGED <<waiters, dead, siglock, cpulock, tstate, termreq, snd, use>>

WakeResults == {"KE_INTR", "KE_TIMEDOUT", "KE_OK"}

\* kcpu_ticktime_unlocked2: the timeout of a sleeping task passes.  The task
\* runs again; its signal slots are left where they are.
Tick(t) ==
  /\ cpulock = NULL
  /\ tstate[t] = "WAITINGTMO"
  /\ tstate' = [tstate EXCEPT ![t] = "RUNNING"]
  /\ timedout' = timedout \cup {t}
  /\ UNCHANGED <<waiters, dead, siglock, cpulock, tmo, wasintr, termreq, snd, use>>

\* ktask_unschedule_ex(t,KTASK_STATE_TERMINATED) called by somebody else while t
\* is in a critical region: t is only told to terminate later, and is woken.
Interrupt(t) ==
  /\ cpulock = NULL
  /\ t \notin termreq
  /\ termreq' = termreq \cup {t}
  /\ wasintr' = wasintr \cup {t}
  /\ tstate' = [tstate EXCEPT ![t] = "RUNNING"]
  /\ waiters' = IF tstate[t] = "RUNNING" THEN waiters ELSE Unlinked(t)
  /\ UNCHANGED <<dead, siglock, cpulock, tmo, timedout, snd, use>>

----------------------------------------------------------------------------
(* Sending: ksignal_sendone, ksignal_sendn, ksignal_sendall *)

Job(mode, s, n) == [mode |-> mode, sig |-> s, left |-> n, task |-> NULL]

\* The send that remains after one ksignal_sendone of job j returned e.
After(j, e) ==
  CASE j.mode = "one" -> IF e = "KS_UNCHANGED" THEN [j EXCEPT !.task = NULL] ELSE NoSend
    [] j.mode = "n"   -> IF j.left <= 1 THEN NoSend
                         ELSE [j EXCEPT !.left = @ - 1, !.task = NULL]
    [] j.mode = "all" -> IF e = "KS_EMPTY" THEN NoSend ELSE [j EXCEPT !.task = NULL]
    [] OTHER          -> NoSend

\* _ksignal_popone_andunlock_c for job j of task t, under the signal's lock.
Pop(t, j) ==
  IF waiters[j.sig] = <<>>
  THEN /\ snd' = [snd EXCEPT ![t] = After(j, "KS_EMPTY")]
       /\ UNCHANGED waiters
  ELSE /\ snd' = [snd EXCEPT ![t] = [j EXCEPT !.task = Head(waiters[j.sig])]]
       /\ waiters' = [waiters EXCEPT ![j.sig] = Tail(@)]

\* Task t locks the signal and pops the next slot.
SendPop(t) ==
  /\ Runs(t)
  /\ Sending(t)
  /\ snd[t].task = NULL
  /\ snd[t].sig \notin siglock
  /\ Pop(t, snd[t])
  /\ UNCHANGED <<dead, siglock, cpulock, tstate, tmo, timedout, wasintr, termreq, use>>

\* ktask_reschedule_ex for the task u that t popped: KS_UNCHANGED if u already
\* runs, otherwise u leaves every signal it waits for and is scheduled.
SendReschedule(t) ==
  /\ Runs(t)
  /\ Sending(t)
  /\ cpulock = NULL
  /\ snd[t].task # NULL
  /\ LET u == snd[t].task IN
       IF tstate[u] = "RUNNING"
       THEN /\ snd' = [snd EXCEPT ![t] = After(@, "KS_UNCHANGED")]
            /\ UNCHANGED <<waiters, tstate>>
       ELSE /\ snd' = [snd EXCEPT ![t] = After(@, "KE_OK")]
            /\ waiters' = Unlinked(u)
            /\ tstate' = [tstate EXCEPT ![u] = "RUNNING"]
  /\ UNCHANGED <<dead, siglock, cpulock, tmo, timedout, wasintr, termreq, use>>

SendStep(t) == SendPop(t) \/ SendReschedule(t)

\* A call that released what it guards and goes on to send: the lock of the
\* signal is dropped before the first ksignal_sendone takes it again.
BeginSend(t, mode, s, n) ==
  /\ snd' = [snd EXCEPT ![t] = IF mode = "n" /\ n = 0 THEN NoSend ELSE Job(mode, s, n)]
  /\ UNCHANGED <<waiters, dead, siglock, cpulock, tstate, tmo, timedout, wasintr,
                 termreq, use>>

\* As BeginSend, but the first pop happens before the lock is dropped.
BeginSendLocked(t, mode, s) ==
  /\ Pop(t, Job(mode, s, 0))
  /\ UNCHANGED <<dead, siglock, cpulock, tstate, tmo, timedout, wasintr, termreq, use>>

\* Mutant: a close wakes one task.
CloseSigOne(t, s) ==
  /\ dead' = dead \cup {s}
  /\ snd' = [snd EXCEPT ![t] = Job("one", s, 0)]
  /\ UNCHANGED <<waiters, siglock, cpulock, tstate, tmo, timedout, wasintr, termreq, use>>

\* ksignal_close of a signal that is not dead: mark it, then wake everybody.
CloseSig(t, s) ==
  /\ dead' = dead \cup {s}
  /\ snd' = [snd EXCEPT ![t] = Job("all", s, 0)]
  /\ UNCHANGED <<waiters, siglock, cpulock, tstate, tmo, timedout, wasintr, termreq, use>>

\* ksignal_reset of a dead signal.
ResetSig(s) ==
  /\ dead' = dead \ {s}
  /\ UNCHANGED <<waiters, siglock, cpulock, tstate, tmo, timedout, wasintr,
                 termreq, snd, use>>

----------------------------------------------------------------------------
\* The tasks a wake-up is on its way to: popped by a sender that has not yet
\* rescheduled them.
Popped == {snd[t].task : t \in Tasks} \ {NULL}

\* Task t sleeps and its slot is on signal s.
WaitsFor(t, s) == tstate[t] # "RUNNING" /\ t \in Range(waiters[s])

\* A send to s has pops left to do.
SendTo(t, s) == Sending(t) /\ snd[t].sig = s

\* ksignal_close wakes everybody: a slot is queued on a dead signal, be it of a task
\* that sleeps there or one that a timeout left behind, only while the close is
\* still at work.
DeadDrained ==
  \A s \in dead : \A t \in Range(waiters[s]) :
     \E u \in Tasks : SendTo(u, s) /\ snd[u].mode = "all"
============================================================================
