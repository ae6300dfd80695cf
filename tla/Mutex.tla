------------------------------- MODULE Mutex -------------------------------
(***************************************************************************)
(* struct kmutex (include/kos/kernel/mutex.h,                              *)
(* src/kernel/sched/sync/mutex.c.inl).  m_locked is taken and released     *)
(* with atomic operations and without the lock of m_sig, which only guards *)
(* the queue of the tasks that wait for the mutex.                         *)
(***************************************************************************)
EXTENDS KSignal

CONSTANT
  m_sig  \* the signal of the mutex

MutexCalls == {"lock", "trylock", "timedlock", "close", "reset"}

\* A use: the functions called, whether other tasks try to terminate the
\* clients, and how many calls, kmutex_unlock not counted, each task makes (a bound).
ASSUME MutexAssumption ==
  /\ m_sig \in Sigs
  /\ \A u \in Uses : u.n \in Nat

VARIABLES
  m_locked,  \* m_locked # 0
  mxpc,        \* where each task is
  timed,     \* the tasks whose lock call has a timeout
  mxbudget     \* how many more calls each task makes

mxvars == <<m_locked, mxpc, timed, mxbudget>>
mutexvars == <<sigvars, mxvars>>

\* In a lock call: "try" is before the compare-exchange, "recv" after it failed
\* and before the signal is locked, "wait" asleep.
InLock == {"try", "recv", "wait"}
MxPlaces == {"idle", "held"} \cup InLock

MutexTypeOK ==
  /\ m_locked \in BOOLEAN
  /\ mxpc \in [Tasks -> MxPlaces]
  /\ timed \subseteq Tasks
  /\ mxbudget \in [Tasks -> Nat]

\* The type invariant of the mutex and of the signals.
MxTypeOK == SigTypeOK /\ MutexTypeOK

MxInit ==
  /\ SigInit
  /\ m_locked = FALSE
  /\ mxpc = [t \in Tasks |-> "idle"]
  /\ timed = {}
  /\ mxbudget = [t \in Tasks |-> use.n]

----------------------------------------------------------------------------
MxAt(t, p) == mxpc[t] = p /\ Free(t)

MxPay(t, c) ==
  /\ c \in use.calls
  /\ mxbudget[t] > 0
  /\ mxbudget' = [mxbudget EXCEPT ![t] = @ - 1]

MxGoto(t, p) == mxpc' = [mxpc EXCEPT ![t] = p]

\* A client calls kmutex_lock or kmutex_timedlock.
Enter(t) ==
  /\ MxAt(t, "idle")
  /\ \/ MxPay(t, "lock") /\ timed' = timed \ {t}
     \/ MxPay(t, "timedlock") /\ timed' = timed \cup {t}
  /\ MxGoto(t, "try")
  /\ UNCHANGED <<sigvars, m_locked>>

\* The compare-exchange at the head of the loop.
CmpXch(t) ==
  /\ MxAt(t, "try")
  /\ MxGoto(t, IF m_locked THEN "recv" ELSE "held")
  /\ m_locked' = TRUE
  /\ UNCHANGED <<sigvars, timed, mxbudget>>

\* ksignal_recv or ksignal_timedrecv: the mutex is not looked at again.
MxReceive(t) ==
  /\ MxAt(t, "recv")
  /\ m_sig \notin siglock
  /\ \E r \in RecvResults :
       /\ Recv(m_sig, t, t \in timed, r)
       /\ MxGoto(t, IF r = "blocked" THEN "wait" ELSE "idle")
  /\ UNCHANGED <<m_locked, timed, mxbudget>>

\* The receive returns; the loop goes on unless it failed.
LockWoken(t) ==
  /\ mxpc[t] = "wait"
  /\ \E r \in WakeResults :
       /\ Woken(t, r)
       /\ MxGoto(t, IF r = "KE_OK" THEN "try" ELSE "idle")
  /\ UNCHANGED <<m_locked, timed, mxbudget>>

\* Mutant: the old value of m_locked is not tested.
TryLockAlways(t) ==
  /\ MxAt(t, "idle")
  /\ MxPay(t, "trylock")
  /\ m_locked' = TRUE
  /\ MxGoto(t, "held")
  /\ UNCHANGED <<sigvars, timed>>

\* kmutex_trylock; a failing call changes nothing.
TryLock(t) ==
  /\ MxAt(t, "idle")
  /\ MxPay(t, "trylock")
  /\ ~m_locked
  /\ m_locked' = TRUE
  /\ MxGoto(t, "held")
  /\ UNCHANGED <<sigvars, timed>>

\* kmutex_unlock: the store, and then one waiting task is woken, passing over
\* tasks that already run.
Unlock(t) ==
  /\ MxAt(t, "held")
  /\ m_locked' = FALSE
  /\ BeginSend(t, "one", m_sig, 0)
  /\ MxGoto(t, "idle")
  /\ UNCHANGED <<timed, mxbudget>>

\* kmutex_close, by the holder or by anybody else.
MxClose(t) ==
  /\ mxpc[t] \in {"idle", "held"}
  /\ Free(t)
  /\ MxPay(t, "close")
  /\ m_sig \notin siglock
  /\ m_sig \notin dead
  /\ m_locked' = TRUE
  /\ CloseSig(t, m_sig)
  /\ UNCHANGED <<mxpc, timed>>

\* kmutex_reset.
MxReset(t) ==
  /\ MxAt(t, "idle")
  /\ MxPay(t, "reset")
  /\ m_sig \notin siglock
  /\ m_sig \in dead
  /\ m_locked' = FALSE
  /\ ResetSig(m_sig)
  /\ UNCHANGED <<mxpc, timed>>

----------------------------------------------------------------------------
MxStep(t) ==
  \/ CmpXch(t) \/ MxReceive(t) \/ LockWoken(t) \/ Unlock(t)
  \/ SendStep(t) /\ UNCHANGED mxvars

MxClientCall(t) == Enter(t) \/ TryLock(t) \/ MxClose(t) \/ MxReset(t)

MxEnvironment(t) ==
  /\ \/ Tick(t)
     \/ use.intr /\ Interrupt(t)
  /\ UNCHANGED mxvars

MxNext == \E t \in Tasks : MxStep(t) \/ MxClientCall(t) \/ MxEnvironment(t)

MxSpec == MxInit /\ [][MxNext]_mutexvars

----------------------------------------------------------------------------
Holders == {t \in Tasks : mxpc[t] = "held"}

\* "The caller is now holding an exclusive lock on the mutex" (kmutex_lock): as
\* long as nobody closes it, one task at most holds the mutex, and m_locked
\* says whether one does, so the "Lock not held" assertion of kmutex_unlock
\* holds.
Exclusion ==
  use.calls \cap {"close", "reset"} = {} =>
    Cardinality(Holders) <= 1 /\ (m_locked <=> Holders # {})

\* kmutex_close wakes everybody: nobody sleeps on a closed mutex except while
\* the close is still waking the tasks that wait for it.
ClosedWakesAll ==
  m_sig \in dead =>
    \A t \in Tasks : WaitsFor(t, m_sig) =>
       \E u \in Tasks : SendTo(u, m_sig) /\ snd[u].mode = "all"

\* The point of checking under the signal's lock: a task sleeps on the mutex
\* only while somebody holds it or is about to wake a task.
NoLostWakeup ==
  ~m_locked => \A t \in Tasks : WaitsFor(t, m_sig) => \E u \in Tasks : SendTo(u, m_sig)

\* Whoever waits for a mutex that is closed is on the way out.
ClosedMutexEmpties == MxTypeOK /\ ClosedWakesAll
============================================================================
