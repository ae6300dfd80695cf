------------------------------- MODULE RWLock -------------------------------
(***************************************************************************)
(* struct krwlock: the kernel's read/write lock                            *)
(* (include/kos/kernel/rwlock.h, src/kernel/sched/sync/rwlock.c.inl).      *)
(* Every region of a function that holds the lock of rw_sig is one action; *)
(* a function that blocks has one action up to the receive, one for the    *)
(* return from it, and goes back to its label 'again'.                     *)
(***************************************************************************)
EXTENDS KSignal

CONSTANT
  rw_sig  \* the lock's signal

RWCalls == {"beginread", "beginwrite", "trybeginread", "trybeginwrite", "upgrade",
            "atomic_upgrade", "tryupgrade", "downgrade", "end", "close", "tryclose",
            "reset"}

\* A use: the functions called, whether the plain or the timed versions,
\* whether other tasks try to terminate the clients, and how many calls, releases
\* not counted, each task makes (a bound).
ASSUME RWAssumption ==
  /\ rw_sig \in Sigs
  /\ Uses \subseteq [calls : SUBSET RWCalls, timed : SUBSET BOOLEAN, intr : BOOLEAN, n : Nat]

VARIABLES
  readc,      \* rw_readc
  wmode,      \* KRWLOCK_FLAG_WRITEMODE
  pc,         \* where each task is
  call,       \* the call a task inside krwlock_begin*, upgrade or close is making
  timed,      \* whether that call has a timeout
  budget      \* how many more calls each task makes

rwvars == <<readc, wmode, pc, call, timed, budget>>
vars == <<sigvars, rwvars>>

Places == {"idle", "beginread", "beginwrite", "readwait", "writewait", "upwait",
           "relock", "reading", "writing", "closing"}

LockTypeOK ==
  /\ readc \in Nat
  /\ wmode \in BOOLEAN
  /\ pc \in [Tasks -> Places]
  /\ call \in [Tasks -> RWCalls \cup {"none"}]
  /\ timed \in [Tasks -> BOOLEAN]
  /\ budget \in [Tasks -> Nat]

\* The type invariant of the lock and of the signals.
TypeOK == SigTypeOK /\ LockTypeOK

Init ==
  /\ SigInit
  /\ readc = 0
  /\ wmode = FALSE
  /\ pc = [t \in Tasks |-> "idle"]
  /\ call = [t \in Tasks |-> "none"]
  /\ timed = [t \in Tasks |-> FALSE]
  /\ budget = [t \in Tasks |-> use.n]

----------------------------------------------------------------------------
\* Task t is at p, executes, and the lock of rw_sig can be taken.
At(t, p) == pc[t] = p /\ Free(t) /\ rw_sig \notin siglock

\* Task t makes call c now.
Pay(t, c) ==
  /\ c \in use.calls
  /\ budget[t] > 0
  /\ budget' = [budget EXCEPT ![t] = @ - 1]

Goto(t, p) == pc' = [pc EXCEPT ![t] = p]

\* Task t leaves the call it is in, arriving at p.
Leave(t, p) ==
  /\ Goto(t, p)
  /\ call' = [call EXCEPT ![t] = "none"]
  /\ timed' = [timed EXCEPT ![t] = FALSE]

\* Mutant: readers are not looked at.
UnheldByWriters == ~wmode

\* Neither in write mode nor being read.
Unheld == ~wmode /\ readc = 0

\* The task blocks on rw_sig and waits at p, or returns the error at once.
RecvOrFail(t, tm, p) ==
  \E r \in RecvResults :
     /\ Recv(rw_sig, t, tm, r)
     /\ IF r = "blocked" THEN Goto(t, p) /\ UNCHANGED <<call, timed>>
                         ELSE Leave(t, "idle")

\* The task returns from its receive: an error ends the call, else it goes on at p.
Resume(t, w, p) ==
  /\ pc[t] = w
  /\ \E r \in WakeResults :
       /\ Woken(t, r)
       /\ IF r = "KE_OK" THEN Goto(t, p) /\ UNCHANGED <<call, timed>>
          ELSE Leave(t, "idle")
  /\ UNCHANGED <<readc, wmode, budget>>

----------------------------------------------------------------------------
\* A client calls one of the functions that may block.
Enter(t, c, tm) ==
  /\ pc[t] = "idle"
  /\ Free(t)
  /\ Pay(t, c)
  /\ Goto(t, IF c = "beginread" THEN "beginread" ELSE "beginwrite")
  /\ call' = [call EXCEPT ![t] = c]
  /\ timed' = [timed EXCEPT ![t] = tm]
  /\ UNCHANGED <<sigvars, readc, wmode>>

\* krwlock_beginread and krwlock_timedbeginread, from 'again' on.
BeginRead(t) ==
  /\ At(t, "beginread")
  /\ IF wmode THEN RecvOrFail(t, timed[t], "readwait") /\ UNCHANGED readc
     ELSE readc' = readc + 1 /\ Leave(t, "reading") /\ UNCHANGED sigvars
  /\ UNCHANGED <<wmode, budget>>

\* krwlock_beginwrite and krwlock_timedbeginwrite, from 'again' on; also the
\* first half of krwlock_close, and what krwlock_upgrade falls back to.
BeginWrite(t) ==
  /\ At(t, "beginwrite")
  /\ IF ~Unheld THEN RecvOrFail(t, timed[t], "writewait") /\ UNCHANGED wmode
     ELSE /\ wmode' = TRUE
          /\ Leave(t, IF call[t] = "close" THEN "closing" ELSE "writing")
          /\ UNCHANGED sigvars
  /\ UNCHANGED <<readc, budget>>

ReadWoken(t) == Resume(t, "readwait", "beginread")
WriteWoken(t) == Resume(t, "writewait", "beginwrite")
UpgradeWoken(t) == Resume(t, "upwait", "relock")

\* krwlock_trybeginread; a failing call changes nothing.
TryBeginRead(t) ==
  /\ At(t, "idle")
  /\ Pay(t, "trybeginread")
  /\ ~wmode
  /\ readc' = readc + 1
  /\ Goto(t, "reading")
  /\ UNCHANGED <<sigvars, wmode, call, timed>>

\* krwlock_trybeginwrite, and krwlock_tryclose up to its write lock.
TryBeginWrite(t, c) ==
  /\ At(t, "idle")
  /\ Pay(t, c)
  /\ Unheld
  /\ wmode' = TRUE
  /\ Goto(t, IF c = "tryclose" THEN "closing" ELSE "writing")
  /\ UNCHANGED <<sigvars, readc, call, timed>>

----------------------------------------------------------------------------
\* Mutant: the counter is tested before it is decremented.
EndReadSilent(t) ==
  /\ At(t, "reading")
  /\ readc' = readc - 1
  /\ IF readc = 0 THEN BeginSendLocked(t, "one", rw_sig) ELSE UNCHANGED sigvars
  /\ Goto(t, "idle")
  /\ UNCHANGED <<wmode, call, timed, budget>>

\* krwlock_endread: the last reader wakes one task, its first pop still under
\* the lock that guarded the decrement.
EndRead(t) ==
  /\ At(t, "reading")
  /\ readc' = readc - 1
  /\ IF readc = 1 THEN BeginSendLocked(t, "one", rw_sig) ELSE UNCHANGED sigvars
  /\ Goto(t, "idle")
  /\ UNCHANGED <<wmode, call, timed, budget>>

\* krwlock_endwrite: leave write mode, wake everybody.
EndWrite(t) ==
  /\ At(t, "writing")
  /\ wmode' = FALSE
  /\ BeginSend(t, "all", rw_sig, 0)
  /\ Goto(t, "idle")
  /\ UNCHANGED <<readc, call, timed, budget>>

\* krwlock_end: decides by the lock's mode, not by what the caller holds.
End(t) ==
  /\ "end" \in use.calls
  /\ At(t, "reading") \/ At(t, "writing")
  /\ wmode' = FALSE
  /\ readc' = IF wmode THEN readc ELSE readc - 1
  /\ IF readc' = 0 THEN BeginSend(t, "all", rw_sig, 0) ELSE UNCHANGED sigvars
  /\ Goto(t, "idle")
  /\ UNCHANGED <<call, timed, budget>>

\* krwlock_downgrade
Downgrade(t) ==
  /\ At(t, "writing")
  /\ Pay(t, "downgrade")
  /\ wmode' = FALSE
  /\ readc' = 1
  /\ BeginSend(t, "all", rw_sig, 0)
  /\ Goto(t, "reading")
  /\ UNCHANGED <<call, timed>>

\* krwlock_atomic_upgrade, krwlock_atomic_timedupgrade, and the same call made by
\* krwlock_upgrade and krwlock_timedupgrade, up to the receive.
Upgrade(t, c, tm) ==
  /\ At(t, "reading")
  /\ Pay(t, c)
  /\ IF readc = 1
     THEN /\ readc' = 0
          /\ wmode' = TRUE
          /\ Goto(t, "writing")
          /\ UNCHANGED <<sigvars, call, timed>>
     ELSE /\ readc' = readc - 1
          /\ \E r \in RecvResults :
               /\ Recv(rw_sig, t, tm, r)
               /\ IF r # "blocked" THEN Leave(t, "idle")
                  ELSE /\ Goto(t, "upwait")
                       /\ call' = [call EXCEPT ![t] = c]
                       /\ timed' = [timed EXCEPT ![t] = tm]
          /\ UNCHANGED wmode

\* The rest of krwlock_atomic_upgrade, after the signal was received; where it
\* returns KE_WOULDBLOCK, krwlock_upgrade goes on with krwlock_beginwrite.
UpgradeRelock(t) ==
  /\ At(t, "relock")
  /\ IF rw_sig \in dead
     THEN Leave(t, "idle") /\ UNCHANGED wmode
     ELSE IF Unheld
     THEN wmode' = TRUE /\ Leave(t, "writing")
     ELSE /\ IF call[t] = "upgrade" THEN Goto(t, "beginwrite") /\ UNCHANGED <<call, timed>>
             ELSE Leave(t, "idle")
          /\ UNCHANGED wmode
  /\ UNCHANGED <<sigvars, readc, budget>>

\* krwlock_tryupgrade; a failing call changes nothing.
TryUpgrade(t) ==
  /\ At(t, "reading")
  /\ Pay(t, "tryupgrade")
  /\ readc = 1
  /\ readc' = 0
  /\ wmode' = TRUE
  /\ Goto(t, "writing")
  /\ UNCHANGED <<sigvars, call, timed>>

\* _krwlock_endwrite_andclose: the write mode stays, the signal dies.
Close(t) ==
  /\ At(t, "closing")
  /\ IF rw_sig \in dead THEN UNCHANGED sigvars ELSE CloseSig(t, rw_sig)
  /\ Goto(t, "idle")
  /\ UNCHANGED <<readc, wmode, call, timed, budget>>

\* krwlock_reset: only KSIGNAL_FLAG_DEAD is cleared.
Reset(t) ==
  /\ At(t, "idle")
  /\ Pay(t, "reset")
  /\ rw_sig \in dead
  /\ ResetSig(rw_sig)
  /\ UNCHANGED <<readc, wmode, pc, call, timed>>

----------------------------------------------------------------------------
\* What a task does inside its calls, and the releases it owes.
Step(t) ==
  \/ BeginRead(t) \/ BeginWrite(t)
  \/ ReadWoken(t) \/ WriteWoken(t) \/ UpgradeWoken(t) \/ UpgradeRelock(t)
  \/ EndRead(t) \/ EndWrite(t) \/ End(t) \/ Close(t)
  \/ SendStep(t) /\ UNCHANGED rwvars

\* The calls a client is free to make or not.
ClientCall(t) ==
  \/ \E c \in {"beginread", "beginwrite", "close"}, tm \in use.timed : Enter(t, c, tm)
  \/ \E c \in {"upgrade", "atomic_upgrade"}, tm \in use.timed : Upgrade(t, c, tm)
  \/ \E c \in {"trybeginwrite", "tryclose"} : TryBeginWrite(t, c)
  \/ TryBeginRead(t) \/ TryUpgrade(t) \/ Downgrade(t) \/ Reset(t)

\* The timer and other tasks.
Environment(t) ==
  /\ \/ Tick(t)
     \/ use.intr /\ Interrupt(t)
  /\ UNCHANGED rwvars

Next == \E t \in Tasks : Step(t) \/ ClientCall(t) \/ Environment(t)

Spec == Init /\ [][Next]_vars

\* The scheduler is round-robin and the timer keeps ticking; whoever holds the
\* lock eventually releases it.
FairSpec == Spec /\ \A t \in Tasks : WF_vars(Step(t)) /\ WF_vars(Tick(t) /\ UNCHANGED rwvars)
----------------------------------------------------------------------------
Readers == {t \in Tasks : pc[t] = "reading"}
Writers == {t \in Tasks : pc[t] \in {"writing", "closing"}}

\* Inside a call that has not yet returned.
Inside == {"beginread", "beginwrite", "readwait", "writewait", "upwait", "relock"}

Asleep(t) == tstate[t] # "RUNNING"

\* A task that will look at the lock again on its own: it is on its way to its
\* next attempt, or it was woken and its receive will report success.
Retrying(t) ==
  /\ ~Asleep(t)
  /\ \/ pc[t] \in {"beginread", "beginwrite", "relock"}
     \/ pc[t] \in {"readwait", "writewait", "upwait"} /\ WakeResult(t) = "KE_OK"

\* A task holding the write lock (krwlock_beginwrite, the upgrades or
\* krwlock_close returned success to it) is alone: no other writer, no reader.
Exclusion == \A t \in Writers : Writers = {t} /\ Readers = {}

\* rw_readc counts exactly the tasks that hold a read lock, so the assertions
\* of krwlock_endread and krwlock_*upgrade hold and the counter cannot wrap.
ReadersCounted == readc = Cardinality(Readers)

\* The assertions of krwlock_reset: a closed lock is in write mode and has no
\* readers, whatever was going on when it was closed.
ClosedInWriteMode == rw_sig \in dead => wmode /\ readc = 0

\* Nobody sleeps on a lock that is free: if tasks are asleep, the lock is held, or
\* a wake-up is under way, or a task that will retry (and later pass the lock on)
\* is.  A sleeping reader needs more than that when the lock is not in write mode,
\* because krwlock_endread wakes one task only: either it is the one, or there is
\* a krwlock_endwrite, krwlock_end or krwlock_downgrade that has not yet woken
\* everybody.  Tasks are not interrupted: the one that krwlock_endread wakes could
\* then leave without passing the wake-up on.
NoLostWakeup ==
  ~use.intr =>
  /\ (Unheld /\ \E t \in Tasks : Asleep(t)) =>
        \E t \in Tasks : SendTo(t, rw_sig) \/ Retrying(t)
  /\ \A t \in Tasks : (~wmode /\ Asleep(t) /\ pc[t] = "readwait") =>
        \/ t \in Popped
        \/ \E u \in Tasks : SendTo(u, rw_sig) /\ snd[u].mode = "all"

\* No way out of a call loses the write lock: a lock in write mode is held by
\* somebody or closed, as long as no closed lock is reset (krwlock_reset leaves
\* the write mode set).
WriteModeOwned ==
  "reset" \notin use.calls /\ wmode => Writers # {} \/ rw_sig \in dead

\* Every krwlock_begin*, upgrade or close that is called eventually returns.
CallsReturn == \A t \in Tasks : pc[t] \in Inside ~> pc[t] \notin Inside

\* What the lock's word says is so, through upgrades, downgrades, closes, timeouts and
\* interrupts: writers are alone, readers counted, and closed means write mode.
LockSound == Exclusion /\ ReadersCounted /\ ClosedInWriteMode

\* The lock is always passed on: no way out of a call keeps it, and no task sleeps
\* on a lock that nobody holds or is about to take.
LockPassedOn == TypeOK /\ WriteModeOwned /\ NoLostWakeup
============================================================================
