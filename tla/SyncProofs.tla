---------------------------- MODULE SyncProofs -----------------------------
(***************************************************************************)
(* What Signal, Mutex and CloseLock promise for any number of tasks,       *)
(* signals and calls.                                                      *)
(*                                                                         *)
(* Signals: who sleeps can be reached, who is through has left nothing     *)
(* behind, and a close drains its signal.                                  *)
(*                                                                         *)
(* Mutex: it excludes as long as nobody closes or resets it, and a close   *)
(* wakes everybody, with timeouts and interrupts.                          *)
(*                                                                         *)
(* CloseLock: the operations under way are counted, and none is under way  *)
(* or begins once a close has returned, with timeouts and interrupts.      *)
(***************************************************************************)
EXTENDS Signal, Mutex, CloseLock, KSignalProofs

----------------------------------------------------------------------------
(* Signals *)

\* A task sleeps only inside a receive.
SleepsInside == \A t \in Tasks : want[t] = {} => tstate[t] = "RUNNING"

\* Without timeouts, who runs is in no queue: only a timeout makes a task run
\* without taking its slots away.
RunsUnqueued ==
  TRUE \notin use.timed =>
     \A t \in Tasks : /\ tstate[t] # "WAITINGTMO"
                      /\ tstate[t] = "RUNNING" => \A s \in Sigs : t \notin Range(waiters[s])

\* The inductive invariant.  SigInv has the part that every user of signals shares.
SgIInv ==
  /\ SigInv
  /\ want \in [Tasks -> SUBSET Sigs]
  /\ sgbudget \in [Tasks -> Nat]
  /\ Reachable
  /\ SleepsInside
  /\ RunsUnqueued

\* It holds at the start.
LEMMA SgInitIInv == SgInit => SgIInv
<1>. SUFFICES ASSUME SgInit PROVE SgIInv
  OBVIOUS
<1>1. SigInv
  BY InitSigInv DEF SgInit
<1>2. use.n \in Nat
  BY SignalAssumption DEF SgInit, SigInit
<1>3. Reachable /\ SleepsInside /\ RunsUnqueued
  BY DEF SgInit, SigInit, Reachable, SleepsInside, RunsUnqueued, Range
<1>. QED  BY <1>1, <1>2, <1>3 DEF SgInit, SgIInv

\* A step that puts nobody to sleep keeps the sleepers in reach as long as nobody
\* asleep forgets what it waits for.
LEMMA ReachableKept ==
  ASSUME SgIInv, KeepsReach, WakesOnly,
         \A x \in Tasks : tstate'[x] # "RUNNING" => want'[x] = want[x]
  PROVE  Reachable'
<1>. SUFFICES ASSUME NEW x \in Tasks, tstate'[x] # "RUNNING", x \notin Popped'
              PROVE  want'[x] # {} /\ \A s \in want'[x] : x \in Range(waiters'[s])
  BY DEF Reachable
<1>1. tstate[x] # "RUNNING" /\ x \notin Popped
  BY DEF WakesOnly, KeepsReach
<1>2. want[x] # {} /\ \A s \in want[x] : x \in Range(waiters[s])
  BY <1>1 DEF SgIInv, Reachable
<1>3. want[x] \subseteq Sigs /\ want'[x] = want[x]
  BY DEF SgIInv
<1>. QED  BY <1>2, <1>3 DEF KeepsReach

\* A receive preserves the invariant,
LEMMA ReceiveKeeps ==
  ASSUME SgIInv, NEW t \in Tasks, SgReceive(t)
  PROVE  SgIInv'
<1>1. PICK S \in (SUBSET Sigs) \ {{}}, tm \in use.timed, r \in RecvResults :
        /\ RecvSet(S, t, tm, r)
        /\ want' = [want EXCEPT ![t] = IF r = "blocked" THEN S ELSE {}]
  BY Zenon DEF SgReceive
<1>2. want[t] = {} /\ tstate[t] = "RUNNING" /\ sgbudget' \in [Tasks -> Nat]
  BY DEF SgReceive, Call, Free, Runs, SgIInv
<1>3. /\ SigInv' /\ KeepsReach /\ snd' = snd
      /\ \A x \in Tasks : x # t => tstate'[x] = tstate[x]
      /\ r # "blocked" => waiters' = waiters /\ tstate' = tstate
      /\ r = "blocked" => /\ tstate'[t] # "RUNNING"
                          /\ \A s \in S : t \in Range(waiters'[s])
  BY <1>1, RecvKeeps, Zenon DEF SgIInv
<1>4. /\ want' \in [Tasks -> SUBSET Sigs]
      /\ \A x \in Tasks : x # t => want'[x] = want[x]
      /\ want'[t] = IF r = "blocked" THEN S ELSE {}
  BY <1>1 DEF SgIInv
<1>5. SleepsInside'
  BY <1>1, <1>2, <1>3, <1>4 DEF SgIInv, SleepsInside
<1>6. Reachable'
  <2>. SUFFICES ASSUME NEW x \in Tasks, tstate'[x] # "RUNNING", x \notin Popped'
                PROVE  want'[x] # {} /\ \A s \in want'[x] : x \in Range(waiters'[s])
    BY DEF Reachable
  <2>1. CASE x = t
    BY <1>1, <1>2, <1>3, <1>4, <2>1
  <2>2. CASE x # t
    <3>1. tstate[x] # "RUNNING" /\ x \notin Popped /\ want'[x] = want[x]
      BY <1>3, <1>4, <2>2 DEF KeepsReach
    <3>2. want[x] # {} /\ want[x] \subseteq Sigs /\ \A s \in want[x] : x \in Range(waiters[s])
      BY <3>1 DEF SgIInv, Reachable
    <3>. QED  BY <1>3, <3>1, <3>2 DEF KeepsReach
  <2>. QED  BY <2>1, <2>2
<1>7. RunsUnqueued'
  <2>1. use' = use
    BY <1>1 DEF RecvSet, sigvars
  <2>. SUFFICES ASSUME TRUE \notin use.timed, NEW x \in Tasks
                PROVE  /\ tstate'[x] # "WAITINGTMO"
                       /\ tstate'[x] = "RUNNING" => \A s \in Sigs : x \notin Range(waiters'[s])
    BY <2>1 DEF RunsUnqueued
  <2>2. tm = FALSE
    BY SignalAssumption, Zenon DEF SgIInv, SigInv, SigTypeOK
  <2>3. CASE r # "blocked"
    BY <1>3, <2>3 DEF SgIInv, RunsUnqueued
  <2>4. CASE r = "blocked"
    <3>1. /\ waiters' = Enqueued(S, t)
          /\ tstate' = [tstate EXCEPT ![t] = "WAITING"]
      BY <1>1, <2>2, <2>4 DEF RecvSet
    <3>2. \A s \in Sigs : x \in Range(waiters'[s]) => x \in Range(waiters[s]) \/ x = t
      BY <3>1, EnqueuedFacts, Zenon DEF SgIInv, SigInv
    <3>. QED  BY <3>1, <3>2 DEF SgIInv, SigInv, SigTypeOK, RunsUnqueued
  <2>. QED  BY <2>3, <2>4
<1>. QED  BY <1>2, <1>3, <1>4, <1>5, <1>6, <1>7 DEF SgIInv

\* so does the return from it,
LEMMA ReceiveWokenKeeps ==
  ASSUME SgIInv, NEW t \in Tasks, ReceiveWoken(t)
  PROVE  SgIInv'
<1>1. PICK r \in WakeResults : Woken(t, r)
  BY DEF ReceiveWoken
<1>2. /\ SigInv' /\ KeepsReach /\ WakesOnly
      /\ waiters' = waiters /\ tstate' = tstate
  BY <1>1, WokenKeeps DEF SgIInv
<1>3. tstate[t] = "RUNNING" /\ use' = use
  BY <1>1 DEF Woken, Runs
<1>4. /\ want' \in [Tasks -> SUBSET Sigs]
      /\ \A x \in Tasks : x # t => want'[x] = want[x]
      /\ sgbudget' = sgbudget
  BY DEF ReceiveWoken, SgIInv
<1>5. Reachable'
  BY <1>2, <1>3, <1>4, ReachableKept
<1>6. SleepsInside' /\ RunsUnqueued'
  BY <1>2, <1>3, <1>4, Zenon DEF SgIInv, SleepsInside, RunsUnqueued
<1>. QED  BY <1>2, <1>4, <1>5, <1>6 DEF SgIInv

\* and so does a step that at most wakes tasks, and takes them out of the queues
\* when it does.
LEMMA WakingKeeps ==
  ASSUME SgIInv, SigInv', KeepsReach, WakesOnly, want' = want, sgbudget' \in [Tasks -> Nat],
         use' = use,
         \A s \in Sigs : \A x : x \in Range(waiters'[s]) => x \in Range(waiters[s]),
         TRUE \notin use.timed => \A x \in Tasks :
            tstate'[x] # tstate[x] =>
               tstate'[x] = "RUNNING" /\ \A s \in Sigs : x \notin Range(waiters'[s])
  PROVE  SgIInv'
<1>1. Reachable'
  BY ReachableKept
<1>2. SleepsInside'
  BY DEF SgIInv, SleepsInside, WakesOnly
<1>3. RunsUnqueued'
  BY DEF SgIInv, RunsUnqueued
<1>. QED  BY <1>1, <1>2, <1>3 DEF SgIInv

\* The two steps of a send,
LEMMA SendStepKeeps ==
  ASSUME SgIInv, NEW t \in Tasks, SendStep(t), UNCHANGED svars
  PROVE  SgIInv'
<1>1. want' = want /\ sgbudget' \in [Tasks -> Nat]
  BY DEF svars, SgIInv
<1>2. use' = use
  BY DEF SendStep, SendPop, SendReschedule
<1>3. CASE SendPop(t)
  <2>1. /\ SigInv' /\ KeepsReach /\ WakesOnly /\ tstate' = tstate
        /\ \A s \in Sigs : \A x : x \in Range(waiters'[s]) => x \in Range(waiters[s])
    BY <1>3, SendPopKeeps DEF SgIInv
  <2>. QED  BY <1>1, <1>2, <2>1, WakingKeeps
<1>4. CASE SendReschedule(t)
  <2>1. /\ SigInv' /\ KeepsReach /\ WakesOnly
        /\ \A s \in Sigs : \A x : x \in Range(waiters'[s]) => x \in Range(waiters[s])
        /\ \A x \in Tasks : x # snd[t].task => tstate'[x] = tstate[x]
        /\ tstate'[snd[t].task] = "RUNNING"
        /\ tstate[snd[t].task] # "RUNNING" => waiters' = Unlinked(snd[t].task)
    BY <1>4, SendRescheduleKeeps DEF SgIInv
  <2>2. ASSUME NEW x \in Tasks, tstate'[x] # tstate[x]
        PROVE  tstate'[x] = "RUNNING" /\ \A s \in Sigs : x \notin Range(waiters'[s])
    <3>1. x = snd[t].task /\ tstate[x] # "RUNNING" /\ waiters' = Unlinked(x)
      BY <2>1, <2>2
    <3>2. \A s \in Sigs : x \notin Range(Unlinked(x)[s])
      BY UnlinkedFacts, Zenon DEF SgIInv, SigInv
    <3>. QED  BY <2>1, <3>1, <3>2
  <2>. QED  BY <1>1, <1>2, <2>1, <2>2, WakingKeeps, Zenon
<1>. QED  BY <1>3, <1>4 DEF SendStep

\* the calls that do not block,
LEMMA CallKeeps ==
  ASSUME SgIInv, NEW t \in Tasks, Send(t) \/ SgClose(t) \/ SgReset(t)
  PROVE  SgIInv'
<1>1. want' = want /\ sgbudget' \in [Tasks -> Nat] /\ ~Sending(t)
  BY DEF Send, SgClose, SgReset, Call, Free, SgIInv
<1>2. CASE Send(t)
  <2>1. PICK s \in Sigs, mode \in SendModes, n \in Nat : BeginSend(t, mode, s, n)
    BY <1>2, SignalAssumption DEF Send, SendModes
  <2>2. /\ SigInv' /\ KeepsReach /\ WakesOnly
        /\ waiters' = waiters /\ tstate' = tstate /\ use' = use
    BY <1>1, <2>1, BeginSendKeeps, Zenon DEF SgIInv, BeginSend
  <2>. QED  BY <1>1, <2>2, WakingKeeps
<1>3. CASE SgClose(t)
  <2>1. PICK s \in Sigs : CloseSig(t, s)
    BY <1>3 DEF SgClose
  <2>2. /\ SigInv' /\ KeepsReach /\ WakesOnly
        /\ waiters' = waiters /\ tstate' = tstate /\ use' = use
    BY <1>1, <2>1, CloseSigKeeps, Zenon DEF SgIInv, CloseSig
  <2>. QED  BY <1>1, <2>2, WakingKeeps
<1>4. CASE SgReset(t)
  <2>1. PICK s \in dead : ResetSig(s)
    BY <1>4 DEF SgReset
  <2>2. /\ SigInv' /\ KeepsReach /\ WakesOnly
        /\ waiters' = waiters /\ tstate' = tstate /\ use' = use
    BY <2>1, ResetSigKeeps DEF SgIInv, ResetSig
  <2>. QED  BY <1>1, <2>2, WakingKeeps
<1>. QED  BY <1>2, <1>3, <1>4

\* and the timer and interrupts preserve it as well.
LEMMA EnvironmentKeeps ==
  ASSUME SgIInv, NEW t \in Tasks, SgEnvironment(t)
  PROVE  SgIInv'
<1>1. want' = want /\ sgbudget' \in [Tasks -> Nat]
  BY DEF SgEnvironment, svars, SgIInv
<1>2. CASE Tick(t)
  <2>1. SigInv' /\ KeepsReach /\ WakesOnly /\ waiters' = waiters /\ use' = use
    BY <1>2, TickKeeps, Zenon DEF SgIInv, Tick
  <2>2. TRUE \in use.timed
    BY <1>2, Zenon DEF Tick, SgIInv, RunsUnqueued
  <2>. QED  BY <1>1, <2>1, <2>2, WakingKeeps, Zenon
<1>3. CASE Interrupt(t)
  <2>1. /\ SigInv' /\ KeepsReach /\ WakesOnly /\ use' = use
        /\ tstate'[t] = "RUNNING"
        /\ \A x \in Tasks : x # t => tstate'[x] = tstate[x]
        /\ \A s \in Sigs : \A x : x \in Range(waiters'[s]) => x \in Range(waiters[s])
        /\ tstate[t] # "RUNNING" => \A s \in Sigs : t \notin Range(waiters'[s])
    BY <1>3, InterruptKeeps, Zenon DEF SgIInv, Interrupt
  <2>. QED  BY <1>1, <2>1, WakingKeeps, Zenon
<1>. QED  BY <1>2, <1>3 DEF SgEnvironment

\* Every step preserves the invariant.
LEMMA SgNextIInv == SgIInv /\ [SgNext]_sgvars => SgIInv'
<1>. SUFFICES ASSUME SgIInv, [SgNext]_sgvars PROVE SgIInv'
  OBVIOUS
<1>1. ASSUME NEW t \in Tasks, SgStep(t) PROVE SgIInv'
  BY <1>1, ReceiveWokenKeeps, SendStepKeeps DEF SgStep
<1>2. ASSUME NEW t \in Tasks, SgClientCall(t) PROVE SgIInv'
  BY <1>2, ReceiveKeeps, CallKeeps DEF SgClientCall
<1>3. ASSUME NEW t \in Tasks, SgEnvironment(t) PROVE SgIInv'
  BY <1>3, EnvironmentKeeps
<1>4. CASE UNCHANGED sgvars
  <2>1. UNCHANGED sigvars /\ UNCHANGED svars
    BY <1>4 DEF sgvars
  <2>2. SigInv' /\ KeepsReach /\ WakesOnly
    BY <2>1, UnchangedKeeps DEF SgIInv
  <2>. QED  BY <2>1, <2>2, WakingKeeps DEF sigvars, svars, SgIInv
<1>. QED  BY <1>1, <1>2, <1>3, <1>4 DEF SgNext

\* ksignal_recv, ksignal_sendone and their variants agree about the queues, for any
\* number of tasks and signals: a sleeping task has a slot on every signal it
\* receives or is about to be rescheduled, and a receive without a timeout leaves no
\* slot behind, however sends, closes, resets and interrupts fall between its steps.
THEOREM QueuesAreSound == SgSpec => []QueuesSound
<1>1. SgIInv => QueuesSound
  <2>. SUFFICES ASSUME SgIInv PROVE QueuesSound
    OBVIOUS
  <2>1. NoStaleSlot
    BY DEF SgIInv, SleepsInside, RunsUnqueued, NoStaleSlot
  <2>. QED  BY <2>1 DEF SgIInv, SigInv, QueuesSound, SgTypeOK
<1>. QED  BY <1>1, SgInitIInv, SgNextIInv, PTL DEF SgSpec

\* ksignal_close leaves nothing queued: when its ksignal_sendall is over, the queue
\* of a dead signal is empty, and stays so until the signal is reset.
THEOREM DeadAreDrained == SgSpec => []DeadDrained
<1>1. SgIInv => DeadDrained
  BY DEF SgIInv, SigInv
<1>. QED  BY <1>1, SgInitIInv, SgNextIInv, PTL DEF SgSpec

----------------------------------------------------------------------------
(* The mutex *)

\* The inductive invariant, Exclusion without counting: m_locked is set exactly
\* when some task holds the mutex, and two holders are the same task.
MxIInv ==
  /\ MutexTypeOK
  /\ m_locked <=> \E t \in Tasks : mxpc[t] = "held"
  /\ \A t, u \in Tasks : mxpc[t] = "held" /\ mxpc[u] = "held" => t = u

\* A new mutex satisfies the invariant.
LEMMA MxInitIInv == MxInit => MxIInv
BY MutexAssumption, Zenon DEF MxInit, SigInit, MxIInv, MutexTypeOK, MxPlaces

\* The compare-exchange of kmutex_lock preserves it,
LEMMA CmpXchKeeps ==
  ASSUME MxIInv, NEW t \in Tasks, CmpXch(t)
  PROVE  MxIInv'
<1>1. MutexTypeOK'
  BY DEF CmpXch, MxGoto, MxIInv, MutexTypeOK, MxPlaces, InLock
<1>2. CASE m_locked
  BY <1>1, <1>2 DEF CmpXch, MxAt, MxGoto, MxIInv, MutexTypeOK
<1>3. CASE ~m_locked
  BY <1>1, <1>3 DEF CmpXch, MxAt, MxGoto, MxIInv, MutexTypeOK
<1>. QED  BY <1>2, <1>3

\* that of kmutex_trylock does,
LEMMA TryLockKeeps ==
  ASSUME MxIInv, NEW t \in Tasks, TryLock(t)
  PROVE  MxIInv'
<1>1. MutexTypeOK'
  BY DEF TryLock, MxPay, MxGoto, MxIInv, MutexTypeOK, MxPlaces, InLock
<1>. QED  BY <1>1 DEF TryLock, MxAt, MxGoto, MxIInv, MutexTypeOK

\* kmutex_unlock does,
LEMMA UnlockKeeps ==
  ASSUME MxIInv, NEW t \in Tasks, Unlock(t)
  PROVE  MxIInv'
<1>1. MutexTypeOK'
  BY Zenon DEF Unlock, MxGoto, MxIInv, MutexTypeOK, MxPlaces, InLock
<1>. QED  BY <1>1 DEF Unlock, MxAt, MxGoto, MxIInv, MutexTypeOK

\* and so does a task that neither had nor gets the mutex.
LEMMA WalkKeeps ==
  ASSUME MxIInv, NEW t \in Tasks, Enter(t) \/ MxReceive(t) \/ LockWoken(t)
  PROVE  MxIInv'
<1>1. MutexTypeOK'
  BY DEF Enter, MxReceive, LockWoken, MxPay, MxGoto, MxIInv, MutexTypeOK, MxPlaces, InLock
<1>2. m_locked' = m_locked /\ mxpc[t] # "held"
  BY DEF Enter, MxReceive, LockWoken, MxAt
<1>3. \E p \in MxPlaces \ {"held"} : mxpc' = [mxpc EXCEPT ![t] = p]
  BY DEF Enter, MxReceive, LockWoken, MxGoto, MxPlaces, InLock
<1>. QED  BY <1>1, <1>2, <1>3 DEF MxIInv, MutexTypeOK

\* Nobody calls kmutex_close or kmutex_reset.
StaysOpen == use.calls \cap {"close", "reset"} = {}

\* Every step then preserves it.
LEMMA MxNextIInv == StaysOpen /\ MxIInv /\ [MxNext]_mutexvars => MxIInv'
<1>. SUFFICES ASSUME StaysOpen, MxIInv, [MxNext]_mutexvars PROVE MxIInv'
  OBVIOUS
<1>0. ASSUME UNCHANGED mxvars PROVE MxIInv'
  BY <1>0 DEF mxvars, MxIInv, MutexTypeOK
<1>1. ASSUME NEW t \in Tasks, MxStep(t) PROVE MxIInv'
  BY <1>0, <1>1, CmpXchKeeps, UnlockKeeps, WalkKeeps DEF MxStep
<1>2. ASSUME NEW t \in Tasks, MxClientCall(t) PROVE MxIInv'
  <2>1. ~MxClose(t) /\ ~MxReset(t)
    BY DEF MxClose, MxReset, MxPay, StaysOpen
  <2>. QED  BY <1>2, <2>1, WalkKeeps, TryLockKeeps DEF MxClientCall
<1>3. ASSUME NEW t \in Tasks, MxEnvironment(t) PROVE MxIInv'
  BY <1>0, <1>3 DEF MxEnvironment
<1>4. CASE UNCHANGED mutexvars
  BY <1>0, <1>4 DEF mutexvars
<1>. QED  BY <1>1, <1>2, <1>3, <1>4 DEF MxNext

\* The use the clients make of the mutex is fixed.
LEMMA MxNextKeepsUse == [MxNext]_mutexvars => use' = use
<1>. SUFFICES ASSUME [MxNext]_mutexvars PROVE use' = use
  OBVIOUS
<1>1. ASSUME NEW t \in Tasks, MxStep(t) PROVE use' = use
  <2>1. CASE MxReceive(t)
    BY <2>1, RecvUndisturbed DEF MxReceive, Undisturbed
  <2>2. CASE LockWoken(t)
    BY <2>2, WokenUndisturbed DEF LockWoken, Undisturbed
  <2>3. CASE Unlock(t) \/ SendStep(t)
    BY <2>3, SendUndisturbed DEF Unlock, Undisturbed
  <2>. QED  BY <1>1, <2>1, <2>2, <2>3 DEF MxStep, CmpXch, sigvars
<1>2. ASSUME NEW t \in Tasks, MxClientCall(t) PROVE use' = use
  BY <1>2 DEF MxClientCall, Enter, TryLock, MxClose, CloseSig, MxReset, ResetSig, sigvars
<1>3. ASSUME NEW t \in Tasks, MxEnvironment(t) PROVE use' = use
  BY <1>3, OutsideUndisturbed DEF MxEnvironment, Undisturbed
<1>4. CASE UNCHANGED mutexvars
  BY <1>4 DEF mutexvars, sigvars
<1>. QED  BY <1>1, <1>2, <1>3, <1>4 DEF MxNext

\* The invariant says that the holders are at most one.
LEMMA IInvExclusion == MxIInv => Exclusion
<1>. SUFFICES ASSUME MxIInv PROVE Exclusion
  OBVIOUS
<1>1. m_locked <=> Holders # {}
  BY DEF MxIInv, Holders
<1>2. CASE Holders = {}
  BY <1>1, <1>2, FS_EmptySet DEF Exclusion
<1>3. CASE Holders # {}
  <2>1. PICK t \in Holders : TRUE
    BY <1>3
  <2>2. Holders = {t}
    BY <2>1 DEF MxIInv, Holders
  <2>3. Cardinality(Holders) = 1
    BY <2>2, FS_Singleton, Zenon
  <2>. QED  BY <1>1, <2>3 DEF Exclusion
<1>. QED  BY <1>2, <1>3

\* kmutex_lock, kmutex_timedlock and kmutex_trylock give the mutex to one task at
\* a time, whatever timeouts and interrupts happen, as long as the mutex is
\* neither closed nor reset.
THEOREM HoldersAreAlone == MxSpec => []Exclusion
<1>1. MxInit => (StaysOpen => MxIInv)
  BY MxInitIInv
<1>2. (StaysOpen => MxIInv) /\ [MxNext]_mutexvars => (StaysOpen => MxIInv)'
  BY MxNextIInv, MxNextKeepsUse DEF StaysOpen
<1>3. (StaysOpen => MxIInv) => Exclusion
  BY IInvExclusion DEF StaysOpen, Exclusion
<1>. QED  BY <1>1, <1>2, <1>3, PTL DEF MxSpec

----------------------------------------------------------------------------
(* Closing *)

\* What the signal of the mutex guarantees, and the types: no condition on the use.
SInv == SigInv /\ MutexTypeOK

\* The calls keep the types of the mutex whoever makes them.
LEMMA NextMutexType == MutexTypeOK /\ [MxNext]_mutexvars => MutexTypeOK'
<1>. SUFFICES ASSUME MutexTypeOK, [MxNext]_mutexvars PROVE MutexTypeOK'
  OBVIOUS
<1>0. ASSUME UNCHANGED mxvars PROVE MutexTypeOK'
  BY <1>0 DEF mxvars, MutexTypeOK
<1>1. ASSUME NEW t \in Tasks, MxStep(t) PROVE MutexTypeOK'
  <2>1. CASE CmpXch(t) \/ Unlock(t)
    BY <2>1, Zenon DEF CmpXch, Unlock, MxGoto, MutexTypeOK, MxPlaces, InLock
  <2>2. CASE MxReceive(t) \/ LockWoken(t)
    BY <2>2 DEF MxReceive, LockWoken, MxGoto, MutexTypeOK, MxPlaces, InLock
  <2>. QED  BY <1>0, <1>1, <2>1, <2>2 DEF MxStep
<1>2. ASSUME NEW t \in Tasks, MxClientCall(t) PROVE MutexTypeOK'
  <2>1. CASE Enter(t)
    <3>1. timed' \subseteq Tasks
      BY <2>1 DEF Enter, MutexTypeOK
    <3>2. mxbudget' \in [Tasks -> Nat]
      BY <2>1 DEF Enter, MxPay, MutexTypeOK
    <3>. QED  BY <2>1, <3>1, <3>2, Zenon DEF Enter, MxGoto, MutexTypeOK, MxPlaces, InLock
  <2>2. CASE TryLock(t)
    BY <2>2 DEF TryLock, MxPay, MxGoto, MutexTypeOK, MxPlaces, InLock
  <2>3. CASE MxClose(t) \/ MxReset(t)
    <3>1. m_locked' \in BOOLEAN /\ mxpc' = mxpc /\ timed' = timed
      BY <2>3, Zenon DEF MxClose, MxReset
    <3>2. mxbudget' \in [Tasks -> Nat]
      BY <2>3 DEF MxClose, MxReset, MxPay, MutexTypeOK
    <3>. QED  BY <3>1, <3>2 DEF MutexTypeOK
  <2>. QED  BY <1>2, <2>1, <2>2, <2>3 DEF MxClientCall
<1>3. ASSUME NEW t \in Tasks, MxEnvironment(t) PROVE MutexTypeOK'
  BY <1>0, <1>3 DEF MxEnvironment
<1>4. CASE UNCHANGED mutexvars
  BY <1>0, <1>4 DEF mutexvars
<1>. QED  BY <1>1, <1>2, <1>3, <1>4 DEF MxNext

\* The mutex uses its signal the way signals are meant to be used: a task starts a
\* send or a close only when it is in no other.
LEMMA NextSigInv == SigInv /\ [MxNext]_mutexvars => SigInv'
<1>. SUFFICES ASSUME SigInv, [MxNext]_mutexvars PROVE SigInv'
  OBVIOUS
<1>0. ASSUME UNCHANGED sigvars PROVE SigInv'
  BY <1>0, UnchangedKeeps
<1>1. ASSUME NEW t \in Tasks, MxStep(t) PROVE SigInv'
  <2>1. CASE CmpXch(t)
    BY <1>0, <2>1 DEF CmpXch
  <2>2. CASE MxReceive(t)
    <3>1. PICK r \in RecvResults : RecvSet({m_sig}, t, t \in timed, r)
      BY <2>2 DEF MxReceive, Recv
    <3>. QED  BY <3>1, RecvKeeps, MutexAssumption
  <2>3. CASE LockWoken(t)
    BY <2>3, WokenKeeps DEF LockWoken
  <2>4. CASE Unlock(t)
    <3>1. ~Sending(t) /\ BeginSend(t, "one", m_sig, 0)
      BY <2>4 DEF Unlock, MxAt, Free
    <3>. QED  BY <3>1, BeginSendKeeps, MutexAssumption DEF SendModes
  <2>5. CASE SendStep(t)
    BY <2>5, SendPopKeeps, SendRescheduleKeeps DEF SendStep
  <2>. QED  BY <1>1, <2>1, <2>2, <2>3, <2>4, <2>5 DEF MxStep
<1>2. ASSUME NEW t \in Tasks, MxClientCall(t) PROVE SigInv'
  <2>1. CASE Enter(t) \/ TryLock(t)
    BY <1>0, <2>1 DEF Enter, TryLock
  <2>2. CASE MxClose(t)
    <3>1. ~Sending(t) /\ CloseSig(t, m_sig)
      BY <2>2 DEF MxClose, Free
    <3>. QED  BY <3>1, CloseSigKeeps, MutexAssumption
  <2>3. CASE MxReset(t)
    BY <2>3, ResetSigKeeps DEF MxReset
  <2>. QED  BY <1>2, <2>1, <2>2, <2>3 DEF MxClientCall
<1>3. ASSUME NEW t \in Tasks, MxEnvironment(t) PROVE SigInv'
  BY <1>3, TickKeeps, InterruptKeeps DEF MxEnvironment
<1>4. CASE UNCHANGED mutexvars
  BY <1>0, <1>4 DEF mutexvars
<1>. QED  BY <1>1, <1>2, <1>3, <1>4 DEF MxNext

\* kmutex_close, by the holder or by anybody else, leaves no task asleep on the
\* mutex: whoever still sleeps on a closed mutex is waited for by the close.
THEOREM ClosedMutexIsEmptied == MxSpec => []ClosedMutexEmpties
<1>1. MxInit => SInv
  BY MxInitIInv, InitSigInv DEF MxInit, SInv, MxIInv
<1>2. SInv /\ [MxNext]_mutexvars => SInv'
  BY NextSigInv, NextMutexType DEF SInv
<1>3. SInv => ClosedMutexEmpties
  BY DEF SInv, SigInv, DeadDrained, WaitsFor, ClosedMutexEmpties, ClosedWakesAll, MxTypeOK
<1>. QED  BY <1>1, <1>2, <1>3, PTL DEF MxSpec

----------------------------------------------------------------------------
(* The close-lock *)

\* cl_opcount is the number of operations under way.
CountInv == CLTypeOK /\ OpsCounted

\* The tasks inside an operation when the tasks are where f says.
OperatingAt(f) == {t \in Tasks : f[t] = "operating"}

\* Operations can be counted.
LEMMA OperatingFinite ==
  ASSUME NEW f
  PROVE  IsFiniteSet(OperatingAt(f)) /\ Cardinality(OperatingAt(f)) \in Nat
BY TasksAssumption, FS_Subset, FS_CardinalityType DEF OperatingAt

\* OperatingAt applied to the current places is Operating.
LEMMA OperatingDef == Operating = OperatingAt(pc)
BY DEF Operating, OperatingAt

\* kcloselock_beginop counts the new operation,
LEMMA BeginOpCounts ==
  ASSUME CountInv, NEW t \in Tasks, BeginOp(t)
  PROVE  CountInv'
<1>1. OperatingAt(pc') = OperatingAt(pc) \cup {t} /\ t \notin OperatingAt(pc)
  BY DEF CountInv, CLTypeOK, BeginOp, At, Goto, OperatingAt
<1>2. Cardinality(OperatingAt(pc')) = Cardinality(OperatingAt(pc)) + 1
  BY <1>1, OperatingFinite, FS_AddElement, Zenon
<1>3. Operating' = OperatingAt(pc')
  BY DEF Operating, OperatingAt
<1>4. OpsCounted'
  BY <1>2, <1>3, OperatingDef DEF CountInv, OpsCounted, BeginOp
<1>5. opcount' \in 0 .. MaxOps
  BY CLAssumption DEF CountInv, CLTypeOK, BeginOp
<1>6. CLTypeOK'
  BY <1>5 DEF CountInv, CLTypeOK, BeginOp, Pay, Goto, Places
<1>. QED  BY <1>4, <1>6 DEF CountInv

\* kcloselock_endop finds one to take away,
LEMMA EndOpCounts ==
  ASSUME CountInv, NEW t \in Tasks, EndOp(t)
  PROVE  CountInv'
<1>1. OperatingAt(pc') = OperatingAt(pc) \ {t} /\ t \in OperatingAt(pc)
  BY DEF CountInv, CLTypeOK, EndOp, At, Goto, OperatingAt
<1>2. Cardinality(OperatingAt(pc')) = Cardinality(OperatingAt(pc)) - 1
  BY <1>1, OperatingFinite, FS_RemoveElement, Zenon
<1>3. Operating' = OperatingAt(pc')
  BY DEF Operating, OperatingAt
<1>4. OpsCounted'
  BY <1>2, <1>3, OperatingDef DEF CountInv, OpsCounted, EndOp
<1>5. Cardinality(OperatingAt(pc)) # 0
  BY <1>1, OperatingFinite, FS_EmptySet
<1>6. opcount # 0
  BY <1>5, OperatingDef DEF CountInv, OpsCounted
<1>7. opcount' \in 0 .. MaxOps
  BY <1>6, CLAssumption DEF CountInv, CLTypeOK, EndOp
<1>8. CLTypeOK'
  BY <1>7 DEF CountInv, CLTypeOK, EndOp, Goto, Places
<1>. QED  BY <1>4, <1>8 DEF CountInv

\* The actions that start and end no operation.
Elsewhere(t) ==
  \/ Close(t) \/ CloseWoken(t) \/ CloseReturn(t)
  \/ TryClose(t)
  \/ TimedClose(t) \/ TimedLoop(t) \/ TimedWoken(t) \/ TimedUndo(t)
  \/ EnterReset(t) \/ Reset(t) \/ ResetWoken(t)

\* Such an action moves its task from one place outside an operation to another,
LEMMA ElsewhereMoves ==
  ASSUME NEW t \in Tasks, Elsewhere(t)
  PROVE  /\ opcount' = opcount
         /\ pc[t] # "operating"
         /\ \E p \in Places \ {"operating"} : pc' = [pc EXCEPT ![t] = p]
<1>1. opcount' = opcount /\ pc[t] # "operating"
  BY Zenon DEF Elsewhere, Close, CloseWoken, CloseReturn, TryClose, TimedClose, TimedLoop, TimedWoken,
         TimedUndo, EnterReset, Reset, ResetWoken, At
<1>2. CASE Close(t) \/ CloseWoken(t) \/ CloseReturn(t) \/ TryClose(t)
  BY <1>1, <1>2, Zenon DEF Close, CloseWoken, CloseReturn, TryClose, Goto, Places
<1>3. CASE TimedClose(t) \/ TimedLoop(t)
  BY <1>1, <1>3, Zenon DEF TimedClose, TimedLoop, TimedTurn, Goto, Places
<1>4. CASE TimedWoken(t) \/ TimedUndo(t)
  BY <1>1, <1>4 DEF TimedWoken, TimedUndo, Goto, Places, WakeResults
<1>5. CASE EnterReset(t) \/ Reset(t) \/ ResetWoken(t)
  BY <1>1, <1>5, Zenon DEF EnterReset, Reset, ResetWoken, Goto, Places
<1>. QED  BY <1>1, <1>2, <1>3, <1>4, <1>5 DEF Elsewhere

\* and so leaves the count right.
LEMMA ElsewhereCounts ==
  ASSUME CountInv, NEW t \in Tasks, Elsewhere(t)
  PROVE  CountInv'
<1>1. /\ opcount' = opcount
      /\ pc[t] # "operating"
      /\ \E p \in Places \ {"operating"} : pc' = [pc EXCEPT ![t] = p]
  BY ElsewhereMoves
<1>2. Operating' = Operating
  BY <1>1 DEF CountInv, CLTypeOK, Operating
<1>3. closing' \in BOOLEAN
  BY Zenon DEF CountInv, CLTypeOK, Elsewhere, Close, CloseWoken, CloseReturn, TryClose, TimedClose,
         TimedLoop, TimedWoken, TimedUndo, EnterReset, Reset, ResetWoken
<1>4. budget' \in [Tasks -> Nat]
  <2>1. budget' = budget \/ \E c \in CLCalls : Pay(t, c)
    BY Zenon DEF Elsewhere, Close, CloseWoken, CloseReturn, TryClose, TimedClose, TimedLoop, TimedWoken,
           TimedUndo, EnterReset, Reset, ResetWoken, CLCalls
  <2>. QED  BY <2>1 DEF Pay, CountInv, CLTypeOK
<1>. QED  BY <1>1, <1>2, <1>3, <1>4, Zenon DEF CountInv, CLTypeOK, OpsCounted

\* A new lock satisfies the invariant,
LEMMA InitCount == Init => CountInv
<1>. SUFFICES ASSUME Init PROVE CountInv
  OBVIOUS
<1>1. Operating = {}
  BY DEF Init, Operating
<1>2. OpsCounted
  BY <1>1, FS_EmptySet DEF Init, OpsCounted
<1>3. opcount \in 0 .. MaxOps
  BY CLAssumption DEF Init
<1>4. CLTypeOK
  BY <1>3, CLAssumption, Zenon DEF Init, SigInit, CLTypeOK, Places
<1>. QED  BY <1>2, <1>4 DEF CountInv

\* every step is one of those above or leaves the lock alone,
LEMMA NextCases ==
  ASSUME [Next]_vars
  PROVE  \/ \E t \in Tasks : BeginOp(t) \/ EndOp(t) \/ Elsewhere(t)
         \/ UNCHANGED clvars
BY DEF Next, Step, ClientCall, Environment, Elsewhere, vars

\* and so preserves it.
LEMMA NextCount == CountInv /\ [Next]_vars => CountInv'
<1>. SUFFICES ASSUME CountInv, [Next]_vars PROVE CountInv'
  OBVIOUS
<1>1. CASE UNCHANGED clvars
  BY <1>1 DEF clvars, CountInv, CLTypeOK, OpsCounted, Operating
<1>. QED  BY <1>1, NextCases, BeginOpCounts, EndOpCounts, ElsewhereCounts

\* cl_opcount counts the operations under way, whatever closes, resets, timeouts
\* and interrupts happen: "Operation lock not held" never fires in
\* kcloselock_endop for a task that began one.
THEOREM OperationsAreCounted == Spec => []OpsCounted
<1>1. CountInv => OpsCounted
  BY DEF CountInv
<1>. QED  BY <1>1, InitCount, NextCount, PTL DEF Spec

----------------------------------------------------------------------------
(* If objects are closed with kcloselock_tryclose and kcloselock_timedclose *)
(* and reset only by who closed them, a close that succeeds is safe.        *)

\* Places of a task that has set KCLOSELOCK_FLAG_CLOSEING and not yet given it up.
Owning == {"timedloop", "timedwait", "timedundo", "closed", "reset"}

\* Places only kcloselock_close and a kcloselock_reset by somebody else reach.
Unused == {"closewait", "closecheck", "closefail", "resetwait"}

\* The inductive invariant: the flag has at most one owner, it is set while it
\* has one, and an owner whose close succeeded saw the count at zero, from where
\* it cannot rise while the flag is set.
SafeInv ==
  /\ CLTypeOK
  /\ \A t \in Tasks : pc[t] \notin Unused
  /\ \A t \in Tasks : pc[t] \in Owning => closing
  /\ \A t, u \in Tasks : pc[t] \in Owning /\ pc[u] \in Owning => t = u
  /\ \A t \in Tasks : pc[t] \in {"closed", "reset"} => opcount = 0

\* One task moves to p and the flag and the count allow it.
LEMMA OwnerMoves ==
  ASSUME SafeInv, CLTypeOK', NEW t \in Tasks, NEW p \in Places \ Unused,
         pc' = [pc EXCEPT ![t] = p],
         \/ closing' = closing
         \/ closing' = TRUE /\ ~closing
         \/ closing' = FALSE /\ pc[t] \in Owning,
         p \in Owning => closing' /\ (pc[t] \in Owning \/ ~closing),
         closing /\ opcount = 0 => opcount' = 0,
         p \in {"closed", "reset"} => opcount' = 0,
         closing' = FALSE => p \notin Owning
  PROVE  SafeInv'
<1>1. \A u \in Tasks : pc'[u] \notin Unused
  BY DEF SafeInv, CLTypeOK
<1>2. \A u \in Tasks : pc'[u] \in Owning => closing'
  BY DEF SafeInv, CLTypeOK
<1>3. \A u, v \in Tasks : pc'[u] \in Owning /\ pc'[v] \in Owning => u = v
  BY DEF SafeInv, CLTypeOK
<1>4. \A u \in Tasks : pc'[u] \in {"closed", "reset"} => opcount' = 0
  BY DEF SafeInv, CLTypeOK, Owning
<1>. QED  BY <1>1, <1>2, <1>3, <1>4 DEF SafeInv

\* kcloselock_beginop and kcloselock_endop preserve the invariant,
LEMMA OperationsSafe ==
  ASSUME SafeInv, CLTypeOK', NEW t \in Tasks, BeginOp(t) \/ EndOp(t)
  PROVE  SafeInv'
<1>1. CASE BeginOp(t)
  <2>1. ~closing /\ closing' = closing /\ pc' = [pc EXCEPT ![t] = "operating"]
    BY <1>1 DEF BeginOp, Goto
  <2>2. "operating" \in Places \ Unused /\ "operating" \notin Owning
    BY DEF Places, Unused, Owning
  <2>. QED  BY <2>1, <2>2, OwnerMoves, Zenon
<1>2. CASE EndOp(t)
  <2>1. closing' = closing /\ pc' = [pc EXCEPT ![t] = "idle"]
    BY <1>2 DEF EndOp, Goto
  <2>2. opcount # 0
    BY <1>2, CLAssumption DEF EndOp, CLTypeOK, SafeInv
  <2>3. "idle" \in Places \ Unused /\ "idle" \notin Owning
    BY DEF Places, Unused, Owning
  <2>. QED  BY <2>1, <2>2, <2>3, OwnerMoves, Zenon
<1>. QED  BY <1>1, <1>2

\* kcloselock_tryclose does,
LEMMA TryCloseSafe ==
  ASSUME SafeInv, CLTypeOK', NEW t \in Tasks, TryClose(t)
  PROVE  SafeInv'
<1>1. /\ ~closing /\ closing' = TRUE /\ opcount = 0 /\ opcount' = opcount
      /\ pc' = [pc EXCEPT ![t] = "closed"]
  BY DEF TryClose, Goto
<1>2. "closed" \in Places \ Unused
  BY DEF Places, Unused
<1>. QED  BY <1>1, <1>2, OwnerMoves, Zenon

\* a turn of the loop of kcloselock_timedclose goes to one of these places,
LEMMA TimedTurnPlaces ==
  ASSUME NEW t \in Tasks, TimedTurn(t)
  PROVE  \E p \in {"closed", "timedwait", "timedundo", "idle"} :
            pc' = [pc EXCEPT ![t] = p] /\ (p = "closed" => opcount = 0)
BY Zenon DEF TimedTurn, Goto

\* all of kcloselock_timedclose preserves the invariant,
LEMMA TimedSafe ==
  ASSUME SafeInv, CLTypeOK', NEW t \in Tasks,
         TimedClose(t) \/ TimedLoop(t) \/ TimedWoken(t) \/ TimedUndo(t)
  PROVE  SafeInv'
<1>0. /\ {"closed", "timedwait", "timedloop", "timedundo", "idle"} \subseteq Places \ Unused
      /\ {"closed", "timedwait", "timedloop", "timedundo"} \subseteq Owning
      /\ "idle" \notin Owning
  BY DEF Places, Unused, Owning
<1>1. CASE TimedClose(t)
  <2>1. ~closing /\ closing' = TRUE /\ opcount' = opcount
    BY <1>1 DEF TimedClose
  <2>2. PICK p \in {"closed", "timedwait", "timedundo", "idle"} :
            pc' = [pc EXCEPT ![t] = p] /\ (p = "closed" => opcount = 0)
    BY <1>1, TimedTurnPlaces DEF TimedClose
  <2>. QED  BY <1>0, <2>1, <2>2, OwnerMoves, Zenon
<1>2. CASE TimedLoop(t)
  <2>1. closing' = closing /\ opcount' = opcount /\ pc[t] \in Owning
    BY <1>0, <1>2 DEF TimedLoop, At
  <2>2. PICK p \in {"closed", "timedwait", "timedundo", "idle"} :
            pc' = [pc EXCEPT ![t] = p] /\ (p = "closed" => opcount = 0)
    BY <1>2, TimedTurnPlaces DEF TimedLoop
  <2>3. closing
    BY <2>1 DEF SafeInv
  <2>. QED  BY <1>0, <2>1, <2>2, <2>3, OwnerMoves, Zenon
<1>3. CASE TimedWoken(t)
  <2>1. closing' = closing /\ opcount' = opcount /\ pc[t] \in Owning
    BY <1>0, <1>3 DEF TimedWoken
  <2>2. PICK p \in {"timedloop", "timedundo", "idle"} : pc' = [pc EXCEPT ![t] = p]
    BY <1>3, Zenon DEF TimedWoken, Goto, WakeResults
  <2>3. closing
    BY <2>1 DEF SafeInv
  <2>. QED  BY <1>0, <2>1, <2>2, <2>3, OwnerMoves, Zenon
<1>4. CASE TimedUndo(t)
  <2>1. /\ closing' = FALSE /\ opcount' = opcount /\ pc[t] \in Owning
        /\ pc' = [pc EXCEPT ![t] = "idle"]
    BY <1>0, <1>4 DEF TimedUndo, At, Goto
  <2>. QED  BY <1>0, <2>1, OwnerMoves, Zenon
<1>. QED  BY <1>1, <1>2, <1>3, <1>4

\* and so does kcloselock_reset by the task that closed the object.
LEMMA ResetSafe ==
  ASSUME SafeInv, CLTypeOK', NEW t \in Tasks, "reset_any" \notin use.calls,
         EnterReset(t) \/ Reset(t)
  PROVE  SafeInv'
<1>0. {"reset", "idle"} \subseteq Places \ Unused /\ {"closed", "reset"} \subseteq Owning
      /\ "idle" \notin Owning
  BY DEF Places, Unused, Owning
<1>1. CASE EnterReset(t)
  <2>1. /\ pc[t] = "closed" /\ pc' = [pc EXCEPT ![t] = "reset"]
        /\ closing' = closing /\ opcount' = opcount
    BY <1>1 DEF EnterReset, Pay, Goto
  <2>2. closing /\ opcount = 0
    BY <1>0, <2>1 DEF SafeInv
  <2>. QED  BY <1>0, <2>1, <2>2, OwnerMoves, Zenon
<1>2. CASE Reset(t)
  <2>1. pc[t] = "reset" /\ opcount = 0
    BY <1>2 DEF Reset, At, SafeInv
  <2>2. closing' = FALSE /\ pc' = [pc EXCEPT ![t] = "idle"] /\ opcount' = opcount
    BY <1>2, <2>1 DEF Reset, Goto
  <2>. QED  BY <1>0, <2>1, <2>2, OwnerMoves, Zenon
<1>. QED  BY <1>1, <1>2

\* A new lock satisfies it,
LEMMA InitSafe == Init => SafeInv
<1>. SUFFICES ASSUME Init PROVE SafeInv
  OBVIOUS
<1>1. CLTypeOK
  BY InitCount DEF CountInv
<1>. QED  BY <1>1 DEF Init, SafeInv, Unused, Owning

\* and every step preserves it.
LEMMA NextSafe == OwnerCloses /\ CountInv /\ SafeInv /\ [Next]_vars => SafeInv'
<1>. SUFFICES ASSUME OwnerCloses, CountInv, SafeInv, [Next]_vars PROVE SafeInv'
  OBVIOUS
<1>1. CLTypeOK'
  BY NextCount DEF CountInv
<1>2. CASE UNCHANGED clvars
  BY <1>1, <1>2 DEF clvars, SafeInv
<1>3. ASSUME NEW t \in Tasks, Elsewhere(t) PROVE SafeInv'
  <2>1. ~Close(t)
    BY Zenon DEF Close, Pay, OwnerCloses
  <2>2. pc[t] \notin Unused
    BY DEF SafeInv
  <2>3. ~(CloseWoken(t) \/ CloseReturn(t) \/ ResetWoken(t))
    BY <2>2 DEF CloseWoken, CloseReturn, ResetWoken, Unused
  <2>. QED  BY <1>1, <1>3, <2>1, <2>3, TryCloseSafe, TimedSafe, ResetSafe DEF Elsewhere, OwnerCloses
<1>. QED  BY <1>1, <1>2, <1>3, NextCases, OperationsSafe

\* The use the clients make of the lock is fixed.
LEMMA NextKeepsUse == [Next]_vars => use' = use
<1>. SUFFICES ASSUME [Next]_vars PROVE use' = use
  OBVIOUS
<1>1. ASSUME NEW t \in Tasks, BeginOp(t) \/ TryClose(t) \/ CloseReturn(t) \/ TimedUndo(t)
                              \/ EnterReset(t)
      PROVE  use' = use
  BY <1>1 DEF BeginOp, TryClose, CloseReturn, TimedUndo, EnterReset, sigvars
<1>2. ASSUME NEW t \in Tasks, EndOp(t) \/ SendStep(t) PROVE use' = use
  BY <1>2, SendUndisturbed DEF EndOp, Undisturbed, sigvars
<1>3. ASSUME NEW t \in Tasks, Close(t) \/ TimedClose(t) \/ TimedLoop(t) \/ Reset(t)
      PROVE  use' = use
  BY <1>3, RecvUndisturbed, Zenon DEF Close, TimedClose, TimedLoop, TimedTurn, Reset, Undisturbed, sigvars
<1>4. ASSUME NEW t \in Tasks, CloseWoken(t) \/ TimedWoken(t) \/ ResetWoken(t) PROVE use' = use
  BY <1>4, WokenUndisturbed DEF CloseWoken, TimedWoken, ResetWoken, Undisturbed
<1>5. ASSUME NEW t \in Tasks, Environment(t) PROVE use' = use
  BY <1>5, OutsideUndisturbed DEF Environment, Undisturbed
<1>6. CASE UNCHANGED vars
  BY <1>6 DEF vars, sigvars
<1>. QED  BY <1>1, <1>2, <1>3, <1>4, <1>5, <1>6, SMTT(20) DEF Next, Step, ClientCall

\* "Once this function returns, it is safe to close the associated object" holds
\* of kcloselock_tryclose and kcloselock_timedclose, whatever timeouts and
\* interrupts happen, if the object is reset only by who closed it.
THEOREM ClosesAreSafe == Spec => []SafeToClose
<1>1. Init => (OwnerCloses => SafeInv)
  BY InitSafe
<1>2. CountInv /\ (OwnerCloses => SafeInv) /\ [Next]_vars => (OwnerCloses => SafeInv)'
  BY NextSafe, NextKeepsUse DEF OwnerCloses
<1>3. (OwnerCloses => SafeInv) => SafeToClose
  BY DEF SafeInv, SafeToClose, ClosedIsIdle, Owning
<1>. QED  BY <1>1, <1>2, <1>3, InitCount, NextCount, PTL DEF Spec

\* The counter of a kcloselock is exact, and a close that looks at it is safe.
THEOREM ClosesAreSound == Spec => []ClosesSound
<1>1. OpsCounted /\ SafeToClose => ClosesSound
  BY DEF ClosesSound
<1>. QED  BY <1>1, OperationsAreCounted, ClosesAreSafe, PTL

----------------------------------------------------------------------------
(* A closing task is woken by the last operation *)

\* The sends of a kcloselock all wake everybody who waits for cl_opsig,
SendsAll == \A u \in Tasks : Sending(u) => snd[u].mode = "all" /\ snd[u].sig = cl_opsig

\* and who sleeps waits for cl_opsig or was popped from its queue.
SleepsListed ==
  \A t \in Tasks : tstate[t] # "RUNNING" => t \in Popped \/ t \in Range(waiters[cl_opsig])

\* The inductive invariant behind CloserWoken: a send to cl_opsig ends only when the
\* queue is empty, and then whoever sleeps has been popped.
WokenInv == SigInv /\ SendsAll /\ SleepsListed /\ CloserWoken

\* A step after which those asleep were asleep before, at the same places, and which
\* neither loses a send before the queue is empty nor ends the last operation
\* without sending.
LEMMA WakingWakes ==
  ASSUME WokenInv, SigInv', KeepsReach, WakesOnly, SendsAll',
         \A x \in Tasks : tstate'[x] # "RUNNING" => pc'[x] = pc[x],
         \A u \in Tasks : SendTo(u, cl_opsig) =>
            SendTo(u, cl_opsig)' \/ Range(waiters[cl_opsig]) = {},
         opcount > 0 => opcount' > 0 \/ \E u \in Tasks : SendTo(u, cl_opsig)'
  PROVE  WokenInv'
<1>1. SleepsListed'
  BY CLAssumption DEF WokenInv, SleepsListed, WakesOnly, KeepsReach
<1>2. ASSUME NEW x \in Tasks, pc'[x] \in {"closewait", "timedwait"}, tstate'[x] # "RUNNING"
      PROVE  opcount' > 0 \/ x \in Popped' \/ \E u \in Tasks : SendTo(u, cl_opsig)'
  <2>1. pc[x] \in {"closewait", "timedwait"} /\ tstate[x] # "RUNNING"
    BY <1>2 DEF WakesOnly
  <2>2. CASE opcount > 0
    BY <2>2
  <2>3. CASE x \in Popped
    BY <1>2, <2>3 DEF KeepsReach
  <2>4. ASSUME NEW u \in Tasks, SendTo(u, cl_opsig), Range(waiters[cl_opsig]) = {}
        PROVE  x \in Popped
    BY <2>1, <2>4 DEF WokenInv, SleepsListed
  <2>. QED  BY <2>1, <2>2, <2>3, <2>4, SMTT(20) DEF WokenInv, CloserWoken
<1>. QED  BY <1>1, <1>2 DEF WokenInv, CloserWoken

\* A receive of cl_opsig while operations are under way.
LEMMA ReceiveWakes ==
  ASSUME WokenInv, NEW t \in Tasks, NEW tm, NEW r, Recv(cl_opsig, t, tm, r),
         opcount > 0, opcount' = opcount,
         \A x \in Tasks : x # t => pc'[x] = pc[x],
         tstate[t] = "RUNNING"
  PROVE  WokenInv'
<1>1. /\ SigInv' /\ KeepsReach /\ snd' = snd
      /\ \A x \in Tasks : x # t => tstate'[x] = tstate[x]
      /\ r # "blocked" => waiters' = waiters /\ tstate' = tstate
      /\ r = "blocked" => t \in Range(waiters'[cl_opsig])
  <2>1. RecvSet({cl_opsig}, t, tm, r) /\ {cl_opsig} \in SUBSET Sigs /\ SigInv
    BY CLAssumption DEF Recv, WokenInv
  <2>. QED  BY <2>1, RecvKeeps, ZenonT(30)
<1>2. SendsAll'
  BY <1>1 DEF WokenInv, SendsAll, Sending
<1>3. SleepsListed'
  BY <1>1, CLAssumption DEF WokenInv, SleepsListed, KeepsReach
<1>4. CloserWoken'
  BY DEF CloserWoken
<1>. QED  BY <1>1, <1>2, <1>3, <1>4 DEF WokenInv

\* kcloselock_endop preserves the invariant: the operation that brings the counter
\* to zero is the one that sends.
LEMMA EndOpWakes ==
  ASSUME WokenInv, CountInv, NEW t \in Tasks, EndOp(t)
  PROVE  WokenInv'
<1>1. /\ pc[t] = "operating" /\ tstate[t] = "RUNNING" /\ ~Sending(t)
      /\ opcount' = opcount - 1
      /\ \A x \in Tasks : x # t => pc'[x] = pc[x]
  BY DEF EndOp, At, Free, Runs, Goto, CountInv, CLTypeOK
<1>2. CASE opcount = 1
  <2>1. BeginSend(t, "all", cl_opsig, 0)
    BY <1>2 DEF EndOp
  <2>2. /\ SigInv' /\ KeepsReach /\ WakesOnly /\ tstate' = tstate
        /\ \A u \in Tasks : u # t => snd'[u] = snd[u]
        /\ snd'[t].mode = "all" /\ snd'[t].sig = cl_opsig
    BY <1>1, <2>1, BeginSendKeeps, CLAssumption DEF WokenInv, SendModes
  <2>3. SendsAll'
    BY <2>2 DEF WokenInv, SendsAll, Sending
  <2>4. \A u \in Tasks : SendTo(u, cl_opsig) => SendTo(u, cl_opsig)'
    BY <1>1, <2>2 DEF SendTo, Sending
  <2>5. SendTo(t, cl_opsig)'
    BY <2>2 DEF SendTo, Sending
  <2>. QED  BY <1>1, <2>2, <2>3, <2>4, <2>5, WakingWakes
<1>3. CASE opcount # 1
  <2>1. UNCHANGED sigvars
    BY <1>3 DEF EndOp
  <2>2. SigInv' /\ KeepsReach /\ WakesOnly /\ tstate' = tstate /\ snd' = snd
    BY <2>1, UnchangedKeeps DEF WokenInv, sigvars
  <2>3. SendsAll' /\ \A u \in Tasks : SendTo(u, cl_opsig) => SendTo(u, cl_opsig)'
    BY <2>2 DEF WokenInv, SendsAll, SendTo, Sending
  <2>4. opcount > 0 => opcount' > 0
    BY <1>1, <1>3, CLAssumption DEF CountInv, CLTypeOK
  <2>. QED  BY <1>1, <2>2, <2>3, <2>4, WakingWakes
<1>. QED  BY <1>2, <1>3

\* So do the steps of a send,
LEMMA SendStepWakes ==
  ASSUME WokenInv, CountInv, NEW t \in Tasks, SendStep(t), UNCHANGED clvars
  PROVE  WokenInv'
<1>1. opcount' = opcount /\ pc' = pc
  BY SMTT(20) DEF clvars
<1>2. snd[t] \in Sends /\ snd[t].mode = "all" /\ snd[t].sig = cl_opsig
  BY SMTT(20) DEF SendStep, SendPop, SendReschedule, WokenInv, SendsAll, SigInv, SigTypeOK
<1>3. CASE SendPop(t)
  <2>1. /\ SigInv' /\ KeepsReach /\ WakesOnly
        /\ \A u \in Tasks : u # t => snd'[u] = snd[u]
        /\ \/ Range(waiters[cl_opsig]) = {} /\ snd'[t] = After(snd[t], "KS_EMPTY")
           \/ snd'[t].mode = "all" /\ snd'[t].sig = cl_opsig
    BY <1>2, <1>3, SendPopKeeps, SMTT(20) DEF WokenInv
  <2>2. SendsAll'
    BY <1>2, <2>1, AfterFacts, SMTT(20) DEF WokenInv, SendsAll, Sending
  <2>3. \A u \in Tasks : SendTo(u, cl_opsig) =>
            SendTo(u, cl_opsig)' \/ Range(waiters[cl_opsig]) = {}
    BY <2>1 DEF SendTo, Sending
  <2>. QED  BY <1>1, <2>1, <2>2, <2>3, WakingWakes, SMTT(20)
<1>4. CASE SendReschedule(t)
  <2>1. /\ SigInv' /\ KeepsReach /\ WakesOnly
        /\ \A u \in Tasks : u # t => snd'[u] = snd[u]
        /\ snd'[t] = After(snd[t], "KS_UNCHANGED") \/ snd'[t] = After(snd[t], "KE_OK")
    BY <1>4, SendRescheduleKeeps DEF WokenInv
  <2>2. snd'[t].mode = "all" /\ snd'[t].sig = cl_opsig
    BY <1>2, <2>1, AfterFacts
  <2>3. SendsAll' /\ \A u \in Tasks : SendTo(u, cl_opsig) => SendTo(u, cl_opsig)'
    BY <2>1, <2>2 DEF WokenInv, SendsAll, SendTo, Sending
  <2>. QED  BY <1>1, <2>1, <2>3, WakingWakes, SMTT(20)
<1>. QED  BY <1>3, <1>4 DEF SendStep

\* the other calls,
LEMMA ElsewhereWakes ==
  ASSUME WokenInv, CountInv, NEW t \in Tasks, BeginOp(t) \/ Elsewhere(t)
  PROVE  WokenInv'
<1>1. /\ \A x \in Tasks : x # t => pc'[x] = pc[x]
      /\ opcount > 0 => opcount' > 0
      /\ opcount \in Nat
  <2>1. CASE BeginOp(t)
    BY <2>1, CLAssumption DEF BeginOp, Goto, CountInv, CLTypeOK
  <2>2. CASE Elsewhere(t)
    BY <2>2, ElsewhereMoves, CLAssumption, SMTT(20) DEF CountInv, CLTypeOK
  <2>. QED  BY <2>1, <2>2
<1>2. ASSUME UNCHANGED sigvars, tstate[t] = "RUNNING" PROVE WokenInv'
  <2>1. SigInv' /\ KeepsReach /\ WakesOnly /\ tstate' = tstate /\ snd' = snd
    BY <1>2, UnchangedKeeps DEF WokenInv, sigvars
  <2>2. SendsAll' /\ \A u \in Tasks : SendTo(u, cl_opsig) => SendTo(u, cl_opsig)'
    BY <2>1 DEF WokenInv, SendsAll, SendTo, Sending
  <2>. QED  BY <1>1, <1>2, <2>1, <2>2, WakingWakes
<1>3. ASSUME NEW r, Woken(t, r) PROVE WokenInv'
  <2>1. SigInv' /\ KeepsReach /\ WakesOnly /\ tstate' = tstate /\ snd' = snd
    BY <1>3, WokenKeeps DEF WokenInv
  <2>2. SendsAll' /\ \A u \in Tasks : SendTo(u, cl_opsig) => SendTo(u, cl_opsig)'
    BY <2>1 DEF WokenInv, SendsAll, SendTo, Sending
  <2>3. tstate[t] = "RUNNING"
    BY <1>3 DEF Woken, Runs
  <2>. QED  BY <1>1, <2>1, <2>2, <2>3, WakingWakes
<1>4. ASSUME NEW tm, NEW r, Recv(cl_opsig, t, tm, r), tstate[t] = "RUNNING", opcount # 0,
             opcount' = opcount
      PROVE  WokenInv'
  BY <1>1, <1>4, ReceiveWakes, SMTT(20)
<1>5. CASE BeginOp(t) \/ CloseReturn(t) \/ TryClose(t) \/ TimedUndo(t) \/ EnterReset(t)
  BY <1>2, <1>5 DEF BeginOp, CloseReturn, TryClose, TimedUndo, EnterReset, At, Free, Runs
<1>6. CASE CloseWoken(t) \/ TimedWoken(t) \/ ResetWoken(t)
  BY <1>3, <1>6 DEF CloseWoken, TimedWoken, ResetWoken
<1>7. CASE Close(t)
  <2>1. tstate[t] = "RUNNING" /\ opcount' = opcount
    BY <1>7 DEF Close, At, Free, Runs
  <2>. QED  BY <1>2, <1>4, <1>7, <2>1, Zenon DEF Close
<1>8. CASE TimedClose(t) \/ TimedLoop(t)
  <2>1. tstate[t] = "RUNNING" /\ opcount' = opcount /\ TimedTurn(t)
    BY <1>8 DEF TimedClose, TimedLoop, At, Free, Runs
  <2>. QED  BY <1>2, <1>4, <2>1, Zenon DEF TimedTurn
<1>9. CASE Reset(t)
  <2>1. tstate[t] = "RUNNING" /\ opcount' = opcount
    BY <1>9 DEF Reset, At, Free, Runs
  <2>. QED  BY <1>2, <1>4, <1>9, <2>1, Zenon DEF Reset
<1>. QED  BY <1>5, <1>6, <1>7, <1>8, <1>9 DEF Elsewhere

\* and the timer and interrupts.
LEMMA EnvironmentWakes ==
  ASSUME WokenInv, CountInv, NEW t \in Tasks, Tick(t) \/ Interrupt(t), UNCHANGED clvars
  PROVE  WokenInv'
<1>1. SigInv' /\ KeepsReach /\ WakesOnly /\ snd' = snd
  BY TickKeeps, InterruptKeeps DEF WokenInv
<1>2. SendsAll' /\ \A u \in Tasks : SendTo(u, cl_opsig) => SendTo(u, cl_opsig)'
  BY <1>1 DEF WokenInv, SendsAll, SendTo, Sending
<1>3. opcount' = opcount /\ pc' = pc
  BY DEF clvars
<1>. QED  BY <1>1, <1>2, <1>3, WakingWakes

\* A new lock satisfies the invariant, and every step preserves it.
LEMMA InitWoken == Init => WokenInv
<1>. SUFFICES ASSUME Init PROVE WokenInv
  OBVIOUS
<1>1. SigInv
  BY InitSigInv DEF Init
<1>2. SendsAll /\ SleepsListed /\ CloserWoken
  BY NoSendFacts DEF Init, SigInit, SendsAll, Sending, SleepsListed, CloserWoken
<1>. QED  BY <1>1, <1>2 DEF WokenInv

\* Every step keeps the wake-up of a sleeping closer.
LEMMA NextWoken == CountInv /\ WokenInv /\ [Next]_vars => WokenInv'
<1>. SUFFICES ASSUME CountInv, WokenInv, [Next]_vars PROVE WokenInv'
  OBVIOUS
<1>1. ASSUME NEW t \in Tasks, Step(t) \/ ClientCall(t) PROVE WokenInv'
  BY <1>1, EndOpWakes, SendStepWakes, ElsewhereWakes DEF Step, ClientCall, Elsewhere
<1>2. ASSUME NEW t \in Tasks, Environment(t) PROVE WokenInv'
  BY <1>2, EnvironmentWakes, SMTT(20) DEF Environment
<1>3. CASE UNCHANGED vars
  <2>1. UNCHANGED sigvars /\ opcount' = opcount /\ pc' = pc
    BY <1>3 DEF vars, clvars
  <2>2. SigInv' /\ KeepsReach /\ WakesOnly /\ snd' = snd
    BY <2>1, UnchangedKeeps DEF WokenInv, sigvars
  <2>3. SendsAll' /\ \A u \in Tasks : SendTo(u, cl_opsig) => SendTo(u, cl_opsig)'
    BY <2>2 DEF WokenInv, SendsAll, SendTo, Sending
  <2>. QED  BY <2>1, <2>2, <2>3, WakingWakes
<1>. QED  BY <1>1, <1>2, <1>3 DEF Next

----------------------------------------------------------------------------
(* The flag of a close has one owner *)

\* Without interrupts no way out of kcloselock_timedclose forgets the flag: the
\* receive cannot report an interrupt, and nobody closes cl_opsig itself.
OwnerInv ==
  /\ dead = {}
  /\ ~use.intr => wasintr = {}
  /\ ~use.intr /\ closing => \E t \in Tasks : pc[t] \in Owning

\* cl_opsig is never closed, and only an interrupt interrupts.
LEMMA NextQuiet ==
  ASSUME dead = {}, ~use.intr => wasintr = {}, [Next]_vars
  PROVE  dead' = {} /\ (~use.intr => wasintr' = {})
<1>1. ASSUME NEW s, NEW t, NEW tm, NEW r, Recv(s, t, tm, r)
      PROVE  dead' = dead /\ wasintr' \subseteq wasintr
  BY <1>1 DEF Recv, RecvSet, sigvars
<1>2. ASSUME NEW t, NEW r, Woken(t, r) PROVE dead' = dead /\ wasintr' \subseteq wasintr
  BY <1>2, SMTT(20) DEF Woken
<1>3. ASSUME NEW t \in Tasks, BeginOp(t) \/ TryClose(t) \/ CloseReturn(t) \/ TimedUndo(t)
                              \/ EnterReset(t) \/ EndOp(t) \/ SendStep(t)
      PROVE  dead' = dead /\ wasintr' \subseteq wasintr
  BY <1>3 DEF BeginOp, TryClose, CloseReturn, TimedUndo, EnterReset, EndOp, BeginSend, SendStep,
              SendPop, SendReschedule, sigvars
<1>4. ASSUME NEW t \in Tasks, Close(t) \/ TimedClose(t) \/ TimedLoop(t) \/ Reset(t)
      PROVE  dead' = dead /\ wasintr' \subseteq wasintr
  BY <1>1, <1>4, Zenon DEF Close, TimedClose, TimedLoop, TimedTurn, Reset, sigvars
<1>5. ASSUME NEW t \in Tasks, CloseWoken(t) \/ TimedWoken(t) \/ ResetWoken(t)
      PROVE  dead' = dead /\ wasintr' \subseteq wasintr
  BY <1>2, <1>5 DEF CloseWoken, TimedWoken, ResetWoken
<1>6. ASSUME NEW t \in Tasks, Environment(t)
      PROVE  dead' = dead /\ (~use.intr => wasintr' = wasintr)
  BY <1>6 DEF Environment, Tick, Interrupt
<1>7. CASE UNCHANGED vars
  BY <1>7 DEF vars, sigvars
<1>. QED  BY <1>3, <1>4, <1>5, <1>6, <1>7, SMTT(20) DEF Next, Step, ClientCall

\* Without interrupts every call that sets the flag leaves an owner behind, and an owner
\* stays one until it clears the flag.
LEMMA NextOwned ==
  ASSUME OwnerCloses, SafeInv, OwnerInv, ~use.intr, [Next]_vars
  PROVE  closing' => \E t \in Tasks : pc'[t] \in Owning
<1>0. {"closed", "timedwait", "timedloop", "timedundo", "reset"} \subseteq Owning
      /\ "idle" \notin Owning /\ "operating" \notin Owning
  BY DEF Owning
<1>1. CASE UNCHANGED clvars
  BY <1>1 DEF clvars, OwnerInv
<1>2. ASSUME NEW t \in Tasks, BeginOp(t) \/ EndOp(t)
      PROVE  closing' => \E u \in Tasks : pc'[u] \in Owning
  <2>1. /\ closing' = closing /\ pc[t] \in {"idle", "operating"}
        /\ \A u \in Tasks : u # t => pc'[u] = pc[u]
    BY <1>2 DEF BeginOp, EndOp, At, Goto, SafeInv, CLTypeOK
  <2>. QED  BY <1>0, <2>1 DEF OwnerInv
<1>3. ASSUME NEW t \in Tasks, NEW p \in Owning, pc' = [pc EXCEPT ![t] = p]
      PROVE  \E u \in Tasks : pc'[u] \in Owning
  BY <1>3 DEF SafeInv, CLTypeOK
<1>4. ASSUME NEW t \in Tasks, TryClose(t) \/ EnterReset(t)
      PROVE  \E u \in Tasks : pc'[u] \in Owning
  BY <1>0, <1>3, <1>4 DEF TryClose, EnterReset, Goto
<1>5. ASSUME NEW t \in Tasks, TimedTurn(t) PROVE \E u \in Tasks : pc'[u] \in Owning
  <2>1. CASE opcount = 0
    BY <1>0, <1>3, <1>5, <2>1 DEF TimedTurn, Goto
  <2>2. CASE opcount # 0
    <3>1. PICK r \in RecvResults :
             /\ Recv(cl_opsig, t, TRUE, r)
             /\ Goto(t, CASE r = "blocked" -> "timedwait"
                          [] r = "KE_TIMEDOUT" -> "timedundo"
                          [] OTHER -> "idle")
      BY <1>5, <2>2, Zenon DEF TimedTurn
    <3>2. r \in {"blocked", "KE_TIMEDOUT"}
      BY <3>1 DEF Recv, RecvSet, OwnerInv
    <3>. QED  BY <1>0, <1>3, <3>1, <3>2, Zenon DEF Goto
  <2>. QED  BY <2>1, <2>2
<1>6. ASSUME NEW t \in Tasks, TimedWoken(t) PROVE \E u \in Tasks : pc'[u] \in Owning
  <2>1. PICK r \in WakeResults :
           /\ Woken(t, r)
           /\ Goto(t, CASE r = "KE_OK" -> "timedloop"
                        [] r = "KE_TIMEDOUT" -> "timedundo"
                        [] r = "KE_INTR" -> "idle")
    BY <1>6, Zenon DEF TimedWoken
  <2>2. r \in {"KE_OK", "KE_TIMEDOUT"}
    BY <2>1 DEF Woken, WakeResult, OwnerInv
  <2>. QED  BY <1>0, <1>3, <2>1, <2>2, Zenon DEF Goto
<1>7. ASSUME NEW t \in Tasks, TimedUndo(t) \/ Reset(t) PROVE ~closing'
  BY <1>7, Zenon DEF TimedUndo, Reset, At, SafeInv
<1>8. ASSUME NEW t \in Tasks, Elsewhere(t)
      PROVE  closing' => \E u \in Tasks : pc'[u] \in Owning
  <2>1. ~Close(t)
    BY Zenon DEF Close, Pay, OwnerCloses
  <2>2. pc[t] \notin Unused
    BY DEF SafeInv
  <2>3. ~(CloseWoken(t) \/ CloseReturn(t) \/ ResetWoken(t))
    BY <2>2 DEF CloseWoken, CloseReturn, ResetWoken, Unused
  <2>. QED  BY <1>4, <1>5, <1>6, <1>7, <1>8, <2>1, <2>3, Zenon DEF Elsewhere, TimedClose, TimedLoop
<1>. QED  BY <1>1, <1>2, <1>8, NextCases

\* A new lock is open, and every step preserves the invariant.
LEMMA InitOwner == Init => OwnerInv
BY DEF Init, SigInit, OwnerInv

\* Where closers look again, every step keeps the owner of the closing flag.
LEMMA NextOwner ==
  (OwnerCloses => SafeInv) /\ (OwnerCloses => OwnerInv) /\ [Next]_vars
     => (OwnerCloses => OwnerInv)'
<1>. SUFFICES ASSUME OwnerCloses => SafeInv, OwnerCloses => OwnerInv, [Next]_vars, OwnerCloses'
              PROVE  OwnerInv'
  OBVIOUS
<1>1. use' = use
  BY NextKeepsUse
<1>2. OwnerCloses
  BY <1>1 DEF OwnerCloses
<1>3. dead' = {} /\ (~use.intr => wasintr' = {})
  BY <1>2, NextQuiet DEF OwnerInv
<1>4. ~use.intr /\ closing' => \E t \in Tasks : pc'[t] \in Owning
  BY <1>2, NextOwned
<1>. QED  BY <1>1, <1>3, <1>4 DEF OwnerInv

\* One owner at most, and one whenever the flag is set.
LEMMA OwnerIsOne == (OwnerCloses => SafeInv) /\ (OwnerCloses => OwnerInv) => OneCloser
<1>. SUFFICES ASSUME SafeInv, OwnerInv, ~use.intr PROVE OneCloser
  BY DEF OneCloser
<1>. DEFINE owners == Closing \cup {t \in Tasks : pc[t] \in {"closed", "reset", "resetwait"}}
<1>1. \A t \in Tasks : t \in owners <=> pc[t] \in Owning
  BY DEF SafeInv, Unused, Owning, Closing
<1>2. owners \subseteq Tasks
  BY DEF Closing
<1>3. closing <=> owners # {}
  BY <1>1, <1>2 DEF SafeInv, OwnerInv
<1>4. owners = {} \/ \E t \in Tasks : owners = {t}
  BY <1>1, <1>2 DEF SafeInv
<1>5. Cardinality(owners) <= 1
  <2>1. CASE owners = {}
    <3>1. Cardinality(owners) = 0
      BY <2>1, FS_EmptySet
    <3>. QED  BY <3>1
  <2>2. ASSUME NEW t \in Tasks, owners = {t} PROVE Cardinality(owners) <= 1
    <3>1. Cardinality(owners) = 1
      BY <2>2, FS_Singleton, Zenon
    <3>. QED  BY <3>1
  <2>. QED  BY <1>4, <2>1, <2>2
<1>. QED  BY <1>3, <1>5 DEF OneCloser

\* While KCLOSELOCK_FLAG_CLOSEING is set, exactly one task owns the close, and a task that
\* sleeps in a close has operations to wait for or a wake-up on its way
\* (kcloselock_endop, kcloselock_timedclose, kcloselock_tryclose, kcloselock_reset).
THEOREM ClosersAreServed == Spec => []CloserServed
<1>1. Init => (OwnerCloses => SafeInv) /\ (OwnerCloses => OwnerInv)
  BY InitSafe, InitOwner
<1>2. CountInv /\ (OwnerCloses => SafeInv) /\ [Next]_vars => (OwnerCloses => SafeInv)'
  BY NextSafe, NextKeepsUse DEF OwnerCloses
<1>3. CountInv /\ WokenInv => TypeOK /\ CloserWoken
  BY DEF CountInv, WokenInv, SigInv, TypeOK
<1>4. TypeOK /\ OneCloser /\ CloserWoken => CloserServed
  BY DEF CloserServed
<1>. QED
  BY <1>1, <1>2, <1>3, <1>4, InitCount, NextCount, InitWoken, NextWoken, NextOwner, OwnerIsOne,
     PTL DEF Spec
============================================================================
