------------------------------- MODULE Futex --------------------------------
(***************************************************************************)
(* The futex system calls: kshm_futex and kshm_futexs of                   *)
(* src/kernel/shm-futex.c.inl, on the signals of VSignal.                  *)
(*                                                                         *)
(* The lookups are those FutexMap promises and FutexChain implements: the  *)
(* live references to the futex of a word are counted, and a word has a    *)
(* futex as long as there are some.  The s_lock of the address space is    *)
(* the lock RWLock models, reduced to who has it; a signal is locked by    *)
(* the task that is about to sleep on it (in the other places where one is *)
(* locked the lock is released within the step).  Pages are mapped and     *)
(* writable.                                                               *)
(***************************************************************************)
EXTENDS VSignal

CONSTANTS FuTasks,  \* the threads of a process
          Addrs,    \* the addresses of its futexes
          FuUses    \* the ways it uses them

VARIABLES
  word,     \* the futexes
  refs,     \* f_refcnt of the futex of each word, 0 if it has none
  shm,      \* what each task has of s_lock
  fusig,    \* f_sig of every futex, and the tasks
  kcall,    \* the system call each task makes
  fufault,  \* the assertion, if any, that stopped the system
  fuuse

kvars == <<word, refs, shm, fusig, kcall, fufault>>

\* The bound on the references a futex can have when some are never released.
RefsMax == 2 * Cardinality(FuTasks)

\* UINT_MAX + 1.
Words == 2 ^ fuuse.w

----------------------------------------------------------------------------
Bits(n) == {i \in 0 .. fuuse.w - 1 : (n \div 2 ^ i) % 2 = 1}
Num(B) == CHOOSE n \in 0 .. Words - 1 : Bits(n) = B

\* An operation code without its lowest bit, KFUTEX_NOT, compares or combines; the
\* bit negates the result.
Compared(op, x, y) ==
  CASE op = "FALSE" -> FALSE
    [] op = "EQUAL" -> x = y
    [] op = "LOWER" -> x < y
    [] op = "LOWER_EQUAL" -> x <= y
    [] op = "AND" -> Bits(x) \cap Bits(y) # {}
    [] op = "XOR" -> x # y
    [] op = "SHL" -> (x * 2 ^ y) % Words # 0
    [] op = "SHR" -> x \div 2 ^ y # 0

\* Whether a receive with operation c and value c.val waits for a word x.
Holds(c, x) == Compared(c.op, x, c.val) # c.neg

Combined(op, x, y) ==
  CASE op = "STORE" -> y
    [] op = "ADD" -> (x + y) % Words
    [] op = "SUB" -> (x + Words - y) % Words
    [] op = "MUL" -> (x * y) % Words
    [] op = "DIV" -> x \div y
    [] op = "AND" -> Num(Bits(x) \cap Bits(y))
    [] op = "OR" -> Num(Bits(x) \cup Bits(y))
    [] op = "XOR" -> Num((Bits(x) \cup Bits(y)) \ (Bits(x) \cap Bits(y)))
    [] op = "SHL" -> (x * 2 ^ y) % Words
    [] op = "SHR" -> x \div 2 ^ y

\* The new value of the second word: kshm_futex masks its operation away, so that
\* it always stores.
NewWord(c, x) ==
  LET v == Combined(IF c.set THEN c.op2 ELSE "STORE", x, c.val2)
  IN  IF c.set /\ c.neg2 THEN Words - 1 - v ELSE v

----------------------------------------------------------------------------
\* A call: kshm_futex with one condition or, where set, kshm_futexs with any
\* number of them; C0, C1 and CX also change the word a2.  got2 says whether the
\* call has a reference to the futex of a2, left how many tasks a send may still wake.
Condition(a, op, neg, val) == [a |-> a, op |-> op, neg |-> neg, val |-> val]

NoCall == [pc |-> "user", cmd |-> "none", conds |-> {}, how |-> "recv", set |-> FALSE,
           a2 |-> "", op2 |-> "STORE", neg2 |-> FALSE, val2 |-> 0, got2 |-> FALSE,
           left |-> 0, woken |-> FALSE, ret |-> "KE_OK"]

SendCall(a, n) ==
  [NoCall EXCEPT !.pc = "enter", !.cmd = "send", !.conds = {Condition(a, "FALSE", TRUE, 0)},
                 !.left = n]
RecvCall(a, op, neg, val, how) ==
  [NoCall EXCEPT !.pc = "enter", !.cmd = "recv", !.conds = {Condition(a, op, neg, val)},
                 !.how = how]
Secondary(c, cmd, a2, op2, neg2, val2) ==
  [c EXCEPT !.cmd = cmd, !.a2 = a2, !.op2 = op2, !.neg2 = neg2, !.val2 = val2]
SetCall(conds, how) ==
  [NoCall EXCEPT !.pc = "enter", !.cmd = "recv", !.set = TRUE, !.conds = conds, !.how = how]

On(c) == {k.a : k \in c.conds}
The(c) == CHOOSE a \in On(c) : TRUE

FuInit ==
  /\ refs = [a \in Addrs |-> 0]
  /\ shm = [t \in FuTasks |-> "none"]
  /\ fusig = VInit(FuTasks, Addrs)
  /\ kcall = [t \in FuTasks |-> NoCall]
  /\ fufault = "none"

KAt(t, p) == kcall[t].pc = p /\ fufault = "none"
Step(t, p) == kcall' = [kcall EXCEPT ![t].pc = p]
Return(t, r) == kcall' = [kcall EXCEPT ![t] = [NoCall EXCEPT !.pc = "ret", !.ret = r]]

\* Kernel tasks that are about to sleep have locked what they sleep on.
SigLocked(a) == \E u \in FuTasks : kcall[u].pc = "enqueued" /\ a \in On(kcall[u])

\* kshmfutex_decref of the futexes of A; w are the signals.  The last reference
\* destroys a futex, and that closes its signal.
Dropped(A) == [a \in Addrs |-> IF a \in A THEN refs[a] - 1 ELSE refs[a]]
Closed(w, A) ==
  LET gone == {a \in A : refs[a] = 1}
      left == UNION {VSlots(w, a) : a \in gone}
      woke == {u \in left : w.task[u].asleep}
  IN  IF left = {} THEN w
      ELSE [slots |-> [a \in Addrs |-> IF a \in gone THEN <<>> ELSE Without(w.slots[a], woke)],
            dead  |-> w.dead,
            task  |-> [u \in FuTasks |-> IF u \in woke THEN VGiven(w.task[u], NoData)
                                         ELSE w.task[u]]]
Drop(A, w) == refs' = Dropped(A) /\ fusig' = Closed(w, A)

Second(c) == IF c.got2 THEN {c.a2} ELSE {}

----------------------------------------------------------------------------
\* krwlock_beginread waits for a writer only.
Shareable == \A u \in FuTasks : shm[u] # "write"
Unheld == \A u \in FuTasks : shm[u] \notin {"read", "write"}

\* krwlock_end: whoever leaves the lock free wakes all that wait.  It matters to the
\* tasks in krwlock_atomic_upgrade.
EndShm(t) ==
  LET free == \A u \in FuTasks \ {t} : shm[u] # "read"
  IN  shm' = [u \in FuTasks |-> IF u = t THEN "none"
                                ELSE IF free /\ shm[u] = "upgrade" THEN "signaled"
                                ELSE shm[u]]

Shm(t, l) == shm' = [shm EXCEPT ![t] = l]

\* A call that has not begun to wait returns.
GiveUp(t, r) ==
  /\ Drop(On(kcall[t]) \cup Second(kcall[t]), fusig)
  /\ EndShm(t)
  /\ Return(t, r)

\* The lock, the lookups (init_futexset) and what they return at once.
FuEnter(t) ==
  LET c == kcall[t]
      new == {a \in On(c) : refs[a] = 0}
  IN  /\ KAt(t, "enter")
      /\ Shareable
      /\ \/ /\ (c.cmd = "send" /\ new # {}) \/ c.conds = {}
            /\ Return(t, IF c.set THEN "KE_OK" ELSE "KS_EMPTY")
            /\ UNCHANGED <<refs, shm>>
         \/ /\ c.cmd # "send" /\ new # {} /\ fuuse.nomem
            /\ Return(t, "KE_NOMEM")
            /\ UNCHANGED <<refs, shm>>
         \/ /\ c.conds # {}
            /\ c.cmd = "send" => new = {}
            /\ refs' = [a \in Addrs |-> IF a \in On(c) THEN refs[a] + 1 ELSE refs[a]]
            /\ Shm(t, "read")
            /\ Step(t, IF c.cmd = "send" THEN "send" ELSE "have")
      /\ UNCHANGED <<word, fusig, fufault>>

\* A task that waits for the lock is interrupted: the call has not begun, or it
\* goes on to krwlock_end although it has lost the lock.
FuEnterIntr(t) ==
  /\ fuuse.intr /\ fufault = "none"
  /\ \/ KAt(t, "enter") /\ ~Shareable /\ Return(t, "KE_INTR") /\ UNCHANGED fufault
     \/ KAt(t, "upwait") /\ fufault' = "assert" /\ UNCHANGED kcall
     \/ KAt(t, "relook") /\ ~Shareable /\ fufault' = "assert" /\ UNCHANGED kcall
  /\ UNCHANGED <<word, refs, shm, fusig>>

\* KFUTEX_SEND: one ksignal_sendone or ksignal_vusendone.  A slot whose task has
\* timed out counts like any other.
FuSend(t) ==
  LET c == kcall[t]
  IN  /\ KAt(t, "send")
      /\ c.left > 0 /\ ~SigLocked(The(c)) /\ VCount(fusig, The(c)) > 0
      /\ fusig' = VSendOne(fusig, The(c), IF c.how = "recv" THEN NoData ELSE c.val2)
      /\ kcall' = [kcall EXCEPT ![t].left = @ - 1, ![t].woken = TRUE]
      /\ UNCHANGED <<word, refs, shm, fufault>>

FuSent(t) ==
  LET c == kcall[t]
  IN  /\ KAt(t, "send")
      /\ c.left = 0 \/ (~SigLocked(The(c)) /\ VCount(fusig, The(c)) = 0)
      /\ GiveUp(t, IF c.woken THEN "KE_OK" ELSE "KS_EMPTY")
      /\ UNCHANGED <<word, fufault>>

\* A task sleeps: its slots are queued in the step that tested the words, its
\* signals are unlocked in FuSleep.  w are the signals.
Enqueue(t, w) ==
  /\ fusig' = VReceiveAny(w, t, On(kcall[t]), kcall[t].how)
  /\ EndShm(t)
  /\ Step(t, "enqueued")

Waits(c) == \A k \in c.conds : Holds(k, word[k.a])

\* Mutant: the words are not tested once the signals are locked.
FuRecvBlind(t) ==
  /\ KAt(t, "have") /\ kcall[t].cmd = "recv"
  /\ \A a \in On(kcall[t]) : ~SigLocked(a)
  /\ Enqueue(t, fusig)
  /\ UNCHANGED <<word, refs, fufault>>

\* KFUTEX_RECVIF without a secondary command, of one futex or of a set.
FuRecv(t) ==
  LET c == kcall[t]
  IN  /\ KAt(t, "have") /\ c.cmd = "recv"
      /\ \A a \in On(c) : ~SigLocked(a)
      /\ \/ Waits(c) /\ Enqueue(t, fusig) /\ UNCHANGED refs
         \/ ~Waits(c) /\ GiveUp(t, "KE_AGAIN")
      /\ UNCHANGED <<word, fufault>>

\* kshm_futex looks the second futex up before it upgrades its lock; kshm_futexs
\* does so afterwards.
FuSecond(t) ==
  LET c == kcall[t]
  IN  /\ KAt(t, "have") /\ c.cmd # "recv"
      /\ \/ /\ c.set
            /\ Step(t, "upgrade")
            /\ UNCHANGED <<refs, shm, fusig>>
         \/ /\ ~c.set /\ c.a2 \in On(c) /\ c.cmd # "C0"
            /\ GiveUp(t, "KE_INVAL")
         \/ /\ ~c.set /\ (c.a2 \in On(c) => c.cmd = "C0")
            /\ LET got == c.a2 \notin On(c) /\ refs[c.a2] > 0
               IN  /\ refs' = [refs EXCEPT ![c.a2] = IF got THEN @ + 1 ELSE @]
                   /\ kcall' = [kcall EXCEPT ![t].pc = "upgrade", ![t].got2 = got]
            /\ UNCHANGED <<shm, fusig>>
      /\ UNCHANGED <<word, fufault>>

\* krwlock_upgrade: the only reader becomes the writer, others let go and wait.
FuUpgrade(t) ==
  /\ KAt(t, "upgrade")
  /\ \/ /\ \A u \in FuTasks \ {t} : shm[u] # "read"
        /\ Shm(t, "write") /\ Step(t, "both")
     \/ /\ \E u \in FuTasks \ {t} : shm[u] = "read"
        /\ Shm(t, "upgrade") /\ Step(t, "upwait")
  /\ UNCHANGED <<word, refs, fusig, fufault>>

\* The rest of krwlock_upgrade: KS_BLOCKING if the lock is free when the task runs
\* again, else a krwlock_beginwrite and KS_UNLOCKED.  kshm_futexs then loads its set
\* again, which may have to be allocated again; kshm_futex goes back and upgrades a lock that is no longer a read lock.
FuUpgraded(t) ==
  LET c == kcall[t]
  IN  /\ KAt(t, "upwait")
      /\ \/ /\ shm[t] = "signaled" /\ Unheld
            /\ Shm(t, "write") /\ Step(t, "both")
            /\ UNCHANGED <<refs, fusig, fufault>>
         \/ /\ shm[t] = "signaled" /\ ~Unheld
            /\ Shm(t, "late")
            /\ UNCHANGED <<refs, fusig, kcall, fufault>>
         \/ /\ shm[t] = "late" /\ Unheld
            /\ Shm(t, "write") /\ Step(t, "both")
            /\ fufault' = (IF c.set THEN "none" ELSE "assert")
            /\ UNCHANGED <<refs, fusig>>
         \/ /\ shm[t] = "late" /\ Unheld /\ c.set
            /\ fuuse.nomem /\ \E a \in On(c) : refs[a] = 1
            /\ GiveUp(t, "KE_NOMEM")
            /\ UNCHANGED fufault
      /\ UNCHANGED word

\* Mutant: CX sends to nobody.
SentToOne(c) ==
  IF VCount(fusig, c.a2) = 0 \/ c.cmd # "C1" THEN fusig ELSE VSendOne(fusig, c.a2, NoData)

\* The waiters of the second futex a call wakes.
SentTo(c) ==
  IF VCount(fusig, c.a2) = 0 \/ c.cmd = "C0" THEN fusig
  ELSE IF c.cmd = "C1" THEN VSendOne(fusig, c.a2, NoData)
  ELSE VSendAll(fusig, c.a2, NoData)

\* The word a2 is changed, its waiters are sent to, and the task sleeps.
Change(t, w) ==
  LET c == kcall[t]
  IN  /\ word' = [word EXCEPT ![c.a2] = NewWord(c, @)]
      /\ fusig' = VReceiveAny(w, t, On(c), c.how)
      /\ EndShm(t)

\* The second half of kshm_futex for C0, C1 and CX.  When the signal of the second
\* futex is locked everything is unlocked and the lookups start over; the reference
\* to the second futex is then never released.
FuBoth(t) ==
  LET c == kcall[t]
  IN  /\ KAt(t, "both") /\ ~c.set
      /\ c.a2 \notin On(c) /\ ~SigLocked(The(c))
      /\ \/ /\ ~Waits(c)
            /\ GiveUp(t, "KE_AGAIN")
            /\ UNCHANGED word
         \/ /\ Waits(c) /\ c.got2 /\ SigLocked(c.a2) /\ refs[c.a2] < RefsMax
            /\ EndShm(t)
            /\ kcall' = [kcall EXCEPT ![t].pc = "relook", ![t].got2 = FALSE]
            /\ UNCHANGED <<word, refs, fusig>>
         \/ /\ Waits(c) /\ ~c.got2
            /\ Change(t, fusig)
            /\ Step(t, "enqueued")
            /\ UNCHANGED refs
         \/ /\ Waits(c) /\ c.got2 /\ ~SigLocked(c.a2) /\ c.cmd # "C0"
            /\ Change(t, Closed(SentTo(c), {c.a2}))
            /\ refs' = Dropped({c.a2})
            /\ kcall' = [kcall EXCEPT ![t].pc = "enqueued", ![t].got2 = FALSE]
      /\ UNCHANGED fufault

\* C0 is not expected where the two words are one, nor where the second has a futex.
FuBothStop(t) ==
  LET c == kcall[t]
  IN  /\ KAt(t, "both") /\ ~c.set
      /\ \/ c.a2 \in On(c)
         \/ c.cmd = "C0" /\ c.got2 /\ Waits(c) /\ \A a \in On(c) \cup {c.a2} : ~SigLocked(a)
      /\ fufault' = "assert"
      /\ UNCHANGED <<word, refs, shm, fusig, kcall>>

FuRelook(t) ==
  /\ KAt(t, "relook")
  /\ Shareable
  /\ Shm(t, "read") /\ Step(t, "have")
  /\ UNCHANGED <<word, refs, fusig, fufault>>

\* The second half of kshm_futexs: the reference to the second futex is kept until
\* the task runs again.
FuSetBoth(t) ==
  LET c == kcall[t]
      got == c.a2 \notin On(c) /\ refs[c.a2] > 0
  IN  /\ KAt(t, "both") /\ c.set
      /\ \/ /\ c.a2 \in On(c) /\ c.cmd # "C0"
            /\ GiveUp(t, "KE_INVAL")
            /\ UNCHANGED <<word, fufault>>
         \/ /\ c.a2 \in On(c) => c.cmd = "C0"
            /\ \A a \in On(c) \cup {c.a2} : ~SigLocked(a)
            /\ \/ /\ ~Waits(c)
                  /\ GiveUp(t, "KE_AGAIN")
                  /\ UNCHANGED <<word, fufault>>
               \/ /\ Waits(c) /\ c.op2 = "DIV" /\ c.val2 = 0
                  /\ fufault' = "div"
                  /\ UNCHANGED <<word, refs, shm, fusig, kcall>>
               \/ /\ Waits(c) /\ (c.op2 = "DIV" => c.val2 # 0)
                  /\ Change(t, IF got THEN SentTo(c) ELSE fusig)
                  /\ refs' = [refs EXCEPT ![c.a2] = IF got THEN @ + 1 ELSE @]
                  /\ kcall' = [kcall EXCEPT ![t].pc = "enqueued", ![t].got2 = got]
                  /\ UNCHANGED fufault

FuSleep(t) ==
  /\ KAt(t, "enqueued")
  /\ Step(t, "wait")
  /\ UNCHANGED <<word, refs, shm, fusig, fufault>>

\* Mutant: the second futex of a set is not released.
FuWokenKeeps(t) ==
  /\ KAt(t, "wait") /\ ~fusig.task[t].asleep
  /\ Drop(On(kcall[t]), VReturn(fusig, t))
  /\ Return(t, VResult(fusig, t))
  /\ UNCHANGED <<word, shm, fufault>>

\* A receive returns.
FuWoken(t) ==
  /\ KAt(t, "wait") /\ ~fusig.task[t].asleep
  /\ Drop(On(kcall[t]) \cup Second(kcall[t]), VReturn(fusig, t))
  /\ Return(t, VResult(fusig, t))
  /\ UNCHANGED <<word, shm, fufault>>

FuTimer(t) ==
  /\ KAt(t, "wait") /\ fusig.task[t].asleep /\ fusig.task[t].timed
  /\ fusig' = VTimer(fusig, t)
  /\ UNCHANGED <<word, refs, shm, kcall, fufault>>

FuInterrupt(t) ==
  /\ KAt(t, "wait") /\ fuuse.intr /\ fusig.task[t].asleep
  /\ fusig' = VInterrupt(fusig, t)
  /\ UNCHANGED <<word, refs, shm, kcall, fufault>>

\* What a task does inside a system call.
Kernel(t) ==
  \/ FuEnter(t) \/ FuSend(t) \/ FuSent(t) \/ FuRecv(t) \/ FuSecond(t) \/ FuUpgrade(t)
  \/ FuUpgraded(t) \/ FuBoth(t) \/ FuBothStop(t) \/ FuRelook(t) \/ FuSetBoth(t)
  \/ FuSleep(t) \/ FuWoken(t)

Elsewhere(t) == FuEnterIntr(t) \/ FuTimer(t) \/ FuInterrupt(t)
=============================================================================
