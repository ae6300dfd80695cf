------------------------------ MODULE UserSync ------------------------------
(***************************************************************************)
(* User-space synchronization on futexes: kmutex, krmutex, krwlock and     *)
(* ksem of include/kos/sync-*.h; the mutexes, semaphores, spin locks and   *)
(* once-controls of libs/libpthread; and the futex test of                 *)
(* userland/test/test-futex.c.                                             *)
(*                                                                         *)
(* The threads share one object, whose kind the use says.  A loop around a *)
(* katomic_cmpxch is one step, because what it decides depends only on the *)
(* value it exchanges; the other reads and writes are steps of their own.  *)
(***************************************************************************)
EXTENDS Futex

CONSTANTS Lock,     \* the word of the object
          NoOwner   \* KTID_INVALID, or 0

VARIABLES
  upc,    \* where each thread is in user space
  want,   \* what a call to lock is to give it
  how,    \* whether that call blocks, tries, or has a timeout
  rd, wr, \* how often it has the object for reading, and for itself
  owner,  \* rm_owner, __m_owner, __ps_holder
  ran,    \* how often the init_routine has run
  left    \* how many more calls each thread makes

uvars == <<upc, want, how, rd, wr, owner, ran, left>>
usvars == <<kvars, uvars, fuuse>>

Kind == fuuse.kind
Mutexes == {"mutex", "rmutex", "errorcheck_recursive"}
Locks == Mutexes \cup {"rwlock", "sem"}

\* _KRWLOCK_WRITEMODE and _KRWLOCK_READCOUNT.
WriteMode == 2 ^ (fuuse.w - 1)
ReadCount == WriteMode - 1

UsInit ==
  /\ fuuse \in FuUses
  /\ FuInit
  /\ word = [a \in Addrs |-> IF a = Lock THEN fuuse.init ELSE 0]
  /\ upc = [t \in FuTasks |-> "idle"]
  /\ want = [t \in FuTasks |-> "none"]
  /\ how = [t \in FuTasks |-> "block"]
  /\ rd = [t \in FuTasks |-> 0] /\ wr = [t \in FuTasks |-> 0]
  /\ owner = NoOwner
  /\ ran = 0
  /\ left = [t \in FuTasks |-> fuuse.n]

UAt(t, p) == upc[t] = p /\ fufault = "none"
Goto(t, p) == upc' = [upc EXCEPT ![t] = p]
Done(t) ==
  /\ Goto(t, "idle")
  /\ want' = [want EXCEPT ![t] = "none"] /\ how' = [how EXCEPT ![t] = "block"]
Pay(t) == left[t] > 0 /\ left' = [left EXCEPT ![t] = @ - 1]
Word == word[Lock]
SetWord(v) == word' = [word EXCEPT ![Lock] = v]
Syscall(t, c) == kcall' = [kcall EXCEPT ![t] = c]
KernelSame == UNCHANGED <<refs, shm, fusig>>
More(f, t) == [f EXCEPT ![t] = @ + 1]
Less(f, t) == [f EXCEPT ![t] = @ - 1]

----------------------------------------------------------------------------
\* When a kmutex_trylock and its like, krwlock_trybeginread, krwlock_trybeginwrite
\* or a sem_trywait succeeds, and what it makes of the word.
CanTake(g, v) ==
  CASE g = "lock" -> v = 0
    [] g = "write" -> v = 0
    [] g = "read" -> v < ReadCount
    [] g = "ticket" -> v > 0

Taken(g, v) ==
  CASE g = "lock" -> 1
    [] g = "write" -> WriteMode
    [] g = "read" -> v + 1
    [] g = "ticket" -> v - 1

\* What the blocking version waits for.
WaitCall(g, h) ==
  LET r == IF h = "timed" THEN "timedrecv" ELSE "recv"
  IN  CASE g \in {"lock", "write"} -> RecvCall(Lock, "EQUAL", TRUE, 0, r)
        [] g = "read" -> RecvCall(Lock, "AND", FALSE, WriteMode, r)
        [] g = "ticket" -> RecvCall(Lock, "EQUAL", FALSE, 0, r)

\* A call to lock the object.  A thread has a mutex once, a recursive one several times.
UsBegin(t) ==
  /\ UAt(t, "idle") /\ Pay(t)
  /\ Kind \in Locks \cup {"spin"}
  /\ Kind \in {"rmutex", "spin"} \/ rd[t] + wr[t] = 0
  /\ Kind = "rmutex" => fuuse.again \/ wr[t] > 0 \/ left[t] = fuuse.n
  /\ \E g \in fuuse.wants, h \in fuuse.hows :
       want' = [want EXCEPT ![t] = g] /\ how' = [how EXCEPT ![t] = h]
  /\ Goto(t, IF Kind = "rmutex" THEN "owner" ELSE "try")
  /\ UNCHANGED <<kvars, rd, wr, owner, ran>>

\* krmutex_trylock and pthread_mutex_dotrylock look at the owner first,
UsOwner(t) ==
  /\ UAt(t, "owner")
  /\ Goto(t, IF owner = t THEN "again" ELSE "try")
  /\ UNCHANGED <<kvars, want, how, rd, wr, owner, ran, left>>

\* and lock what they already have once more.
UsAgain(t) ==
  /\ UAt(t, "again")
  /\ SetWord((Word + 1) % Words)
  /\ wr' = More(wr, t)
  /\ Done(t)
  /\ UNCHANGED <<kcall, fufault, rd, owner, ran, left>> /\ KernelSame

\* The cmpxch: the object is taken, or the call waits, or gives up.
UsTry(t) ==
  /\ UAt(t, "try")
  /\ \/ /\ CanTake(want[t], Word)
        /\ SetWord(Taken(want[t], Word))
        /\ rd' = IF want[t] = "read" THEN More(rd, t) ELSE rd
        /\ wr' = IF want[t] # "read" THEN More(wr, t) ELSE wr
        /\ IF Kind \in {"rmutex", "spin"} THEN Goto(t, "own") /\ UNCHANGED <<want, how>>
           ELSE Done(t)
        /\ UNCHANGED kcall
     \/ /\ ~CanTake(want[t], Word)
        /\ how[t] = "try" \/ (want[t] = "read" /\ Word = ReadCount)
        /\ Done(t)
        /\ UNCHANGED <<word, rd, wr, kcall>>
     \/ /\ ~CanTake(want[t], Word) /\ Kind # "spin"
        /\ how[t] # "try" /\ (want[t] = "read" => Word # ReadCount)
        /\ Goto(t, "recv")
        /\ Syscall(t, WaitCall(want[t], how[t]))
        /\ UNCHANGED <<word, rd, wr, want, how>>
  /\ UNCHANGED <<fufault, owner, ran, left>> /\ KernelSame

\* The owner is stored after the word.
UsOwn(t) ==
  /\ UAt(t, "own")
  /\ owner' = t
  /\ Done(t)
  /\ UNCHANGED <<kvars, rd, wr, ran, left>>

\* The wait returns: KE_OK and KE_AGAIN try again, any other error ends the call; a
\* thread that was interrupted does not come back to user space.
UsWaited(t) ==
  /\ UAt(t, "recv") /\ KAt(t, "ret")
  /\ \/ /\ kcall[t].ret \in {"KE_OK", "KE_AGAIN"}
        /\ Goto(t, IF Kind = "rmutex" THEN "owner" ELSE "try") /\ UNCHANGED <<want, how>>
     \/ kcall[t].ret = "KE_INTR" /\ Goto(t, "dead") /\ UNCHANGED <<want, how>>
     \/ kcall[t].ret \notin {"KE_OK", "KE_AGAIN", "KE_INTR"} /\ Done(t)
  /\ Syscall(t, NoCall)
  /\ UNCHANGED <<word, fufault, rd, wr, owner, ran, left>> /\ KernelSame

----------------------------------------------------------------------------
\* Up to n of the threads that wait for the object are woken.
Send(t, n) == Goto(t, "send") /\ Syscall(t, SendCall(Lock, n))

\* kmutex_unlock, pthread_mutex_unlock: only what is locked once can be unlocked.
UsUnlock(t) ==
  /\ UAt(t, "idle") /\ Kind = "mutex" /\ wr[t] > 0
  /\ SetWord(0) /\ wr' = Less(wr, t) /\ Send(t, 1)
  /\ fufault' = IF Word = 1 THEN "none" ELSE "assert"
  /\ UNCHANGED <<want, how, rd, owner, ran, left>> /\ KernelSame

\* krmutex_unlock and the pthread mutexes with an owner, which stays when the mutex
\* is free.  Only PTHREAD_MUTEX_RECURSIVE_NP ever sets it, so that the mutex that
\* also checks for errors is never unlocked.
UsUnlockOwned(t) ==
  /\ UAt(t, "idle") /\ Kind \in {"rmutex", "errorcheck_recursive"} /\ wr[t] > 0
  /\ \/ /\ owner = t /\ Word # 0
        /\ SetWord(Word - 1) /\ wr' = Less(wr, t)
        /\ IF Word = 1 THEN Send(t, 1) ELSE UNCHANGED <<upc, kcall>>
        /\ UNCHANGED fufault
     \/ /\ Kind = "rmutex" /\ (owner # t \/ Word = 0)
        /\ fufault' = "assert" /\ UNCHANGED <<word, wr, upc, kcall>>
     \/ /\ Kind = "errorcheck_recursive" /\ owner # t
        /\ Goto(t, "refused") /\ UNCHANGED <<word, wr, kcall, fufault>>
  /\ UNCHANGED <<want, how, rd, owner, ran, left>> /\ KernelSame

\* krwlock_endread and krwlock_endwrite (krwlock_end does one or the other).
UsEnd(t) ==
  /\ UAt(t, "idle") /\ Kind = "rwlock"
  /\ \/ /\ rd[t] > 0
        /\ SetWord(Word - 1) /\ rd' = Less(rd, t)
        /\ IF Word = 1 THEN Send(t, Words - 1) ELSE UNCHANGED <<upc, kcall>>
        /\ UNCHANGED wr
     \/ /\ wr[t] > 0
        /\ SetWord(Word % WriteMode) /\ wr' = Less(wr, t)
        /\ Send(t, Words - 1)
        /\ UNCHANGED rd
  /\ UNCHANGED <<fufault, want, how, owner, ran, left>> /\ KernelSame

UsDowngrade(t) ==
  /\ UAt(t, "idle") /\ Kind = "rwlock" /\ wr[t] > 0 /\ Pay(t)
  /\ SetWord(1) /\ wr' = Less(wr, t) /\ rd' = More(rd, t)
  /\ Send(t, Words - 1)
  /\ fufault' = IF Word = WriteMode THEN "none" ELSE "assert"
  /\ UNCHANGED <<want, how, owner, ran>> /\ KernelSame

\* Mutant: other readers do not matter.
UsUpgradeShared(t) ==
  /\ UAt(t, "idle") /\ Kind = "rwlock" /\ rd[t] > 0 /\ Pay(t)
  /\ SetWord(WriteMode) /\ rd' = Less(rd, t) /\ wr' = More(wr, t)
  /\ UNCHANGED <<kcall, fufault, upc, want, how, owner, ran>> /\ KernelSame

\* krwlock_tryupgrade, krwlock_timedupgrade and krwlock_upgrade: only one that reads
\* alone keeps the lock; the others let go and lock it for writing.
UsUpgrade(t) ==
  /\ UAt(t, "idle") /\ Kind = "rwlock" /\ rd[t] > 0 /\ Pay(t)
  /\ \/ /\ Word = 1
        /\ SetWord(WriteMode) /\ rd' = Less(rd, t) /\ wr' = More(wr, t)
        /\ UNCHANGED <<upc, want, how>>
     \/ /\ Word # 1 /\ "try" \in fuuse.hows
        /\ UNCHANGED <<word, rd, wr, upc, want, how>>
     \/ /\ Word # 1
        /\ SetWord(Word - 1) /\ rd' = Less(rd, t)
        /\ Goto(t, "try")
        /\ want' = [want EXCEPT ![t] = "write"]
        /\ \E h \in fuuse.hows \ {"try"} : how' = [how EXCEPT ![t] = h]
        /\ UNCHANGED wr
  /\ UNCHANGED <<kcall, fufault, owner, ran>> /\ KernelSame

\* sem_post by a thread that has a ticket.
UsPost(t) ==
  /\ UAt(t, "idle") /\ Kind = "sem" /\ wr[t] > 0
  /\ SetWord((Word + 1) % Words) /\ wr' = Less(wr, t)
  /\ Send(t, 1)
  /\ UNCHANGED <<fufault, want, how, rd, owner, ran, left>> /\ KernelSame

\* ksem_acquire: the results of ksem_tryacquire and of the comparison are never
\* stored, so that it does not wait and what it returns is undefined.
UsKsem(t) ==
  /\ UAt(t, "idle") /\ Kind = "ksem" /\ Pay(t)
  /\ SetWord(IF Word > 0 THEN Word - 1 ELSE 0)
  /\ wr' \in {wr, More(wr, t)}
  /\ UNCHANGED <<kcall, fufault, upc, want, how, rd, owner, ran>> /\ KernelSame

\* ksem_release of as many tickets.
UsKsemRelease(t) ==
  /\ UAt(t, "idle") /\ Kind = "ksem" /\ wr[t] > 0
  /\ SetWord((Word + wr[t]) % Words) /\ wr' = [wr EXCEPT ![t] = 0]
  /\ Send(t, wr[t])
  /\ UNCHANGED <<fufault, want, how, rd, owner, ran, left>> /\ KernelSame

UsSent(t) ==
  /\ UAt(t, "send") /\ KAt(t, "ret")
  /\ Goto(t, IF kcall[t].ret = "KE_INTR" THEN "dead" ELSE "idle")
  /\ Syscall(t, NoCall)
  /\ UNCHANGED <<word, fufault, want, how, rd, wr, owner, ran, left>> /\ KernelSame

----------------------------------------------------------------------------
\* pthread_spin_lock: a lock that is not free is waited for unless it is the thread's
\* own.
UsSpin(t) ==
  /\ Kind = "spin"
  /\ \/ /\ UAt(t, "try") /\ Word # 0 /\ how[t] # "try"
        /\ Goto(t, "holder") /\ UNCHANGED <<word, wr, want, how>>
     \/ UAt(t, "holder") /\ owner = t /\ Done(t) /\ UNCHANGED <<word, wr>>
     \/ UAt(t, "holder") /\ owner # t /\ Goto(t, "spin") /\ UNCHANGED <<word, wr, want, how>>
     \/ /\ UAt(t, "spin") /\ Word = 0
        /\ SetWord(1) /\ wr' = More(wr, t) /\ Goto(t, "own")
        /\ UNCHANGED <<want, how>>
  /\ UNCHANGED <<kcall, fufault, rd, owner, ran, left>> /\ KernelSame

\* pthread_spin_unlock clears the holder before it clears the lock.
UsSpinUnlock(t) ==
  /\ UAt(t, "idle") /\ Kind = "spin" /\ wr[t] > 0
  /\ Goto(t, IF owner = t THEN "unlock" ELSE "refused")
  /\ owner' = IF owner = t THEN NoOwner ELSE owner
  /\ UNCHANGED <<kvars, want, how, rd, wr, ran, left>>

UsSpinUnlocked(t) ==
  /\ UAt(t, "unlock")
  /\ SetWord(0) /\ wr' = Less(wr, t) /\ Goto(t, "idle")
  /\ UNCHANGED <<kcall, fufault, want, how, rd, owner, ran, left>> /\ KernelSame

\* pthread_once: the first caller runs the routine, the others wait for it to end.
UsOnce(t) ==
  /\ Kind = "once"
  /\ \/ /\ UAt(t, "idle") /\ Pay(t)
        /\ Goto(t, CASE Word = 0 -> "routine" [] Word = Words - 1 -> "yield" [] OTHER -> "done")
        /\ SetWord(IF Word = 0 THEN Words - 1 ELSE Word)
        /\ UNCHANGED ran
     \/ UAt(t, "routine") /\ ran' = ran + 1 /\ Goto(t, "store") /\ UNCHANGED <<word, left>>
     \/ UAt(t, "store") /\ SetWord(1) /\ Goto(t, "done") /\ UNCHANGED <<ran, left>>
     \/ /\ UAt(t, "yield") /\ Word # Words - 1
        /\ Goto(t, "done")
        /\ UNCHANGED <<word, ran, left>>
  /\ UNCHANGED <<kcall, fufault, want, how, rd, wr, owner>> /\ KernelSame

----------------------------------------------------------------------------
\* Threads that make system calls of their own, and ones that change a word and
\* then wake everybody who waits for it.
UsCall(t) ==
  /\ UAt(t, "idle") /\ Pay(t)
  /\ Kind = "calls" \/ (Kind = "test" /\ t # fuuse.main)
  /\ \E c \in fuuse.calls : Syscall(t, c)
  /\ Goto(t, "call")
  /\ UNCHANGED <<word, fufault, want, how, rd, wr, owner, ran>> /\ KernelSame

UsCalled(t) ==
  /\ UAt(t, "call") /\ KAt(t, "ret")
  /\ Goto(t, IF kcall[t].ret = "KE_INTR" THEN "dead" ELSE "idle")
  /\ Syscall(t, NoCall)
  /\ UNCHANGED <<word, fufault, want, how, rd, wr, owner, ran, left>> /\ KernelSame

UsChange(t) ==
  /\ UAt(t, "idle") /\ Kind = "calls" /\ Pay(t)
  /\ \E p \in fuuse.posts :
       /\ word' = [word EXCEPT ![p.a] = p.val]
       /\ Syscall(t, SendCall(p.a, Words - 1))
  /\ Goto(t, "send")
  /\ UNCHANGED <<fufault, want, how, rd, wr, owner, ran>> /\ KernelSame

\* The main thread of the futex test waits until all the others are ready and sends
\* them data.
UsMain(t) ==
  /\ UAt(t, "idle") /\ Kind = "test" /\ t = fuuse.main /\ left[t] > 0
  /\ \/ /\ Word # Cardinality(FuTasks) - 1
        /\ Syscall(t, RecvCall(Lock, "EQUAL", TRUE, Cardinality(FuTasks) - 1, "recv"))
        /\ Goto(t, "call")
        /\ UNCHANGED left
     \/ /\ Word = Cardinality(FuTasks) - 1
        /\ \E a \in Addrs \ {Lock} :
             Syscall(t, [SendCall(a, Words - 1) EXCEPT !.how = "vrecv", !.val2 = 1])
        /\ Goto(t, "send") /\ Pay(t)
  /\ UNCHANGED <<word, fufault, want, how, rd, wr, owner, ran>> /\ KernelSame

\* What a thread does inside a call, and the releases it owes.
Run(t) ==
  \/ Kernel(t) /\ UNCHANGED uvars
  \/ UsOwner(t) \/ UsAgain(t) \/ UsTry(t) \/ UsOwn(t) \/ UsWaited(t) \/ UsUnlock(t)
  \/ UsUnlockOwned(t) \/ UsEnd(t) \/ UsPost(t) \/ UsKsemRelease(t) \/ UsSent(t)
  \/ UsSpin(t) \/ UsSpinUnlock(t) \/ UsSpinUnlocked(t) \/ UsOnce(t) \/ UsCalled(t)
  \/ UsMain(t) \/ (Kind = "test" /\ UsCall(t))

\* What it is free to do.
Choose(t) ==
  UsBegin(t) \/ UsDowngrade(t) \/ UsUpgrade(t) \/ UsKsem(t) \/ UsCall(t) \/ UsChange(t)

UsNext ==
  \E t \in FuTasks :
    (Run(t) \/ Choose(t) \/ (Elsewhere(t) /\ UNCHANGED uvars)) /\ UNCHANGED fuuse

UsSpec == UsInit /\ [][UsNext]_usvars

\* As long as a thread can go on inside a call, or owes a release, the CPU is not
\* left idle (Sched); a thread waits in a spin without a step.
UsFairness == WF_usvars(\E t \in FuTasks : Run(t) /\ UNCHANGED fuuse)

----------------------------------------------------------------------------
\* The type invariant: words, references, the lock of the address space, the owner.
UsTypeOK ==
  /\ word \in [Addrs -> 0 .. Words - 1]
  /\ \A a \in Addrs : refs[a] \in Nat
  /\ shm \in [FuTasks -> {"none", "read", "write", "upgrade", "signaled", "late"}]
  /\ owner \in FuTasks \cup {NoOwner}

\* How often all threads together have the object.
Total(f) == Cardinality({<<t, i>> \in FuTasks \X (1 .. fuuse.n) : i <= f[t]})

\* The owner of a recursive mutex that is free is still its last owner: only a use
\* where no thread comes back to it is exclusive.
Excluding == Kind \in (Locks \ {"sem"}) \cup {"spin"} /\ (Kind = "rmutex" => ~fuuse.again)

\* A thread that has a mutex, a spin lock, or a read-write lock for writing is the
\* only one that has it, through recursion, upgrades, downgrades, timeouts and
\* terminated waiters.
UsExclusion ==
  Excluding => \A t, u \in FuTasks : t # u /\ wr[t] > 0 => rd[u] + wr[u] = 0

\* The word always says who has the object: no reader is lost at the limit of the
\* read count, no ticket of a semaphore is lost or handed out twice.
WordAgrees ==
  /\ Kind = "sem" => Word + Total(wr) = fuuse.init
  /\ Excluding => Word = IF Kind = "rwlock" THEN Total(rd) + WriteMode * Total(wr)
                        ELSE Total(wr)

\* A thread in the kernel that only a send to one of its words wakes.
Sleeps(t) == kcall[t].pc = "wait" /\ fusig.task[t].asleep /\ ~fusig.task[t].timed

\* A timed waiter leaves its slot in the queue, where it takes a wake-up that was
\* meant for another thread; a terminated one takes it along.
Reliable == ~fuuse.intr /\ "timed" \notin fuuse.hows

\* No wake-up is lost between the test of a lock and the wait for it: when a thread
\* sleeps for what it could have, another thread is on its way to send, or is about
\* to take the object itself and sends when it releases it.
LockNoLostWake ==
  Kind \in Locks /\ Reliable =>
    \A t \in FuTasks :
      upc[t] = "recv" /\ Sleeps(t) /\ ~Waits(kcall[t]) =>
        \E u \in FuTasks :
          \/ upc[u] = "send" /\ kcall[u].pc \in {"enter", "send"}
          \/ upc[u] \in {"owner", "again", "try"}
          \/ upc[u] = "recv" /\ ~Sleeps(u)

\* The commands of kshm_futex that change a second word look its futex up before
\* they have exclusive access, and miss a waiter that comes in between.
Careless(c) == c.cmd \notin {"send", "recv"} /\ ~c.set

\* The wait is atomic with the test of all words: a thread sleeps on a condition
\* that no longer holds only as long as the send for the word that changed is
\* still to come.  C0 is meant to wake nobody, and C1 only one thread.
CallNoLostWake ==
  Kind \in {"calls", "test"} /\ Reliable /\ (\A c \in fuuse.calls : ~Careless(c)) =>
    \A t \in FuTasks : \A k \in kcall[t].conds :
      Sleeps(t) /\ ~Holds(k, word[k.a])
        /\ (\A c \in fuuse.calls : c.cmd \in {"C0", "C1"} => c.a2 # k.a) =>
        \E u \in FuTasks : kcall[u].cmd = "send" /\ k.a \in On(kcall[u])

\* The references a call has.
Held(t) ==
  (IF kcall[t].pc \in {"user", "enter", "ret"} THEN {} ELSE On(kcall[t]))
     \cup Second(kcall[t])

\* A futex that a call still uses is never freed, and on every path each reference
\* is released, except for the second futex of a careless call.
FuRefs ==
  \A a \in Addrs :
    LET n == Cardinality({t \in FuTasks : a \in Held(t)})
    IN  /\ refs[a] >= n
        /\ (\A c \in fuuse.calls : ~Careless(c)) => refs[a] = n

\* No path leaves the lock of the address space behind, and none sleeps with it.
ShmReleased ==
  fufault = "none" =>
    \A t \in FuTasks :
      kcall[t].pc \in {"user", "enter", "relook", "enqueued", "wait", "ret"} => shm[t] = "none"

\* No assertion of the system calls or of the locks fails, unless a careless call
\* meets others, a call divides by 0, an upgrade is interrupted, or a thread comes
\* back to a recursive mutex.
FuNoAssert ==
  \/ fufault = "none"
  \/ \E c \in fuuse.calls :
       c.cmd \notin {"send", "recv"} /\ (~c.set \/ fuuse.intr \/ c.op2 = "DIV")
  \/ Kind = "rmutex" /\ fuuse.again

\* Whoever returns from pthread_once returns after the only run of the routine.
OnceRan == Kind = "once" => ran <= 1 /\ ((\E t \in FuTasks : upc[t] = "done") => ran = 1)

\* The threads of the futex test get the data, as its assertion says.
TestDelivers ==
  Kind = "test" =>
    \A t \in FuTasks \ {fuuse.main} :
      upc[t] = "call" /\ kcall[t].pc = "ret" => kcall[t].ret = "KE_OK"

\* The uses where every call to lock is granted: the holder releases the lock, and
\* exclusion is not broken.
Granting == Reliable /\ Kind # "errorcheck_recursive" /\ (Kind = "rmutex" => ~fuuse.again)

\* When threads stop making new calls to lock, every one made returns, whichever
\* waiters the releases wake; the threads of the futex test all become ready, get
\* the data and return.
CallsEnd ==
  (Kind = "test" \/ (Kind \in Locks \cup {"spin", "once"} /\ Granting))
    ~> (\A t \in FuTasks : upc[t] \in {"idle", "done"} /\ (Kind = "test" => left[t] = 0))

\* A user-space object does what its calls promise: it excludes, its word says who has
\* it, a once-routine runs once, and the futex test delivers.
UsSound == UsTypeOK /\ UsExclusion /\ WordAgrees /\ OnceRan /\ TestDelivers

\* No wake-up is lost between a test and a wait, for locks and for system calls.
NoLostWake == LockNoLostWake /\ CallNoLostWake

\* Every path through the system calls gives back what it took.
FuReleased == FuRefs /\ ShmReleased /\ FuNoAssert
=============================================================================
