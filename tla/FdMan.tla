------------------------------- MODULE FdMan -------------------------------
(***************************************************************************)
(* The descriptor table of a process: struct kfdman                        *)
(* (include/kos/kernel/fdman.h, src/kernel/fdman.c) and the kproc_*fd      *)
(* functions of src/kernel/sched/proc-fdman.c.inl.                         *)
(*                                                                         *)
(* A region of the code under KPROC_LOCK_FDMAN is one step.  kproc_dupfd   *)
(* is two such regions, kproc_closeall one per closed descriptor, and a    *)
(* reference is dropped after the lock was released, so threads of a       *)
(* process interleave between them.  The files are the objects the         *)
(* descriptors refer to, with their reference counts.  The build asserts   *)
(* (__DEBUG__): a failing assertion stops the kernel.                      *)
(***************************************************************************)
EXTENDS Integers, Sequences, FiniteSets, FiniteSetsExt

CONSTANTS
  FdThreads,  \* the threads of all processes
  FdProcs,    \* the processes
  FirstProc,  \* the one that exists at the start
  ProcOf,     \* the process of each thread
  Files,      \* what descriptors refer to
  NoFile,     \* fd_data = NULL
  fdm_max,    \* the limit of every table
  RefMax,     \* the largest reference count (bound)
  FdUses      \* the calls clients make and how many (bound)

FdCalls == {"open", "use", "dup", "dup2", "duph", "openat", "openh", "close",
            "closespecial", "closeall", "fork", "exit", "nomem"}

ASSUME FdAssumption ==
  /\ IsFiniteSet(FdThreads)
  /\ IsFiniteSet(FdProcs)
  /\ NoFile \notin Files
  /\ FirstProc \in FdProcs
  /\ ProcOf \in [FdThreads -> FdProcs]
  /\ fdm_max \in Nat \ {0}
  /\ RefMax \in Nat \ {0}
  /\ FdUses \subseteq [calls : SUBSET FdCalls, n : Nat]

VARIABLES
  fdman,   \* struct kfdman of each process
  live,    \* the processes whose table is initialized
  frefs,   \* the reference count of each file
  hand,    \* the struct kfdentry each thread has on its stack
  fdpc,    \* what each thread is about to do with it
  fault,   \* the assertion or the memory fault that stopped the kernel
  fdleft,  \* how many more calls clients make
  fduse    \* the use: chosen at the start and kept

fdvars == <<fdman, live, frefs, hand, fdpc, fault, fdleft, fduse>>

KFD_ROOT == -2
KFD_CWD == -1
Special == {KFD_ROOT, KFD_CWD}
Fds == Special \cup 0..fdm_max - 1

\* struct kfdentry: fd_type # KFDTYPE_NONE, and fd_data, which an open slot has.
Slot == {s \in [open : BOOLEAN, data : Files \cup {NoFile}] : s.open => s.data # NoFile}
NoSlot == [open |-> FALSE, data |-> NoFile]

\* struct kfdman
Man ==
  {m \in [fdm_cnt : Nat, fdm_fre : 0..fdm_max, fdm_fda : 0..fdm_max,
          fdm_fdv : UNION {[0..n - 1 -> Slot] : n \in 0..fdm_max}, special : [Special -> Slot]] :
     DOMAIN m.fdm_fdv = 0..m.fdm_fda - 1}

NewMan == [fdm_cnt |-> 0, fdm_fre |-> 0, fdm_fda |-> 0, fdm_fdv |-> <<>>,
           special |-> [fd \in Special |-> NoSlot]]

Idle == [op |-> "idle", fd |-> 0, reg |-> <<>>, spec |-> <<>>, n |-> 0, trim |-> FALSE]

Ops == {"idle", "ins", "insat", "insh", "drop", "dropall", "closing"}
Faults == {"none", "assert", "bounds", "loop"}

\* The type invariant of the tables, the threads and the files.
FdTypeOK ==
  /\ fdman \in [FdProcs -> Man]
  /\ live \subseteq FdProcs
  /\ frefs \in [Files -> 0..RefMax]
  /\ hand \in [FdThreads -> Slot]
  /\ \A t \in FdThreads : fdpc[t].op \in Ops
  /\ fault \in Faults
  /\ fdleft \in Nat
  /\ fduse \in FdUses

FdInit ==
  /\ fdman = [p \in FdProcs |-> NewMan]
  /\ live = {FirstProc}
  /\ frefs = [f \in Files |-> 0]
  /\ hand = [t \in FdThreads |-> NoSlot]
  /\ fdpc = [t \in FdThreads |-> Idle]
  /\ fault = "none"
  /\ fduse \in FdUses
  /\ fdleft = fduse.n

----------------------------------------------------------------------------
(* The vector *)

\* kfdman_slot
HasSlot(m, fd) == fd \in Special \/ (fd >= 0 /\ fd < m.fdm_fda)

At(m, fd) == IF fd < 0 THEN m.special[fd] ELSE m.fdm_fdv[fd]

\* The file that descriptor fd of table m refers to.
FileAt(m, fd) == IF HasSlot(m, fd) /\ At(m, fd).open THEN At(m, fd).data ELSE NoFile

WithSlot(m, fd, s) ==
  IF fd < 0 THEN [m EXCEPT !.special[fd] = s] ELSE [m EXCEPT !.fdm_fdv[fd] = s]

\* realloc of the vector, new slots zeroed.
Resized(m, n) ==
  [m EXCEPT !.fdm_fda = n,
            !.fdm_fdv = [i \in 0..n - 1 |-> IF i < m.fdm_fda THEN m.fdm_fdv[i] ELSE NoSlot]]

Counted(m, k) == [m EXCEPT !.fdm_cnt = @ + k]

OpenFds(m) == {i \in 0..m.fdm_fda - 1 : m.fdm_fdv[i].open}

\* kproc_free_unused_fd_memory: the smallest vector with every open descriptor.
NewAlloc(m) == IF OpenFds(m) = {} THEN 0 ELSE Max(OpenFds(m)) + 1

TrimAsserts(m) == (m.fdm_cnt # 0) = (NewAlloc(m) # 0)

Trimmed(m, mem) == IF mem \/ NewAlloc(m) = 0 THEN Resized(m, NewAlloc(m)) ELSE m

----------------------------------------------------------------------------
(* Threads *)

Running(t, op) == fault = "none" /\ ProcOf[t] \in live /\ fdpc[t].op = op

FdPay(c) ==
  /\ c \in fduse.calls
  /\ fdleft > 0
  /\ fdleft' = fdleft - 1

Todo(op, fd) == [Idle EXCEPT !.op = op, !.fd = fd]

ThenAt(t, op, fd) == fdpc' = [fdpc EXCEPT ![t] = Todo(op, fd)]

Then(t, op) == ThenAt(t, op, 0)

Store(t, m) == fdman' = [fdman EXCEPT ![ProcOf[t]] = m]

\* kfile_incref and kfile_decref
Ref(f, k) == frefs' = [frefs EXCEPT ![f] = @ + k]

Mem == IF "nomem" \in fduse.calls THEN BOOLEAN ELSE {TRUE}

\* An assertion fails, or memory outside the vector is used, or a loop with the
\* lock held never ends.
Stop(kind) ==
  /\ fault' = kind
  /\ UNCHANGED <<fdman, live, frefs, hand, fdpc, fduse>>

Fail(kind) == Stop(kind) /\ UNCHANGED fdleft

\* A thread opened a file and is about to give it a descriptor.
Open(t) ==
  /\ Running(t, "idle")
  /\ \E f \in Files :
       /\ frefs[f] = 0
       /\ Ref(f, 1)
       /\ hand' = [hand EXCEPT ![t] = [open |-> TRUE, data |-> f]]
  /\ \/ FdPay("open") /\ Then(t, "ins")
     \/ /\ FdPay("openat")
        /\ \E fd \in Fds \cup {fdm_max} : ThenAt(t, "insat", fd)
     \/ /\ FdPay("openh")
        /\ \E fd \in 0..fdm_max : ThenAt(t, "insh", fd)
  /\ UNCHANGED <<fdman, live, fault, fduse>>

\* The entry under a descriptor is copied, with a reference, for a call that uses the
\* file and drops it (kproc_user_readfd_c and its siblings) or for kproc_dupfd_c,
\* kproc_dupfd2_c and kproc_dupfdh_c.  A slot of the vector that is not open is
\* copied as well, and the copy has no reference.
CopyEntry(t, m) ==
  /\ \E fd \in Fds :
       /\ HasSlot(m, fd)
       /\ \/ ~At(m, fd).open /\ UNCHANGED frefs
          \/ At(m, fd).open /\ frefs[At(m, fd).data] < RefMax /\ Ref(At(m, fd).data, 1)
       /\ hand' = [hand EXCEPT ![t] = IF At(m, fd).open THEN At(m, fd) ELSE NoSlot]
  /\ \/ FdPay("use") /\ Then(t, "drop")
     \/ FdPay("dup") /\ Then(t, "ins")
     \/ /\ FdPay("dup2")
        /\ \E fd \in Fds \cup {fdm_max} : ThenAt(t, "insat", fd)
     \/ /\ FdPay("duph")
        /\ \E fd \in 0..fdm_max : ThenAt(t, "insh", fd)
  /\ UNCHANGED <<fdman, live, fault, fduse>>

\* kproc_getfd
GetFd(t) ==
  LET m == fdman[ProcOf[t]] IN
  /\ Running(t, "idle")
  /\ IF m.fdm_cnt <= m.fdm_fda
     THEN CopyEntry(t, m)
     ELSE fduse.calls \cap {"use", "dup", "dup2", "duph"} # {} /\ Fail("assert")

\* The entry was stored: the table owns the reference.
Inherited(t, m, fd) ==
  /\ Store(t, WithSlot(m, fd, hand[t]))
  /\ hand' = [hand EXCEPT ![t] = NoSlot]
  /\ Then(t, "idle")
  /\ UNCHANGED <<live, frefs, fault, fdleft, fduse>>

\* The insertion failed: the caller drops the entry.
Rejected(t) ==
  /\ Then(t, "drop")
  /\ UNCHANGED <<fdman, live, frefs, hand, fault, fdleft, fduse>>

\* The free slots as kproc_insfd_inherited looks for them: by fd_data, from
\* fdm_fre on and around the end of the vector.
FreeFrom(m, i) == {j \in i..m.fdm_fda - 1 : m.fdm_fdv[j].data = NoFile}

\* Mutant: the slot under the hint is taken without a look at it.
NextFreeHint(m) == IF m.fdm_fre >= m.fdm_fda THEN 0 ELSE m.fdm_fre

NextFree(m) ==
  LET start == IF m.fdm_fre >= m.fdm_fda THEN 0 ELSE m.fdm_fre
  IN  IF FreeFrom(m, start) # {} THEN Min(FreeFrom(m, start)) ELSE Min(FreeFrom(m, 0))

\* kproc_insfd_inherited
InsFd(t) ==
  LET m == fdman[ProcOf[t]]
      full == m.fdm_cnt = m.fdm_fda
      double == IF m.fdm_fda = 0 THEN 2 ELSE 2 * m.fdm_fda
      newalloc == Min({double, fdm_max})
  IN
  /\ Running(t, "ins")
  /\ \/ (~hand[t].open \/ m.fdm_cnt > m.fdm_fda) /\ Fail("assert")
     \/ /\ hand[t].open
        /\ m.fdm_cnt < m.fdm_fda
        /\ IF FreeFrom(m, 0) = {}
           THEN Fail("loop")
           ELSE Inherited(t, [Counted(m, 1) EXCEPT !.fdm_fre = NextFree(m)], NextFree(m))
     \/ /\ hand[t].open
        /\ full
        /\ m.fdm_cnt # fdm_max
        /\ Inherited(t, [Counted(Resized(m, newalloc), 1) EXCEPT !.fdm_fre = m.fdm_fda + 1], m.fdm_fda)
     \/ hand[t].open /\ full /\ (m.fdm_cnt = fdm_max \/ FALSE \in Mem) /\ Rejected(t)

\* The entry replaces another one, which the thread drops without the lock.
Replaced(t, m, fd) ==
  /\ Store(t, WithSlot(m, fd, hand[t]))
  /\ hand' = [hand EXCEPT ![t] = At(m, fd)]
  /\ Then(t, "drop")
  /\ UNCHANGED <<live, frefs, fault, fdleft, fduse>>

\* kproc_insfdat_inherited.  A slot counts as used when its fd_data is not NULL.
InsFdAt(t) ==
  LET m == fdman[ProcOf[t]]
      fd == fdpc[t].fd
      fits == fd >= 0 /\ fd < fdm_max
  IN
  /\ Running(t, "insat")
  /\ \/ (~hand[t].open \/ m.fdm_cnt > m.fdm_fda) /\ Fail("assert")
     \/ /\ hand[t].open
        /\ fd \in Special
        /\ IF At(m, fd).open
           THEN Replaced(t, m, fd)
           ELSE Inherited(t, m, fd)
     \/ /\ hand[t].open
        /\ fits
        /\ fd < m.fdm_fda
        /\ IF At(m, fd).data # NoFile THEN Replaced(t, m, fd) ELSE Inherited(t, Counted(m, 1), fd)
     \/ hand[t].open /\ fits /\ fd >= m.fdm_fda /\ Inherited(t, Counted(Resized(m, fd + 1), 1), fd)
     \/ hand[t].open /\ fd >= m.fdm_fda /\ (~fits \/ FALSE \in Mem) /\ Rejected(t)

\* kproc_insfdh_inherited: the nearest slot from the hint on that is not open,
\* or a new one at the end.
InsFdH(t) ==
  LET m == fdman[ProcOf[t]]
      closed == {j \in fdpc[t].fd..m.fdm_fda - 1 : ~m.fdm_fdv[j].open}
  IN
  /\ Running(t, "insh")
  /\ \/ (~hand[t].open \/ m.fdm_cnt > m.fdm_fda) /\ Fail("assert")
     \/ hand[t].open /\ closed # {} /\ Inherited(t, Counted(m, 1), Min(closed))
     \/ /\ hand[t].open
        /\ closed = {}
        /\ m.fdm_fda < fdm_max
        /\ Inherited(t, Counted(Resized(m, m.fdm_fda + 1), 1), m.fdm_fda)
     \/ /\ hand[t].open
        /\ closed = {}
        /\ m.fdm_fda = fdm_max \/ FALSE \in Mem
        /\ Rejected(t)

\* kfdentry_quit, with the lock released.
Quit(t, op, next) ==
  /\ Running(t, op)
  /\ IF hand[t].open THEN Ref(hand[t].data, -1) ELSE UNCHANGED frefs
  /\ hand' = [hand EXCEPT ![t] = NoSlot]
  /\ fdpc' = [fdpc EXCEPT ![t].op = next]
  /\ UNCHANGED <<fdman, live, fault, fdleft, fduse>>

\* kproc_closefd
CloseFd(t) ==
  LET m == fdman[ProcOf[t]] IN
  /\ Running(t, "idle")
  /\ \E fd \in Fds :
       /\ fd \in Special => "closespecial" \in fduse.calls
       /\ HasSlot(m, fd)
       /\ At(m, fd).open
       /\ LET rest == Counted(WithSlot(m, fd, NoSlot), -1)
          IN  \/ (m.fdm_cnt = 0 \/ ~TrimAsserts(rest)) /\ "close" \in fduse.calls /\ Fail("assert")
              \/ /\ m.fdm_cnt > 0
                 /\ TrimAsserts(rest)
                 /\ FdPay("close")
                 /\ \E mem \in Mem : Store(t, Trimmed(rest, mem))
                 /\ hand' = [hand EXCEPT ![t] = At(m, fd)]
                 /\ Then(t, "drop")
                 /\ UNCHANGED <<live, frefs, fault, fduse>>

----------------------------------------------------------------------------
(* kproc_closeall: reg are the regular descriptors still to be looked at,   *)
(* spec the special ones, n counts what was closed.                         *)

FdRange(lo, hi) == [i \in 1..(IF hi < lo THEN 0 ELSE hi - lo + 1) |-> lo + i - 1]

\* One descriptor is closed: fd_data stays, and the lock is dropped.
CloseSlot(t, m, fd, c) ==
  /\ Store(t, Counted(WithSlot(m, fd, [At(m, fd) EXCEPT !.open = FALSE]), -1))
  /\ hand' = [hand EXCEPT ![t] = At(m, fd)]
  /\ fdpc' = [fdpc EXCEPT ![t] = c]
  /\ UNCHANGED <<live, frefs, fault, fduse>>

Left(reg, spec, n, trim) ==
  [op |-> "dropall", fd |-> 0, reg |-> reg, spec |-> spec, n |-> n, trim |-> trim]

\* The code from one lock to the next unlock, c being what is left to do.  The
\* vector is looked at again after each unlock, the end of the range is not.
CloseSome(t, c) ==
  LET m == fdman[ProcOf[t]]
      hit == {k \in 1..Len(c.reg) : c.reg[k] >= m.fdm_fda \/ m.fdm_fdv[c.reg[k]].open}
      fd == c.reg[Min(hit)]
      trims == c.trim /\ c.n > 0
      special == {k \in 1..Len(c.spec) : m.special[c.spec[k]].open}
      sp == c.spec[Min(special)]
  IN
  \/ /\ hit # {}
     /\ fd >= m.fdm_fda
     /\ Stop("bounds")
  \/ /\ hit # {}
     /\ fd < m.fdm_fda
     /\ m.fdm_cnt = 0
     /\ Stop("assert")
  \/ /\ hit # {}
     /\ fd < m.fdm_fda
     /\ m.fdm_cnt > 0
     /\ CloseSlot(t, m, fd, Left(SubSeq(c.reg, Min(hit) + 1, Len(c.reg)), c.spec, c.n + 1, c.trim))
  \/ /\ hit = {}
     /\ \/ trims /\ ~TrimAsserts(m)
        \/ special # {} /\ m.fdm_cnt = 0
     /\ Stop("assert")
  \/ /\ hit = {}
     /\ trims => TrimAsserts(m)
     /\ \E mem \in Mem :
          LET left == IF trims THEN Trimmed(m, mem) ELSE m
          IN  IF special = {}
              THEN /\ Store(t, left)
                   /\ Then(t, "idle")
                   /\ UNCHANGED <<live, frefs, hand, fault, fduse>>
              ELSE /\ m.fdm_cnt > 0
                   /\ CloseSlot(t, left, sp,
                        Left(<<>>, SubSeq(c.spec, Min(special) + 1, Len(c.spec)), c.n + 1, FALSE))

\* The special descriptor fd, if it is in the range.
InRange(fd, low, high) == IF low <= fd /\ fd <= high THEN <<fd>> ELSE <<>>

\* The call, with the range low..high.  An empty vector makes fdm_fda-1 wrap.
CloseAll(t) ==
  LET m == fdman[ProcOf[t]] IN
  /\ Running(t, "idle")
  /\ \E low, high \in {KFD_CWD} \cup 0..fdm_max :
       LET last == IF m.fdm_fda = 0 THEN high ELSE Min({high, m.fdm_fda - 1})
           first == Max({0, low})
       IN  /\ low <= high
           /\ FdPay("closeall")
           /\ IF high >= 0 /\ last + 1 < first
              THEN Stop("assert")
              ELSE CloseSome(t, [op |-> "closing", fd |-> 0, n |-> 0, trim |-> high >= 0,
                                 reg |-> IF high >= 0 THEN FdRange(first, last) ELSE <<>>,
                                 spec |-> InRange(KFD_ROOT, low, high) \o InRange(KFD_CWD, low, high)])

\* The lock is taken again; when that fails, the function returns.
CloseAllGoesOn(t) ==
  /\ Running(t, "closing")
  /\ UNCHANGED fdleft
  /\ \/ CloseSome(t, fdpc[t])
     \/ Then(t, "idle") /\ UNCHANGED <<fdman, live, frefs, hand, fault, fduse>>

----------------------------------------------------------------------------
(* Processes *)

\* Mutant: the special descriptors are copied without a reference.
FdRefsInRegular(m, f) == Cardinality({fd \in OpenFds(m) : FileAt(m, fd) = f})

\* How many descriptors of table m refer to file f.
FdRefsIn(m, f) == Cardinality({fd \in Fds : FileAt(m, fd) = f})

\* kfdman_initcopy, called by kproc_copy4fork with the lock of the parent.  When
\* a reference count would overflow, what was copied is dropped again.
Fork(t) ==
  LET m == fdman[ProcOf[t]]
      asserts == (m.fdm_cnt # 0) = (m.fdm_fda # 0) /\ m.fdm_cnt <= m.fdm_fda
  IN
  /\ Running(t, "idle")
  /\ FdPay("fork")
  /\ \E q \in FdProcs \ live :
       \/ /\ ~asserts
          /\ Stop("assert")
       \/ /\ asserts
          /\ \A f \in Files : frefs[f] + FdRefsIn(m, f) <= RefMax
          /\ frefs' = [f \in Files |-> frefs[f] + FdRefsIn(m, f)]
          /\ fdman' = [fdman EXCEPT ![q] = m]
          /\ live' = live \cup {q}
          /\ UNCHANGED <<hand, fdpc, fault, fduse>>

\* kfdman_quit, called by kproc_close when the last thread of p is gone.
ProcExit(p) ==
  /\ fault = "none"
  /\ p \in live
  /\ "exit" \in fduse.calls
  /\ \A t \in FdThreads : ProcOf[t] = p => fdpc[t].op = "idle"
  /\ frefs' = [f \in Files |-> frefs[f] - FdRefsIn(fdman[p], f)]
  /\ fdman' = [fdman EXCEPT ![p] = NewMan]
  /\ live' = live \ {p}
  /\ UNCHANGED <<hand, fdpc, fault, fdleft, fduse>>

FdNext ==
  \/ \E t \in FdThreads :
       \/ Open(t) \/ GetFd(t) \/ InsFd(t) \/ InsFdAt(t) \/ InsFdH(t)
       \/ Quit(t, "drop", "idle") \/ Quit(t, "dropall", "closing")
       \/ CloseFd(t) \/ CloseAll(t) \/ CloseAllGoesOn(t) \/ Fork(t)
  \/ \E p \in FdProcs : ProcExit(p)

FdSpec == FdInit /\ [][FdNext]_fdvars

----------------------------------------------------------------------------
\* The calls after which the code's counters and vectors are no longer right.
Sound == fduse.calls \cap {"dup", "dup2", "duph", "closeall", "closespecial"} = {}

\* The file that the entry on the stack of thread t refers to.
HandFile(t) == IF hand[t].open THEN hand[t].data ELSE NoFile

\* The descriptors of all processes, and the threads, that refer to file f.
Cells(f) == {d \in FdProcs \X Fds : FileAt(fdman[d[1]], d[2]) = f}
Hands(f) == {t \in FdThreads : HandFile(t) = f}

\* Every reference is accounted for: the count of a file is the number of
\* descriptors of all processes and of entries on the stacks of threads that
\* refer to it, whatever calls are interleaved.
FdRefs ==
  \A f \in Files : frefs[f] = Cardinality(Cells(f)) + Cardinality(Hands(f))

\* "Amount of valid file descriptors" (fdm_cnt): without kproc_closeall and closes
\* of the special descriptors it is the number of open slots of the vector, so
\* the search for a free slot ends, and a fork copies the table.
FdCount ==
  fduse.calls \cap {"closeall", "closespecial"} = {} =>
    \A p \in live : fdman[p].fdm_cnt = Cardinality(OpenFds(fdman[p]))

\* No assertion of these functions fails, no slot outside the vector is used and
\* no loop runs forever, as long as kproc_closeall, closes of special descriptors
\* and the duplication of descriptors are not among the calls.
FdNoFault == Sound => fault = "none"

\* The tables as partial functions, the thread's entry as a file.
FdTables == [p \in FdProcs |-> [fd \in Fds |-> FileAt(fdman[p], fd)]]
FdHeld == [t \in FdThreads |-> HandFile(t)]
FdDoing == [t \in FdThreads |-> fdpc[t].op]
FdAlive == {f \in Files : frefs[f] > 0}

Table ==
  INSTANCE FdTable WITH table <- FdTables, held <- FdHeld, doing <- FdDoing, alive <- FdAlive

\* The vectors, hints and reference counts implement FdTable: an insertion takes
\* a descriptor that named nothing unless it was told which one to replace, a
\* file exists exactly while something refers to it, and a descriptor keeps its
\* file until it is closed or replaced.
FdImplementsTable == Table!ASpec

\* The table is sound after any interleaving: references, the counter, the vector.
FdSound == FdTypeOK /\ FdRefs /\ FdCount /\ FdNoFault
============================================================================
