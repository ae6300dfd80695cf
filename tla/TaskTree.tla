----------------------------- MODULE TaskTree ------------------------------
(***************************************************************************)
(* The life of tasks and processes: reference counts, the thread list of a *)
(* process and the child list of a task (struct ktasklist,                 *)
(* src/kernel/sched/task-util.c.inl), creation, fork, termination and      *)
(* destruction (task.c, proc-tasks.c.inl, proc-fork.c.inl, proc.c), and    *)
(* the list of process ids (proc-pid.c.inl).                               *)
(*                                                                         *)
(* What runs under one lock (KPROC_LOCK_THREADS, KTASK_LOCK_CHILDREN,      *)
(* pl_lock, the state lock of the task) is one step; a count that reaches  *)
(* zero enables the destruction, which other tasks can get in front of.    *)
(***************************************************************************)
EXTENDS Integers, FiniteSets, FiniteSetsExt

CONSTANTS
  TkTasks, Root,      \* the tasks, and the one that always runs
  TkProcs, RootProc,  \* the processes, and that of Root
  NoTk,               \* an empty slot of a list
  TkUses              \* the calls that are made, and how many (bound)

TkCalls == {"thread", "fork", "unreachable", "kill", "exit", "getthread", "getproc", "drop", "nomem"}

ASSUME TkAssumption ==
  /\ Root \in TkTasks
  /\ RootProc \in TkProcs
  /\ NoTk \notin TkTasks \cup TkProcs
  /\ TkUses \subseteq [calls : SUBSET TkCalls, n : Nat]

VARIABLES
  tk,      \* struct ktask
  pr,      \* struct kproc
  pl,      \* struct kproclist
  forked,  \* the process each task has copied and not yet given a thread
  tkfault, \* a failed assertion, a write past the end of pl_procv, use of a freed task
  tkleft,  \* how many more calls are made
  tkuse    \* the use: chosen at the start and kept

tkvars == <<tk, pr, pl, forked, tkfault, tkleft, tkuse>>

\* Tasks: memory not in use; in the thread list and not yet in the child list;
\* created or suspended; scheduled; terminated but still on its own stack;
\* terminated with its data released.
TaskStates == {"free", "new", "susp", "run", "dying", "dead"}

NoList == [freep |-> 0, taskv |-> <<>>]

NoTask == [st |-> "free", refcnt |-> 0, proc |-> NoTk, parent |-> NoTk, tid |-> 0, parid |-> 0,
           children |-> NoList, handles |-> 0]
NoProc == [st |-> "free", refcnt |-> 0, pid |-> 0, threads |-> NoList, handles |-> 0]

Size(l) == Cardinality(DOMAIN l)
Listed(l) == \A i \in DOMAIN l : i \in 0..Size(l) - 1 /\ l[i] \in TkTasks \cup {NoTk}

\* The type invariant of tasks, processes and the three kinds of list.
TkTypeOK ==
  /\ \A t \in TkTasks :
       /\ tk[t].st \in TaskStates
       /\ tk[t].refcnt \in Int
       /\ tk[t].proc \in TkProcs \cup {NoTk}
       /\ Listed(tk[t].children.taskv)
  /\ \A p \in TkProcs :
       /\ pr[p].st \in {"free", "open", "closed"}
       /\ pr[p].refcnt \in Int
       /\ Listed(pr[p].threads.taskv)
  /\ \A i \in DOMAIN pl.procv : pl.procv[i] \in TkProcs \cup {NoTk}
  /\ forked \in [TkTasks -> TkProcs \cup {NoTk}]
  /\ tkfault \in {"none", "assert", "overrun", "freed"}

One(x) == [freep |-> 1, taskv |-> [i \in 0..1 |-> IF i = 0 THEN x ELSE NoTk]]

TkInit ==
  /\ tk = [t \in TkTasks |-> IF t = Root
             THEN [NoTask EXCEPT !.st = "run", !.refcnt = 1, !.proc = RootProc, !.parent = Root]
             ELSE NoTask]
  /\ pr = [p \in TkProcs |-> IF p = RootProc
             THEN [NoProc EXCEPT !.st = "open", !.refcnt = 1, !.threads = One(Root)]
             ELSE NoProc]
  /\ pl = [free |-> 1, procv |-> [i \in 0..1 |-> IF i = 0 THEN RootProc ELSE NoTk]]
  /\ forked = [t \in TkTasks |-> NoTk]
  /\ tkfault = "none"
  /\ tkuse \in TkUses
  /\ tkleft = tkuse.n

----------------------------------------------------------------------------
(* struct ktasklist *)

Vector(v, n) == [i \in 0..n - 1 |-> IF i < Size(v) THEN v[i] ELSE NoTk]

Unused(v, lo, hi) == {i \in lo..hi : v[i] = NoTk}

\* The index ktasklist_insert chooses: a free slot from the hint on, then, if the
\* hint is inside the vector, before it, else a new one.
PlaceFor(l) ==
  LET a == Size(l.taskv)
      after == Unused(l.taskv, l.freep, a - 1)
      before == IF l.freep < a THEN Unused(l.taskv, 0, l.freep - 1) ELSE {}
  IN  IF after # {} THEN Min(after) ELSE IF before # {} THEN Min(before) ELSE a

Grown(a) == IF a = 0 THEN 2 ELSE Max({(a * 3) \div 2, a + 1})

\* Mutant: the slot under the hint is taken without a look at it.
InsertedHint(l, x) ==
  LET i == IF l.freep > 0 THEN l.freep - 1 ELSE 0
      v == IF i < Size(l.taskv) THEN l.taskv ELSE Vector(l.taskv, Grown(Size(l.taskv)))
  IN  [freep |-> i + 1, taskv |-> [v EXCEPT ![i] = x]]

\* ktasklist_insert
Inserted(l, x) ==
  LET i == PlaceFor(l)
      v == IF i < Size(l.taskv) THEN l.taskv ELSE Vector(l.taskv, Grown(Size(l.taskv)))
  IN  [freep |-> i + 1, taskv |-> [v EXCEPT ![i] = x]]

Entry(l, i) == IF i \in DOMAIN l.taskv THEN l.taskv[i] ELSE NoTk

\* ktasklist_erase: the hint moves only when a later slot is in use; otherwise the
\* free slots at the end are given back.
Erased(l, i) ==
  LET v == [l.taskv EXCEPT ![i] = NoTk]
      used == {j \in DOMAIN v : v[j] # NoTk}
  IN  IF i \notin DOMAIN l.taskv THEN l
      ELSE IF \E j \in used : j > i THEN [freep |-> i, taskv |-> v]
      ELSE [freep |-> l.freep, taskv |-> Vector(v, IF used = {} THEN 0 ELSE Max(used) + 1)]

----------------------------------------------------------------------------
(* struct kproclist *)

InUse(l) == Min({l.free, Size(l.procv)})

\* The slot kproclist_addproc finds, or a new one at the end.
NewSlot(l) ==
  LET a == Size(l.procv)
      after == Unused(l.procv, l.free, a - 1)
      before == Unused(l.procv, 0, InUse(l) - 1)
  IN  IF after # {} THEN Min(after) ELSE IF before # {} THEN Min(before) ELSE a

\* When pl_free lies past the end of a full vector, the second loop reads what
\* follows the vector in memory and may take it for a free slot.
Overruns(l) == l.free > Size(l.procv) /\ NewSlot(l) = Size(l.procv)

\* kproclist_addproc storing p at slot i.
ListedAt(l, p, i) ==
  LET a == Size(l.procv)
      v == IF i < a THEN l.procv ELSE Vector(l.procv, IF a = 0 THEN 2 ELSE 2 * a)
  IN  [free |-> i + 1, procv |-> [v EXCEPT ![i] = p]]

\* The results of kproclist_delproc.  With pl_free = pl_proca the test reads one
\* slot past the end.
Delisted(l, p, pid) ==
  LET a == Size(l.procv)
      v == [l.procv EXCEPT ![pid] = NoTk]
      used == {j \in DOMAIN v : v[j] # NoTk}
  IN  IF pid \notin DOMAIN l.procv \/ l.procv[pid] # p THEN {l}
      ELSE IF pid = a - 1
      THEN {[free |-> l.free, procv |-> Vector(v, IF used = {} THEN 0 ELSE Max(used) + 1)]}
      ELSE IF l.free > a THEN {[free |-> pid, procv |-> v]}
      ELSE IF l.free = a THEN {[free |-> pid, procv |-> v], [free |-> l.free, procv |-> v]}
      ELSE {[free |-> IF v[l.free] # NoTk THEN pid ELSE l.free, procv |-> v]}

----------------------------------------------------------------------------
Ok == tkfault = "none"

TkPay(c) ==
  /\ Ok
  /\ c \in tkuse.calls
  /\ tkleft > 0
  /\ tkleft' = tkleft - 1
  /\ UNCHANGED tkuse

Unpaid == UNCHANGED <<tkleft, tkuse>> /\ Ok

\* kproc_deltask: erases whatever the slot of t holds, and closes the process
\* when that leaves no slot at all.
DelTask(q, t) ==
  LET l == Erased(q.threads, tk[t].tid)
      found == Entry(q.threads, tk[t].tid) # NoTk
  IN  [q EXCEPT !.threads = l, !.st = IF found /\ l.taskv = <<>> THEN "closed" ELSE @]

\* Mutant: the parent is not referenced.
NewThreadUnref(c, t) ==
  LET p == tk[c].proc IN
  /\ TkPay("thread")
  /\ tk[c].st = "run" /\ tk[t].st = "free" /\ pr[p].st = "open"
  /\ tk' = [tk EXCEPT ![t] = [NoTask EXCEPT !.st = "new", !.refcnt = 1, !.proc = p, !.parent = c,
                                            !.tid = PlaceFor(pr[p].threads)]]
  /\ pr' = [pr EXCEPT ![p].refcnt = @ + 1, ![p].threads = Inserted(@, t)]
  /\ UNCHANGED <<pl, forked, tkfault>>

\* ktask_newkernel and ktask_newuser up to kproc_addtask, which fails on a closed
\* process.
NewThread(c, t) ==
  LET p == tk[c].proc IN
  /\ TkPay("thread")
  /\ tk[c].st = "run"
  /\ forked[c] = NoTk
  /\ tk[t].st = "free"
  /\ pr[p].st = "open"
  /\ tk' = [tk EXCEPT ![c].refcnt = @ + 1,
                      ![t] = [NoTask EXCEPT !.st = "new", !.refcnt = 1, !.proc = p, !.parent = c,
                                            !.tid = PlaceFor(pr[p].threads)]]
  /\ pr' = [pr EXCEPT ![p].refcnt = @ + 1, ![p].threads = Inserted(@, t)]
  /\ UNCHANGED <<pl, forked, tkfault>>

\* The rest of it: the new task becomes a child of its parent, or, without memory
\* for that, everything is undone and the task is freed.
NewThreadLink(t) ==
  LET c == tk[t].parent
      p == tk[t].proc
      terminated == tk[c].st \in {"dying", "dead"}
  IN
  /\ Unpaid
  /\ tk[t].st = "new"
  /\ \/ /\ ~terminated
        /\ tk' = [tk EXCEPT ![t].st = "susp", ![t].handles = @ + 1,
                            ![t].parid = PlaceFor(tk[c].children),
                            ![c].children = Inserted(@, t)]
        /\ UNCHANGED pr
     \/ /\ terminated \/ "nomem" \in tkuse.calls
        /\ tk' = [tk EXCEPT ![t] = [NoTask EXCEPT !.handles = tk[t].handles], ![c].refcnt = @ - 1]
        /\ pr' = [pr EXCEPT ![p] = [DelTask(@, t) EXCEPT !.refcnt = @ - 1]]
  /\ UNCHANGED <<pl, forked, tkfault>>

\* kproc_copy4fork: a process without threads, already in the list.
ForkProc(c, q) ==
  /\ TkPay("fork")
  /\ tk[c].st = "run"
  /\ forked[c] = NoTk
  /\ pr[tk[c].proc].st = "open"
  /\ pr[q].st = "free"
  /\ \/ /\ pr' = [pr EXCEPT ![q] = [NoProc EXCEPT !.st = "open", !.refcnt = 1, !.pid = NewSlot(pl)]]
        /\ pl' = ListedAt(pl, q, NewSlot(pl))
        /\ forked' = [forked EXCEPT ![c] = q]
        /\ UNCHANGED <<tk, tkfault>>
     \/ Overruns(pl) /\ tkfault' = "overrun" /\ UNCHANGED <<tk, pr, pl, forked>>

\* ktask_copy4fork and the end of ktask_fork.  The thread is entered in the child
\* list of the caller; its parent is the caller, or another task for an
\* unreachable fork.  The error path drops a reference to the caller.
ForkTask(c, t) ==
  LET q == forked[c] IN
  /\ Unpaid
  /\ tk[c].st = "run"
  /\ q # NoTk
  /\ tk[t].st = "free"
  /\ \E parent \in {c} \cup (IF "unreachable" \in tkuse.calls THEN {Root} ELSE {}) :
       LET tk1 == [tk EXCEPT ![parent].refcnt = @ + 1] IN
       \/ /\ tk' = [tk1 EXCEPT ![c].children = Inserted(@, t),
                               ![t] = [NoTask EXCEPT !.st = "susp", !.refcnt = 1, !.handles = 1,
                                         !.proc = q, !.parent = parent,
                                         !.tid = PlaceFor(pr[q].threads),
                                         !.parid = PlaceFor(tk[c].children)]]
          /\ pr' = [pr EXCEPT ![q].threads = Inserted(@, t)]
       \/ /\ "nomem" \in tkuse.calls
          /\ tk' = [tk1 EXCEPT ![c].refcnt = @ - 1]
          /\ pr' = [pr EXCEPT ![q].refcnt = @ - 1]
  /\ forked' = [forked EXCEPT ![c] = NoTk]
  /\ UNCHANGED <<pl, tkfault>>

\* ktask_resume_k of a new task: the CPU holds a reference to it.
Resume(t) ==
  /\ Unpaid
  /\ tk[t].st = "susp"
  /\ tk[t].handles > 0
  /\ tk' = [tk EXCEPT ![t].st = "run", ![t].refcnt = @ + 1]
  /\ UNCHANGED <<pr, pl, forked, tkfault>>

\* A task terminates itself, or switches out after somebody asked it to.
Exit(t) ==
  /\ TkPay("exit")
  /\ t # Root
  /\ tk[t].st = "run"
  /\ forked[t] = NoTk
  /\ \A u \in TkTasks : tk[u].st = "new" => tk[u].parent # t
  /\ tk' = [tk EXCEPT ![t].st = "dying"]
  /\ UNCHANGED <<pr, pl, forked, tkfault>>

\* ktask_decref_f, after the switch away from it: ktask_releasedata.
SwitchedAway(t) ==
  /\ Unpaid
  /\ tk[t].st = "dying"
  /\ tk' = [tk EXCEPT ![t].st = "dead", ![t].refcnt = @ - 1]
  /\ pr' = [pr EXCEPT ![tk[t].proc] = DelTask(@, t)]
  /\ UNCHANGED <<pl, forked, tkfault>>

\* ktask_terminate of another task that is not critical: ktask_onterminateother.
Kill(t) ==
  /\ TkPay("kill")
  /\ t # Root
  /\ tk[t].st \in {"run", "susp"}
  /\ tk[t].handles > 0
  /\ forked[t] = NoTk
  /\ \A u \in TkTasks : tk[u].st = "new" => tk[u].parent # t
  /\ tk' = [tk EXCEPT ![t].st = "dead", ![t].refcnt = IF tk[t].st = "run" THEN @ - 1 ELSE @]
  /\ pr' = [pr EXCEPT ![tk[t].proc] = DelTask(@, t)]
  /\ UNCHANGED <<pl, forked, tkfault>>

\* ktask_destroy, entered by whoever dropped the last reference.  The data was
\* released when the task terminated, and ktask_releasedata runs again.
Destroy(t) ==
  LET u == tk[t].parent IN
  /\ Unpaid
  /\ tk[t].st \in {"susp", "dead"}
  /\ tk[t].refcnt = 0
  /\ IF Entry(tk[u].children, tk[t].parid) = t
     THEN /\ tk' = [tk EXCEPT ![u].children = Erased(@, tk[t].parid), ![u].refcnt = @ - 1,
                              ![t] = NoTask]
          /\ pr' = [pr EXCEPT ![tk[t].proc] = [DelTask(@, t) EXCEPT !.refcnt = @ - 1]]
          /\ UNCHANGED tkfault
     ELSE tkfault' = "assert" /\ UNCHANGED <<tk, pr>>
  /\ UNCHANGED <<pl, forked>>

\* kproc_destroy: kproclist_delproc, kproc_close unless already closed, free.
DestroyProc(p) ==
  /\ Unpaid
  /\ pr[p].st # "free"
  /\ pr[p].refcnt = 0
  /\ pl' \in Delisted(pl, p, pr[p].pid)
  /\ pr' = [pr EXCEPT ![p] = [NoProc EXCEPT !.handles = pr[p].handles]]
  /\ UNCHANGED <<tk, forked, tkfault>>


\* ktask_tryincref and kproc_tryincref succeed.
Revivable(n) == n > 0

\* kproc_getthread, and kproc_enumthreads_c before its callback.
GetThread(p, i) ==
  LET t == Entry(pr[p].threads, i) IN
  /\ TkPay("getthread")
  /\ pr[p].st = "open"
  /\ t # NoTk
  /\ Revivable(tk[t].refcnt)
  /\ tk' = [tk EXCEPT ![t].refcnt = @ + 1, ![t].handles = @ + 1]
  /\ UNCHANGED <<pr, pl, forked, tkfault>>

\* ktask_getchild
GetChild(u, i) ==
  LET t == Entry(tk[u].children, i) IN
  /\ TkPay("getthread")
  /\ tk[u].st # "free"
  /\ t # NoTk
  /\ Revivable(tk[t].refcnt)
  /\ tk' = [tk EXCEPT ![t].refcnt = @ + 1, ![t].handles = @ + 1]
  /\ UNCHANGED <<pr, pl, forked, tkfault>>

\* kproclist_getproc_k, and kproclist_enumproc for each process.
GetProc(i) ==
  LET p == pl.procv[i] IN
  /\ TkPay("getproc")
  /\ p # NoTk
  /\ Revivable(pr[p].refcnt)
  /\ pr' = [pr EXCEPT ![p].refcnt = @ + 1, ![p].handles = @ + 1]
  /\ UNCHANGED <<tk, pl, forked, tkfault>>

\* The holder of a handle drops it.
DropTask(t) ==
  /\ Unpaid
  /\ tk[t].handles > 0
  /\ "drop" \in tkuse.calls
  /\ tk' = [tk EXCEPT ![t].refcnt = @ - 1, ![t].handles = @ - 1]
  /\ tkfault' = IF tk[t].st = "free" THEN "freed" ELSE tkfault
  /\ UNCHANGED <<pr, pl, forked>>

DropProc(p) ==
  /\ Unpaid
  /\ pr[p].handles > 0
  /\ pr' = [pr EXCEPT ![p].refcnt = @ - 1, ![p].handles = @ - 1]
  /\ UNCHANGED <<tk, pl, forked, tkfault>>

TkNext ==
  \/ \E c, t \in TkTasks : NewThread(c, t) \/ ForkTask(c, t)
  \/ \E c \in TkTasks, q \in TkProcs : ForkProc(c, q)
  \/ \E t \in TkTasks : \/ NewThreadLink(t) \/ Resume(t) \/ Exit(t) \/ SwitchedAway(t) \/ Kill(t)
                        \/ Destroy(t) \/ DropTask(t)
  \/ \E p \in TkProcs : DestroyProc(p) \/ DropProc(p)
  \/ \E p \in TkProcs : \E i \in DOMAIN pr[p].threads.taskv : GetThread(p, i)
  \/ \E u \in TkTasks : \E i \in DOMAIN tk[u].children.taskv : GetChild(u, i)
  \/ \E i \in DOMAIN pl.procv : GetProc(i)

TkSpec == TkInit /\ [][TkNext]_tkvars

----------------------------------------------------------------------------
Exists(t) == tk[t].st # "free"

\* No reference is lost or invented: the count of a task is what the CPU, its
\* children and the handles of other tasks account for.  A failing unreachable
\* fork drops a reference to the wrong task, and a failing creation frees a task
\* others may have found in the thread list.
TaskRefs ==
  tkuse.calls \cap {"unreachable", "nomem"} = {} =>
    \A t \in TkTasks : Exists(t) =>
      tk[t].refcnt = tk[t].handles
                       + (IF tk[t].st \in {"new", "run", "dying"} THEN 1 ELSE 0)
                       + Cardinality({u \in TkTasks \ {Root} : Exists(u) /\ tk[u].parent = t})

\* The same for a process: its threads, the fork that builds it and handles.
ProcRefs ==
  tkuse.calls \cap {"unreachable", "nomem"} = {} =>
    \A p \in TkProcs : pr[p].st # "free" =>
      pr[p].refcnt = pr[p].handles
                       + Cardinality({t \in TkTasks : Exists(t) /\ tk[t].proc = p})
                       + Cardinality({c \in TkTasks : forked[c] = p})

\* No task outlives its parent or its process: what t_parent and t_proc point to
\* is not freed, also while several destructions are under way.
ParentsExist ==
  tkuse.calls \cap {"unreachable", "nomem"} = {} =>
    \A t \in TkTasks : Exists(t) => Exists(tk[t].parent) /\ pr[tk[t].proc].st # "free"

\* A process with a thread that may still run is open and lists that thread under
\* its t_tid, whatever other threads were created or failed to be.  Where threads
\* also terminate this fails: destroying a terminated thread erases the slot of
\* its old t_tid once more.
ThreadsListed ==
  "thread" \notin tkuse.calls \/ {"exit", "kill"} \cap tkuse.calls = {} =>
    \A t \in TkTasks : tk[t].st \in {"new", "susp", "run"} /\ tk[t].refcnt > 0 =>
      /\ pr[tk[t].proc].st = "open"
      /\ Entry(pr[tk[t].proc].threads, tk[t].tid) = t

\* asserte(ktasklist_erase(&parent->t_children,self->t_parid) == self)
\* (ktask_destroy): every task is in the child list of its parent under its
\* t_parid, unless it was forked unreachable.
ChildrenListed ==
  "unreachable" \notin tkuse.calls =>
    /\ tkfault # "assert"
    /\ \A t \in TkTasks \ {Root} : tk[t].st \notin {"free", "new"} =>
         Entry(tk[tk[t].parent].children, tk[t].parid) = t

\* Two processes never share a pid, and a process is found under its own one as
\* long as the list did not write past its end.
PidsUnique ==
  tkfault # "overrun" =>
    /\ \A p \in TkProcs : pr[p].st # "free" => pl.procv[pr[p].pid] = p
    /\ \A i \in DOMAIN pl.procv : pl.procv[i] # NoTk => pr[pl.procv[i]].st # "free"

\* Reference counts of tasks and processes are exact, and what is referred to exists.
TreeRefs == TkTypeOK /\ TaskRefs /\ ProcRefs /\ ParentsExist

\* The lists of threads, children and processes name what exists, under its number.
TreeLists == ThreadsListed /\ ChildrenListed /\ PidsUnique
============================================================================
