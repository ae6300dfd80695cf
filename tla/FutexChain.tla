----------------------------- MODULE FutexChain -----------------------------
(***************************************************************************)
(* The chain of futexes of a memory part: union kshmfutex_ptr and struct   *)
(* kshmfutex of include/kos/kernel/shm.h, and the functions on them in     *)
(* src/kernel/shm-futex.c.inl.                                             *)
(*                                                                         *)
(* Every pointer of the chain, the sp_futex of the part and the f_next of  *)
(* each futex, has a read/write lock of its own in its low bits, and a     *)
(* walk locks the next pointer before it unlocks the one it came by.  An   *)
(* unlock belongs to the step before it; a lock that is taken, and a lock  *)
(* that is only tried, is a step of its own.                               *)
(***************************************************************************)
EXTENDS Naturals, FiniteSets

CONSTANTS FcThreads,  \* the callers
          Futexes,    \* the memory futexes are allocated from
          FcIds,      \* the words of the part
          sp_futex,   \* the pointer the chain starts at
          RCntMax,    \* KSHMPART_FUTEX_MASK_RCNT
          FcUses      \* the ways callers use the chain

ASSUME FcAssumption ==
  /\ sp_futex \notin Futexes
  /\ FcIds \subseteq Nat
  /\ RCntMax \in Nat \ {0}
  /\ \A u \in FcUses : u.ids \subseteq FcIds /\ u.n \in Nat /\ u.nomem \in BOOLEAN

\* The f_next of a futex is named by the futex.
Pointers == Futexes \cup {sp_futex}

\* fp_futex of the last pointer.
NoFutex == sp_futex

VARIABLES
  heap,      \* the futexes that are allocated
  f_id, f_refcnt, f_pself,
  fp_futex,  \* where each pointer points
  rcnt,      \* the readers of each pointer
  wmode,     \* the pointers in write mode
  fcpc,      \* where each thread is
  fcid,      \* the word its lookup is for
  iter,      \* the pointer its walk has come to
  mine,      \* the futex it has a reference to, or destroys
  told,      \* what its last lookup returned
  fcleft,    \* how many more lookups it makes
  resumed,   \* whether an insertion started over in the middle of the chain
  fcfault,   \* whether freed memory was used
  fcuse

fcvars == <<heap, f_id, f_refcnt, f_pself, fp_futex, rcnt, wmode, fcpc, fcid, iter, mine,
            told, fcleft, resumed, fcfault, fcuse>>

Places == {"idle", "get", "new", "walkget", "walknew", "link", "has", "destroy", "self", "next"}

\* The type invariant.
FcTypeOK ==
  /\ heap \subseteq Futexes
  /\ f_id \in [Futexes -> FcIds] /\ f_refcnt \in [Futexes -> Nat]
  /\ f_pself \in [Futexes -> Pointers]
  /\ fp_futex \in [Pointers -> Pointers]
  /\ rcnt \in [Pointers -> 0 .. RCntMax]
  /\ wmode \subseteq Pointers
  /\ fcpc \in [FcThreads -> Places]
  /\ iter \in [FcThreads -> Pointers] /\ mine \in [FcThreads -> Pointers]

FcInit ==
  /\ heap = {}
  /\ f_id = [f \in Futexes |-> CHOOSE i \in FcIds : TRUE]
  /\ f_refcnt = [f \in Futexes |-> 0]
  /\ f_pself = [f \in Futexes |-> sp_futex]
  /\ fp_futex = [p \in Pointers |-> NoFutex]
  /\ rcnt = [p \in Pointers |-> 0]
  /\ wmode = {}
  /\ fcpc = [t \in FcThreads |-> "idle"]
  /\ fcid = [t \in FcThreads |-> CHOOSE i \in FcIds : TRUE]
  /\ iter = [t \in FcThreads |-> sp_futex]
  /\ mine = [t \in FcThreads |-> NoFutex]
  /\ told = [t \in FcThreads |-> "none"]
  /\ fcuse \in FcUses
  /\ fcleft = [t \in FcThreads |-> fcuse.n]
  /\ resumed = FALSE
  /\ fcfault = FALSE

----------------------------------------------------------------------------
FcAt(t, p) == fcpc[t] = p /\ ~fcfault

FcGoto(t, p) == fcpc' = [fcpc EXCEPT ![t] = p]

AtStart(t) == iter' = [iter EXCEPT ![t] = sp_futex]

Told(t, a) == told' = [told EXCEPT ![t] = a]

\* A pointer nobody reads or writes: what kshmfutex_ptr_trybeginwrite tests.
Unlocked(p) == p \notin wmode /\ rcnt[p] = 0

\* A pointer kshmfutex_ptr_beginread does not wait for.
Readable(p) == p \notin wmode /\ rcnt[p] < RCntMax

Valid(p) == p = sp_futex \/ p \in heap

ChainSame == UNCHANGED <<heap, f_id, f_pself, fp_futex>>
EndRead(p) == rcnt' = [rcnt EXCEPT ![p] = @ - 1]

\* kshmfutex_ptr_getfutex (get) and kshmfutex_ptr_getfutex_newmissing (new) for word i.
Lookup(t) ==
  \E i \in fcuse.ids, how \in {"get", "new"} :
    /\ FcAt(t, "idle")
    /\ fcleft[t] > 0
    /\ fcleft' = [fcleft EXCEPT ![t] = @ - 1]
    /\ FcGoto(t, how)
    /\ Told(t, "none")
    /\ fcid' = [fcid EXCEPT ![t] = i]
    /\ AtStart(t)
    /\ UNCHANGED <<f_refcnt, rcnt, wmode, mine, resumed, fcfault, fcuse>> /\ ChainSame

\* kshmfutex_ptr_beginread of the pointer a walk starts at.
BeginRead(t) ==
  /\ FcAt(t, "get") \/ FcAt(t, "new")
  /\ \/ /\ Valid(iter[t]) /\ Readable(iter[t])
        /\ rcnt' = [rcnt EXCEPT ![iter[t]] = @ + 1]
        /\ FcGoto(t, IF fcpc[t] = "get" THEN "walkget" ELSE "walknew")
        /\ UNCHANGED fcfault
     \/ ~Valid(iter[t]) /\ fcfault' = TRUE /\ UNCHANGED <<rcnt, fcpc>>
  /\ UNCHANGED <<f_refcnt, wmode, fcid, iter, mine, told, fcleft, resumed, fcuse>>
  /\ ChainSame

Walks(t) == FcAt(t, "walkget") \/ FcAt(t, "walknew")
Result(t) == fp_futex[iter[t]]

\* Mutant: the pointer a walk came by is unlocked before the next one is locked.
AdvanceLoose(t) ==
  /\ Walks(t)
  /\ Result(t) # NoFutex
  /\ f_id[Result(t)] < fcid[t]
  /\ EndRead(iter[t])
  /\ iter' = [iter EXCEPT ![t] = Result(t)]
  /\ FcGoto(t, IF fcpc[t] = "walkget" THEN "get" ELSE "new")
  /\ UNCHANGED <<f_refcnt, wmode, fcid, mine, told, fcleft, resumed, fcfault, fcuse>>
  /\ ChainSame

\* The futex found is for an earlier word: lock its f_next, unlock what led here.
Advance(t) ==
  /\ Walks(t)
  /\ Result(t) # NoFutex
  /\ f_id[Result(t)] < fcid[t]
  /\ Readable(Result(t))
  /\ rcnt' = [rcnt EXCEPT ![iter[t]] = @ - 1, ![Result(t)] = @ + 1]
  /\ iter' = [iter EXCEPT ![t] = Result(t)]
  /\ UNCHANGED <<f_refcnt, wmode, fcpc, fcid, mine, told, fcleft, resumed, fcfault, fcuse>>
  /\ ChainSame

\* The futex of the word is there and kshmfutex_tryincref can have it.
Hit(t) ==
  /\ Result(t) # NoFutex
  /\ f_id[Result(t)] = fcid[t]
  /\ f_refcnt[Result(t)] > 0

Past(t) == Result(t) # NoFutex => f_id[Result(t)] >= fcid[t]

Found(t) ==
  /\ Walks(t)
  /\ Hit(t)
  /\ f_refcnt' = [f_refcnt EXCEPT ![Result(t)] = @ + 1]
  /\ mine' = [mine EXCEPT ![t] = Result(t)]
  /\ EndRead(iter[t])
  /\ Told(t, "found")
  /\ FcGoto(t, "has") /\ AtStart(t)
  /\ UNCHANGED <<wmode, fcid, fcleft, resumed, fcfault, fcuse>> /\ ChainSame

\* There is none, or one that is being destroyed: kshmfutex_ptr_getfutex gives up, and
\* kshmfutex_ptr_getfutex_newmissing does if there is no memory.
Missing(t) ==
  /\ Past(t) /\ ~Hit(t)
  /\ \/ FcAt(t, "walkget") /\ Told(t, "missing")
     \/ FcAt(t, "walknew") /\ fcuse.nomem /\ Told(t, "nomem")
  /\ EndRead(iter[t])
  /\ FcGoto(t, "idle") /\ AtStart(t)
  /\ UNCHANGED <<f_refcnt, wmode, fcid, mine, fcleft, resumed, fcfault, fcuse>>
  /\ ChainSame

\* Mutant: other readers of the pointer are not waited for.
UpgradeAny(t) ==
  /\ FcAt(t, "walknew")
  /\ Past(t) /\ ~Hit(t)
  /\ EndRead(iter[t])
  /\ wmode' = wmode \cup {iter[t]}
  /\ FcGoto(t, "link")
  /\ UNCHANGED <<f_refcnt, fcid, iter, mine, told, fcleft, resumed, fcfault, fcuse>>
  /\ ChainSame

\* kshmfutex_ptr_upgrade: only the one reader of a pointer gets it in write mode,
\* the others start over.
Upgrade(t) ==
  /\ FcAt(t, "walknew")
  /\ Past(t) /\ ~Hit(t)
  /\ EndRead(iter[t])
  /\ \/ /\ rcnt[iter[t]] = 1
        /\ wmode' = wmode \cup {iter[t]}
        /\ FcGoto(t, "link")
        /\ UNCHANGED iter
     \/ /\ rcnt[iter[t]] > 1
        /\ AtStart(t)
        /\ FcGoto(t, "new")
        /\ UNCHANGED wmode
  /\ UNCHANGED <<f_refcnt, fcid, mine, told, fcleft, resumed, fcfault, fcuse>> /\ ChainSame

\* The new futex f goes where iter points.
Linked(t, f) ==
  /\ heap' = heap \cup {f}
  /\ f_id' = [f_id EXCEPT ![f] = fcid[t]]
  /\ f_refcnt' = [f_refcnt EXCEPT ![f] = 1]
  /\ f_pself' = [g \in Futexes |-> IF g = f THEN iter[t]
                                   ELSE IF g = Result(t) THEN f ELSE f_pself[g]]
  /\ fp_futex' = [fp_futex EXCEPT ![f] = Result(t), ![iter[t]] = f]
  /\ mine' = [mine EXCEPT ![t] = f]

\* The successor's lock is tried.  When that fails the code unlocks and walks
\* again, from the pointer it had come to and not from the start of the chain.
Link(t) ==
  /\ FcAt(t, "link")
  /\ wmode' = wmode \ {iter[t]}
  /\ \/ /\ Result(t) # NoFutex => Unlocked(Result(t))
        /\ \E f \in Futexes \ heap : Linked(t, f)
        /\ Told(t, "made")
        /\ FcGoto(t, "has") /\ AtStart(t)
        /\ UNCHANGED resumed
     \/ /\ Result(t) # NoFutex /\ ~Unlocked(Result(t))
        /\ resumed' = (resumed \/ iter[t] # sp_futex)
        /\ FcGoto(t, "new")
        /\ UNCHANGED <<f_refcnt, iter, mine, told>> /\ ChainSame
  /\ UNCHANGED <<rcnt, fcid, fcleft, fcfault, fcuse>>

\* kshmfutex_decref.
DecRefFutex(t) ==
  /\ FcAt(t, "has")
  /\ f_refcnt' = [f_refcnt EXCEPT ![mine[t]] = @ - 1]
  /\ \/ f_refcnt[mine[t]] = 1 /\ FcGoto(t, "destroy") /\ UNCHANGED mine
     \/ f_refcnt[mine[t]] # 1 /\ FcGoto(t, "idle") /\ mine' = [mine EXCEPT ![t] = NoFutex]
  /\ Told(t, "none")
  /\ UNCHANGED <<rcnt, wmode, fcid, iter, fcleft, resumed, fcfault, fcuse>>
  /\ ChainSame

\* kshmfutex_destroy locks the futex's own f_next,
DestroyFutex(t) ==
  /\ FcAt(t, "destroy")
  /\ Unlocked(mine[t])
  /\ wmode' = wmode \cup {mine[t]}
  /\ FcGoto(t, "self")
  /\ UNCHANGED <<f_refcnt, rcnt, fcid, iter, mine, told, fcleft, resumed, fcfault, fcuse>>
  /\ ChainSame

\* tries the pointer that points to it,
LockSelf(t) ==
  /\ FcAt(t, "self")
  /\ fcfault' = ~Valid(f_pself[mine[t]])
  /\ LET p == f_pself[mine[t]] IN
       \/ /\ Unlocked(p)
          /\ wmode' = wmode \cup {p}
          /\ FcGoto(t, "next")
       \/ /\ ~Unlocked(p)
          /\ wmode' = wmode \ {mine[t]}
          /\ FcGoto(t, "destroy")
  /\ UNCHANGED <<f_refcnt, rcnt, fcid, iter, mine, told, fcleft, resumed, fcuse>>
  /\ ChainSame

\* and the successor, if there is one; then the futex is unlinked and freed.
Unlink(t) ==
  LET self == mine[t]
      next == fp_futex[self]
  IN  /\ FcAt(t, "next")
      /\ wmode' = wmode \ {self, f_pself[self]}
      /\ \/ /\ next # NoFutex => Unlocked(next)
            /\ f_pself' = [g \in Futexes |-> IF g = next THEN f_pself[self] ELSE f_pself[g]]
            /\ fp_futex' = [fp_futex EXCEPT ![f_pself[self]] = next]
            /\ heap' = heap \ {self}
            /\ FcGoto(t, "idle") /\ mine' = [mine EXCEPT ![t] = NoFutex]
            /\ UNCHANGED f_id
         \/ /\ next # NoFutex /\ ~Unlocked(next)
            /\ FcGoto(t, "destroy")
            /\ UNCHANGED mine /\ ChainSame
      /\ UNCHANGED <<f_refcnt, rcnt, fcid, iter, told, fcleft, resumed, fcfault, fcuse>>

FcStep(t) ==
  \/ Lookup(t) \/ BeginRead(t) \/ Advance(t) \/ Found(t) \/ Missing(t) \/ Upgrade(t)
  \/ Link(t) \/ DecRefFutex(t) \/ DestroyFutex(t) \/ LockSelf(t) \/ Unlink(t)

FcNext == \E t \in FcThreads : FcStep(t)

FcSpec == FcInit /\ [][FcNext]_fcvars

----------------------------------------------------------------------------
\* A freed futex is used only after an insertion that could not lock its successor
\* walked on from the middle of the chain instead of starting over
\* (kshmfutex_ptr_getfutex_newmissing, kshmfutex_destroy).
FcNoUseAfterFree == fcfault => resumed

\* Following f_pself and then the pointer there leads back to the futex, and the
\* chain is sorted: what kshmfutex_destroy and the walks rely on.
ChainSound ==
  resumed \/ \A f \in heap :
    /\ fp_futex[f_pself[f]] = f
    /\ fp_futex[f] # NoFutex => fp_futex[f] \in heap /\ f_id[f] <= f_id[fp_futex[f]]

\* Whoever is in a call can go on, or somebody else can: the locks are taken in an
\* order, or only tried.
FcNoDeadlock ==
  (~fcfault /\ \E t \in FcThreads : fcpc[t] # "idle") => ENABLED FcNext

\* The references to the futex of word i that is alive.
LiveCount(i) ==
  LET live == {f \in heap : f_id[f] = i /\ f_refcnt[f] > 0}
  IN  IF live = {} THEN 0 ELSE f_refcnt[CHOOSE f \in live : TRUE]

Map == INSTANCE FutexMap WITH FmThreads <- FcThreads, FmIds <- FcIds,
                              count <- [i \in FcIds |-> LiveCount(i)], answer <- told

\* The chain is a map from words to futexes: every lookup, insertion and release
\* takes effect in one step, and a futex that somebody has is always found.
FcImplementsMap ==
  Map!FmInit /\ [][~resumed => Map!FmNext]_<<[i \in FcIds |-> LiveCount(i)], told>>

\* The chain is sound, nothing freed is used and nobody is stuck.
FcSound == FcTypeOK /\ FcNoUseAfterFree /\ ChainSound /\ FcNoDeadlock
=============================================================================
