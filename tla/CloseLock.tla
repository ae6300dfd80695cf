----------------------------- MODULE CloseLock -----------------------------
(***************************************************************************)
(* struct kcloselock (include/kos/kernel/closelock.h,                      *)
(* src/kernel/sched/sync/closelock.c.inl): any number of tasks operate on  *)
(* an object until one task closes it; the closing task waits for the      *)
(* operations that are under way and no new ones may start.                *)
(***************************************************************************)
EXTENDS KSignal

CONSTANTS
  cl_opsig,    \* the signal a closing task waits for
  MaxOps       \* the largest value of cl_opcount, (__u32)-1 in the code

\* "reset" is kcloselock_reset by the task whose close returned KE_OK,
\* "reset_any" the same function called by a task that closed nothing.
CLCalls == {"beginop", "close", "tryclose", "timedclose", "reset", "reset_any"}

\* A use: the functions called, whether other tasks try to terminate the
\* clients, and how many calls, kcloselock_endop not counted, each task makes (a bound).
ASSUME CLAssumption ==
  /\ cl_opsig \in Sigs
  /\ MaxOps \in Nat \ {0}
  /\ \A u \in Uses : u.n \in Nat

VARIABLES
  opcount,  \* cl_opcount
  closing,  \* KCLOSELOCK_FLAG_CLOSEING
  pc,       \* where each task is
  budget    \* how many more calls each task makes

clvars == <<opcount, closing, pc, budget>>
vars == <<sigvars, clvars>>

\* "closed" is a task whose close returned KE_OK and that has not reset the lock.
Places == {"idle", "operating", "closewait", "closecheck", "closefail", "timedloop",
           "timedwait", "timedundo", "closed", "reset", "resetwait"}

CLTypeOK ==
  /\ opcount \in 0 .. MaxOps
  /\ closing \in BOOLEAN
  /\ pc \in [Tasks -> Places]
  /\ budget \in [Tasks -> Nat]

\* The type invariant of the lock and of the signals.
TypeOK == SigTypeOK /\ CLTypeOK

Init ==
  /\ SigInit
  /\ opcount = 0
  /\ closing = FALSE
  /\ pc = [t \in Tasks |-> "idle"]
  /\ budget = [t \in Tasks |-> use.n]

----------------------------------------------------------------------------
\* Task t is at p, executes, and the lock of cl_opsig can be taken.
At(t, p) == pc[t] = p /\ Free(t) /\ cl_opsig \notin siglock

Pay(t, c) ==
  /\ c \in use.calls
  /\ budget[t] > 0
  /\ budget' = [budget EXCEPT ![t] = @ - 1]

Goto(t, p) == pc' = [pc EXCEPT ![t] = p]

\* Mutant: the flag of a close is not looked at.
BeginOpClosing(t) ==
  /\ At(t, "idle")
  /\ Pay(t, "beginop")
  /\ opcount # MaxOps
  /\ opcount' = opcount + 1
  /\ Goto(t, "operating")
  /\ UNCHANGED <<sigvars, closing>>

\* kcloselock_beginop; where it fails with KE_DESTROYED or KE_OVERFLOW nothing
\* changes.
BeginOp(t) ==
  /\ At(t, "idle")
  /\ Pay(t, "beginop")
  /\ ~closing
  /\ opcount # MaxOps
  /\ opcount' = opcount + 1
  /\ Goto(t, "operating")
  /\ UNCHANGED <<sigvars, closing>>

\* Mutant: the counter is tested before it is decremented.
EndOpSilent(t) ==
  /\ At(t, "operating")
  /\ opcount' = opcount - 1
  /\ IF opcount = 0 THEN BeginSend(t, "all", cl_opsig, 0) ELSE UNCHANGED sigvars
  /\ Goto(t, "idle")
  /\ UNCHANGED <<closing, budget>>

\* kcloselock_endop: the last operation wakes everybody.
EndOp(t) ==
  /\ At(t, "operating")
  /\ opcount' = opcount - 1
  /\ IF opcount = 1 THEN BeginSend(t, "all", cl_opsig, 0) ELSE UNCHANGED sigvars
  /\ Goto(t, "idle")
  /\ UNCHANGED <<closing, budget>>

\* kcloselock_close up to its receive.  An interrupt makes the call fail, but
\* only after the assertion that follows the receive.
Close(t) ==
  /\ At(t, "idle")
  /\ Pay(t, "close")
  /\ ~closing
  /\ closing' = TRUE
  /\ IF opcount = 0 THEN Goto(t, "closed") /\ UNCHANGED sigvars
     ELSE \E r \in RecvResults :
            /\ Recv(cl_opsig, t, FALSE, r)
            /\ Goto(t, CASE r = "blocked" -> "closewait"
                         [] r = "KE_INTR" -> "closefail"
                         [] OTHER -> "closecheck")
  /\ UNCHANGED opcount

CloseWoken(t) ==
  /\ pc[t] = "closewait"
  /\ \E r \in WakeResults :
       /\ Woken(t, r)
       /\ Goto(t, IF r = "KE_OK" THEN "closecheck" ELSE "closefail")
  /\ UNCHANGED <<opcount, closing, budget>>

\* The rest of kcloselock_close: the assertion, which reads cl_opcount without
\* the lock, and the return.
CloseReturn(t) ==
  /\ pc[t] \in {"closecheck", "closefail"}
  /\ Free(t)
  /\ Goto(t, IF pc[t] = "closecheck" THEN "closed" ELSE "idle")
  /\ UNCHANGED <<sigvars, opcount, closing, budget>>

\* kcloselock_tryclose; a failing call changes nothing.
TryClose(t) ==
  /\ At(t, "idle")
  /\ Pay(t, "tryclose")
  /\ ~closing
  /\ opcount = 0
  /\ closing' = TRUE
  /\ Goto(t, "closed")
  /\ UNCHANGED <<sigvars, opcount>>

\* One turn of the loop of kcloselock_timedclose, under the lock.
TimedTurn(t) ==
  IF opcount = 0 THEN Goto(t, "closed") /\ UNCHANGED sigvars
  ELSE \E r \in RecvResults :
         /\ Recv(cl_opsig, t, TRUE, r)
         /\ Goto(t, CASE r = "blocked" -> "timedwait"
                      [] r = "KE_TIMEDOUT" -> "timedundo"
                      [] OTHER -> "idle")

TimedClose(t) ==
  /\ At(t, "idle")
  /\ Pay(t, "timedclose")
  /\ ~closing
  /\ closing' = TRUE
  /\ TimedTurn(t)
  /\ UNCHANGED opcount

TimedLoop(t) ==
  /\ At(t, "timedloop")
  /\ TimedTurn(t)
  /\ UNCHANGED <<opcount, closing, budget>>

TimedWoken(t) ==
  /\ pc[t] = "timedwait"
  /\ \E r \in WakeResults :
       /\ Woken(t, r)
       /\ Goto(t, CASE r = "KE_OK" -> "timedloop"
                    [] r = "KE_TIMEDOUT" -> "timedundo"
                    [] r = "KE_INTR" -> "idle")
  /\ UNCHANGED <<opcount, closing, budget>>

\* kcloselock_timedclose timed out: lock the signal again, take the flag back.
TimedUndo(t) ==
  /\ At(t, "timedundo")
  /\ closing' = FALSE
  /\ Goto(t, "idle")
  /\ UNCHANGED <<sigvars, opcount, budget>>

\* A client calls kcloselock_reset.
EnterReset(t) ==
  /\ \/ pc[t] = "closed" /\ Pay(t, "reset")
     \/ pc[t] = "idle" /\ Pay(t, "reset_any")
  /\ Free(t)
  /\ Goto(t, "reset")
  /\ UNCHANGED <<sigvars, opcount, closing>>

\* Mutant: the counter is not looked at.
ResetWaits(t) ==
  /\ At(t, "reset")
  /\ IF closing
     THEN /\ \E r \in RecvResults :
               /\ Recv(cl_opsig, t, FALSE, r)
               /\ Goto(t, IF r = "blocked" THEN "resetwait" ELSE "reset")
          /\ UNCHANGED closing
     ELSE /\ closing' = FALSE
          /\ Goto(t, "idle")
          /\ UNCHANGED sigvars
  /\ UNCHANGED <<opcount, budget>>

\* kcloselock_reset from 'again' on.  It ignores what its receive returns.
Reset(t) ==
  /\ At(t, "reset")
  /\ IF closing /\ opcount # 0
     THEN /\ \E r \in RecvResults :
               /\ Recv(cl_opsig, t, FALSE, r)
               /\ Goto(t, IF r = "blocked" THEN "resetwait" ELSE "reset")
          /\ UNCHANGED closing
     ELSE /\ closing' = FALSE
          /\ Goto(t, "idle")
          /\ UNCHANGED sigvars
  /\ UNCHANGED <<opcount, budget>>

ResetWoken(t) ==
  /\ pc[t] = "resetwait"
  /\ \E r \in WakeResults : Woken(t, r)
  /\ Goto(t, "reset")
  /\ UNCHANGED <<opcount, closing, budget>>

----------------------------------------------------------------------------
Step(t) ==
  \/ EndOp(t)
  \/ CloseWoken(t) \/ CloseReturn(t)
  \/ TimedLoop(t) \/ TimedWoken(t) \/ TimedUndo(t)
  \/ Reset(t) \/ ResetWoken(t)
  \/ SendStep(t) /\ UNCHANGED clvars

ClientCall(t) ==
  BeginOp(t) \/ Close(t) \/ TryClose(t) \/ TimedClose(t) \/ EnterReset(t)

Environment(t) ==
  /\ \/ Tick(t)
     \/ use.intr /\ Interrupt(t)
  /\ UNCHANGED clvars

Next == \E t \in Tasks : Step(t) \/ ClientCall(t) \/ Environment(t)

Spec == Init /\ [][Next]_vars

\* The scheduler is round-robin, the timer keeps ticking and operations end.
FairSpec == Spec /\ \A t \in Tasks : WF_vars(Step(t)) /\ WF_vars(Tick(t) /\ UNCHANGED clvars)

----------------------------------------------------------------------------
Operating == {t \in Tasks : pc[t] = "operating"}
Closing == {t \in Tasks : pc[t] \in {"closewait", "closecheck", "timedloop", "timedwait",
                                     "timedundo"}}

\* cl_opcount is the number of tasks between kcloselock_beginop and
\* kcloselock_endop, so the assertion of kcloselock_endop holds.
OpsCounted == opcount = Cardinality(Operating)

\* "Once this function returns, it is safe to close the associated object": a
\* task whose close succeeded finds no operation under way, and none starts
\* until it resets the lock.
ClosedIsIdle == (\E t \in Tasks : pc[t] = "closed") => opcount = 0 /\ closing

\* Clients close with kcloselock_tryclose or kcloselock_timedclose, which look at
\* the counter again, and leave the reset to the task that closed.
OwnerCloses == use.calls \cap {"close", "reset_any"} = {}

\* What closelock.h promises ("safe to close the associated object") holds for
\* such clients, with timeouts and interrupts at any point.
SafeToClose == OwnerCloses => ClosedIsIdle

\* At most one task closes the object, and it is that task that decides when
\* the object is open again: while the flag is set somebody owns it, and only
\* one task does.  (An interrupted close leaves the flag behind.)
OneCloser ==
  OwnerCloses /\ ~use.intr =>
  LET owners == Closing \cup {t \in Tasks : pc[t] \in {"closed", "reset", "resetwait"}}
  IN  Cardinality(owners) <= 1 /\ (closing <=> owners # {})

\* A closing task is always woken: while it sleeps, operations are under way or
\* the last of them is still waking it.
CloserWoken ==
  \A t \in Tasks : (pc[t] \in {"closewait", "timedwait"} /\ tstate[t] # "RUNNING") =>
     opcount > 0 \/ t \in Popped \/ \E u \in Tasks : SendTo(u, cl_opsig)

\* A close and a reset return, if there are neither timeouts nor interrupts, which
\* may leave the signal locked.
CallsReturn ==
  \A t \in Tasks :
    /\ "timedclose" \notin use.calls
    /\ ~use.intr
    /\ pc[t] \in Places \ {"idle", "operating", "closed"}
    ~> pc[t] \in {"idle", "operating", "closed"}

\* The counter is exact, so a close that looks at it again is safe (kcloselock_beginop,
\* kcloselock_endop and the closes).
ClosesSound == OpsCounted /\ SafeToClose

\* The close under way belongs to one task, and that task is woken.
CloserServed == TypeOK /\ OneCloser /\ CloserWoken
============================================================================
