----------------------------- MODULE Semaphore -----------------------------
(***************************************************************************)
(* struct ksem (include/kos/kernel/sem.h, src/kernel/sched/sync/sem.c.inl):*)
(* a ticket counter changed by compare-and-exchange, and a signal on which *)
(* tasks wait for the counter to leave zero.                               *)
(***************************************************************************)
EXTENDS KSignal

CONSTANTS
  s_sig,  \* the semaphore's signal
  Width   \* ksemcount_t counts modulo Width (2^KCONFIG_SEMAPHORE_TICKETBITS)

SemCalls == {"post", "wait", "trywait", "close", "reset"}

\* A use: the functions called, the numbers of tickets posted or reset to, whether
\* waits have timeouts, whether other tasks try to terminate the clients, and how
\* many calls each task makes (a bound).
ASSUME SemAssumption ==
  /\ s_sig \in Sigs
  /\ Width \in Nat \ {0}
  /\ Uses \subseteq [calls : SUBSET SemCalls, posts : SUBSET (0 .. Width - 1),
                     timed : SUBSET BOOLEAN, intr : BOOLEAN, n : Nat]

VARIABLES
  s_tck,   \* the tickets available
  pc,      \* where each task is: "idle", "wait" (about to lock) or "blocked"
  timed,   \* whether the wait a task is in has a timeout
  issued,  \* history: tickets that successful posts (and the last reset) added
  taken,   \* history: tickets that waits returned
  budget   \* how many more calls each task makes

semvars == <<s_tck, pc, timed, issued, taken, budget>>
vars == <<sigvars, semvars>>

SemTypeOK ==
  /\ s_tck \in 0 .. Width - 1
  /\ pc \in [Tasks -> {"idle", "wait", "blocked"}]
  /\ timed \in [Tasks -> BOOLEAN]
  /\ issued \in Nat
  /\ taken \in Nat
  /\ budget \in [Tasks -> Nat]

\* The type invariant of the semaphore and of the signals.
TypeOK == SigTypeOK /\ SemTypeOK

Init ==
  /\ SigInit
  /\ s_tck = 0
  /\ pc = [t \in Tasks |-> "idle"]
  /\ timed = [t \in Tasks |-> FALSE]
  /\ issued = 0
  /\ taken = 0
  /\ budget = [t \in Tasks |-> use.n]

----------------------------------------------------------------------------
Pay(t, c) ==
  /\ pc[t] = "idle"
  /\ Free(t)
  /\ c \in use.calls
  /\ budget[t] > 0
  /\ budget' = [budget EXCEPT ![t] = @ - 1]

\* Task t goes on at p; its timeout is forgotten when the call is over.
Goto(t, p) ==
  /\ pc' = [pc EXCEPT ![t] = p]
  /\ timed' = [timed EXCEPT ![t] = @ /\ p # "idle"]

\* Mutant: no overflow check.
OverflowsNever(n) == FALSE

\* Whether adding n tickets wraps the counter around (newcount < oldcount).
Overflows(n) == (s_tck + n) % Width < s_tck

\* Mutant: one task is woken, however many tickets there are.
PostOne(t, n) ==
  /\ Pay(t, "post")
  /\ ~Overflows(n)
  /\ s_tck' = (s_tck + n) % Width
  /\ issued' = issued + n
  /\ BeginSend(t, "n", s_sig, 1)
  /\ UNCHANGED <<pc, timed, taken>>

\* ksem_post: KE_OVERFLOW changes nothing; otherwise the counter is exchanged
\* and then ksignal_sendn wakes as many tasks as there are new tickets.
Post(t, n) ==
  /\ Pay(t, "post")
  /\ ~Overflows(n)
  /\ s_tck' = (s_tck + n) % Width
  /\ issued' = issued + n
  /\ BeginSend(t, "n", s_sig, n)
  /\ UNCHANGED <<pc, timed, taken>>

\* The exchange in ksem_trywait, when there is a ticket.
TakeTicket ==
  /\ s_tck > 0
  /\ s_tck' = s_tck - 1
  /\ taken' = taken + 1

\* ksem_trywait, called without the signal's lock; failing changes nothing.
TryWait(t) ==
  /\ Pay(t, "trywait")
  /\ TakeTicket
  /\ UNCHANGED <<sigvars, pc, timed, issued>>

\* A client calls ksem_wait (tm = FALSE) or ksem_timedwait.
Enter(t, tm) ==
  /\ Pay(t, "wait")
  /\ pc' = [pc EXCEPT ![t] = "wait"]
  /\ timed' = [timed EXCEPT ![t] = tm]
  /\ UNCHANGED <<sigvars, s_tck, issued, taken>>

\* One turn of the loop of ksem_wait: take a ticket, or receive, both under the
\* signal's lock.
Wait(t) ==
  /\ pc[t] = "wait"
  /\ Free(t)
  /\ s_sig \notin siglock
  /\ \/ /\ TakeTicket
        /\ Goto(t, "idle")
        /\ UNCHANGED sigvars
     \/ /\ s_tck = 0
        /\ \E r \in RecvResults :
             /\ Recv(s_sig, t, timed[t], r)
             /\ Goto(t, IF r = "blocked" THEN "blocked" ELSE "idle")
        /\ UNCHANGED <<s_tck, taken>>
  /\ UNCHANGED <<issued, budget>>

\* The receive returns: the loop goes on only after KE_OK.
WaitWoken(t) ==
  /\ pc[t] = "blocked"
  /\ \E r \in WakeResults :
       /\ Woken(t, r)
       /\ Goto(t, IF r = "KE_OK" THEN "wait" ELSE "idle")
  /\ UNCHANGED <<s_tck, issued, taken, budget>>

\* ksem_close; on a closed semaphore it changes nothing.
Close(t) ==
  /\ Pay(t, "close")
  /\ s_sig \notin siglock \cup dead
  /\ CloseSig(t, s_sig)
  /\ UNCHANGED <<s_tck, pc, timed, issued, taken>>

\* ksem_reset of a closed semaphore to n tickets.
Reset(t, n) ==
  /\ Pay(t, "reset")
  /\ s_sig \notin siglock
  /\ s_sig \in dead
  /\ ResetSig(s_sig)
  /\ s_tck' = n
  /\ issued' = taken + n
  /\ UNCHANGED <<pc, timed, taken>>

----------------------------------------------------------------------------
Step(t) ==
  \/ Wait(t) \/ WaitWoken(t)
  \/ SendStep(t) /\ UNCHANGED semvars

ClientCall(t) ==
  \/ \E n \in use.posts : Post(t, n) \/ Reset(t, n)
  \/ TryWait(t) \/ Close(t)
  \/ \E tm \in use.timed : Enter(t, tm)

Environment(t) ==
  /\ \/ Tick(t)
     \/ use.intr /\ Interrupt(t)
  /\ UNCHANGED semvars

Next == \E t \in Tasks : Step(t) \/ ClientCall(t) \/ Environment(t)

Spec == Init /\ [][Next]_vars

----------------------------------------------------------------------------
Asleep == {t \in Tasks : tstate[t] # "RUNNING"}

\* The wake-ups that posts still owe: a ksignal_sendn with k to go owes the first k.
Owed == {w \in Tasks \X (1 .. Width - 1) : snd[w[1]].mode = "n" /\ w[2] <= snd[w[1]].left}

\* The tasks that will look for a ticket again.
Retrying == {t \in Tasks \ Asleep :
               pc[t] = "wait" \/ (pc[t] = "blocked" /\ WakeResult(t) = "KE_OK")}

\* Posting and waiting conserve tickets: what is available is what was posted
\* and not yet taken, whatever overflows, races and timeouts happened.
TicketsConserved == s_tck + taken = issued

\* ksem_post wakes enough tasks: while somebody sleeps that no sender has picked
\* yet, each available ticket is matched by a wake-up still owed or by a task
\* about to look for a ticket, or everybody is being woken because of a close.
\* Waits have no timeouts and no interrupts: the slot of a wait that timed out takes
\* the wake-up of a post, and so does a task that leaves because of an interrupt.
NoLostTicket ==
  TRUE \notin use.timed /\ ~use.intr /\ Asleep \ Popped # {} =>
     \/ \E t \in Tasks : SendTo(t, s_sig) /\ snd[t].mode = "all"
     \/ s_tck <= Cardinality(Owed) + Cardinality(Retrying)

\* The counter and the queue of ksem agree: who sleeps has no ticket to take that a
\* post or a woken task does not account for.
TicketsReachWaiters == TypeOK /\ NoLostTicket
============================================================================
