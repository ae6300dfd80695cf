-------------------------- MODULE SemaphoreProofs --------------------------
(***************************************************************************)
(* Tickets are conserved, for any width of the counter, any number of      *)
(* tasks and any mix of posts, waits, timeouts, interrupts, closes and     *)
(* resets; and a post wakes enough tasks, without timeouts and interrupts. *)
(***************************************************************************)
EXTENDS Semaphore, KSignalProofs

\* Comparing the new counter with the old one is a complete overflow check: if
\* the sum is not smaller than the old value, it did not wrap around.
LEMMA OverflowCheck ==
  ASSUME NEW s \in 0 .. Width - 1, NEW n \in 0 .. Width - 1, ~((s + n) % Width < s)
  PROVE  (s + n) % Width = s + n
<1>1. Width \in Nat /\ Width > 0
  BY SemAssumption
<1>2. s \in Nat /\ n \in Nat /\ s < Width /\ n < Width
  BY <1>1
<1>3. CASE s + n < Width
  BY <1>1, <1>2, <1>3
<1>4. CASE s + n >= Width
  <2>1. (s + n) % Width = s + n - Width
    BY <1>1, <1>2, <1>4
  <2>. QED  BY <1>1, <1>2, <2>1
<1>. QED  BY <1>1, <1>2, <1>3, <1>4

\* The inductive invariant: conservation needs the range of the counter, because
\* the overflow check is complete only for a counter and a post below Width.
IInv == SemTypeOK /\ TicketsConserved

\* A new semaphore satisfies the invariant.
LEMMA InitIInv == Init => IInv
BY SemAssumption DEF Init, SigInit, IInv, SemTypeOK, TicketsConserved

\* ksem_post preserves the invariant.
LEMMA PostKeeps ==
  ASSUME IInv, use \in Uses, NEW t \in Tasks, NEW n \in use.posts, Post(t, n)
  PROVE  IInv'
<1>1. n \in 0 .. Width - 1 /\ Width \in Nat \ {0}
  BY SemAssumption
<1>2. (s_tck + n) % Width = s_tck + n
  BY <1>1, OverflowCheck DEF Post, Overflows, IInv, SemTypeOK
<1>3. s_tck' = s_tck + n /\ s_tck' \in 0 .. Width - 1
  BY <1>1, <1>2 DEF Post, IInv, SemTypeOK
<1>4. issued' = issued + n /\ taken' = taken
  BY DEF Post
<1>5. budget' \in [Tasks -> Nat] /\ pc' = pc /\ timed' = timed
  BY DEF Post, Pay, IInv, SemTypeOK
<1>. QED  BY <1>1, <1>3, <1>4, <1>5 DEF IInv, SemTypeOK, TicketsConserved

\* Taking a ticket does.
LEMMA TakeTicketKeeps ==
  ASSUME IInv, TakeTicket, issued' = issued
  PROVE  /\ s_tck' \in 0 .. Width - 1
         /\ taken' \in Nat
         /\ TicketsConserved'
BY SemAssumption DEF TakeTicket, IInv, SemTypeOK, TicketsConserved

\* ksem_wait does, whether it takes a ticket, sleeps or fails.
LEMMA WaitKeeps ==
  ASSUME IInv, NEW t \in Tasks, Wait(t)
  PROVE  IInv'
<1>1. issued' = issued /\ budget' = budget
  BY DEF Wait
<1>2. /\ pc' \in [Tasks -> {"idle", "wait", "blocked"}]
      /\ timed' \in [Tasks -> BOOLEAN]
  BY Zenon DEF Wait, Goto, IInv, SemTypeOK
<1>3. CASE TakeTicket
  BY <1>1, <1>2, <1>3, TakeTicketKeeps DEF IInv, SemTypeOK
<1>4. CASE UNCHANGED <<s_tck, taken>>
  BY <1>1, <1>2, <1>4 DEF IInv, SemTypeOK, TicketsConserved
<1>. QED  BY <1>3, <1>4 DEF Wait

\* ksem_trywait does.
LEMMA TryWaitKeeps ==
  ASSUME IInv, NEW t \in Tasks, TryWait(t)
  PROVE  IInv'
<1>1. budget' \in [Tasks -> Nat]
  BY DEF TryWait, Pay, IInv, SemTypeOK
<1>2. TakeTicket /\ UNCHANGED <<pc, timed, issued>>
  BY DEF TryWait
<1>. QED  BY <1>1, <1>2, TakeTicketKeeps DEF IInv, SemTypeOK

\* ksem_reset starts the account anew.
LEMMA ResetKeeps ==
  ASSUME IInv, use \in Uses, NEW t \in Tasks, NEW n \in use.posts, Reset(t, n)
  PROVE  IInv'
<1>1. n \in 0 .. Width - 1 /\ Width \in Nat
  BY SemAssumption
<1>2. budget' \in [Tasks -> Nat]
  BY DEF Reset, Pay, IInv, SemTypeOK
<1>3. s_tck' = n /\ issued' = taken + n /\ UNCHANGED <<pc, timed, taken>>
  BY DEF Reset
<1>. QED  BY <1>1, <1>2, <1>3 DEF IInv, SemTypeOK, TicketsConserved

\* Steps that leave the three counters alone preserve it.
LEMMA OthersKeep ==
  ASSUME IInv, use \in Uses, NEW t \in Tasks,
         \/ WaitWoken(t) \/ Close(t)
         \/ \E tm \in use.timed : Enter(t, tm)
         \/ UNCHANGED semvars
  PROVE  IInv'
<1>1. UNCHANGED <<s_tck, issued, taken>>
  BY DEF WaitWoken, Close, Enter, semvars
<1>2. /\ pc' \in [Tasks -> {"idle", "wait", "blocked"}]
      /\ timed' \in [Tasks -> BOOLEAN]
  BY SemAssumption, Zenon DEF WaitWoken, Close, Enter, Goto, semvars, IInv, SemTypeOK
<1>3. budget' \in [Tasks -> Nat]
  BY DEF WaitWoken, Close, Enter, Pay, semvars, IInv, SemTypeOK
<1>. QED  BY <1>1, <1>2, <1>3 DEF IInv, SemTypeOK, TicketsConserved

\* So every step does.
LEMMA NextIInv == use \in Uses /\ IInv /\ [Next]_vars => IInv'
<1>. SUFFICES ASSUME use \in Uses, IInv, [Next]_vars PROVE IInv'
  OBVIOUS
<1>1. ASSUME NEW t \in Tasks, Step(t) PROVE IInv'
  BY <1>1, WaitKeeps, OthersKeep DEF Step
<1>2. ASSUME NEW t \in Tasks, ClientCall(t) PROVE IInv'
  BY <1>2, PostKeeps, ResetKeeps, TryWaitKeeps, OthersKeep DEF ClientCall
<1>3. ASSUME NEW t \in Tasks, Environment(t) PROVE IInv'
  BY <1>3, OthersKeep DEF Environment
<1>4. CASE UNCHANGED vars
  BY <1>4 DEF vars, semvars, IInv, SemTypeOK, TicketsConserved
<1>. QED  BY <1>1, <1>2, <1>3, <1>4 DEF Next

\* The use the clients make of the semaphore is fixed.
LEMMA NextKeepsUse == [Next]_vars => use' = use
<1>. SUFFICES ASSUME [Next]_vars PROVE use' = use
  OBVIOUS
<1>1. ASSUME NEW t \in Tasks, Step(t) PROVE use' = use
  <2>1. CASE Wait(t)
    BY <2>1, RecvUndisturbed DEF Wait, Undisturbed, sigvars
  <2>2. CASE WaitWoken(t)
    BY <2>2, WokenUndisturbed DEF WaitWoken, Undisturbed
  <2>3. CASE SendStep(t)
    BY <2>3, SendUndisturbed DEF Undisturbed
  <2>. QED  BY <1>1, <2>1, <2>2, <2>3 DEF Step
<1>2. ASSUME NEW t \in Tasks, ClientCall(t) PROVE use' = use
  <2>1. ASSUME NEW n, Post(t, n) PROVE use' = use
    BY <2>1, SendUndisturbed DEF Post, Undisturbed
  <2>. QED
    BY <1>2, <2>1 DEF ClientCall, Reset, ResetSig, TryWait, Close, CloseSig, Enter, sigvars
<1>3. ASSUME NEW t \in Tasks, Environment(t) PROVE use' = use
  BY <1>3, OutsideUndisturbed DEF Environment, Undisturbed
<1>4. CASE UNCHANGED vars
  BY <1>4 DEF vars, sigvars
<1>. QED  BY <1>1, <1>2, <1>3, <1>4 DEF Next

\* Tickets are conserved: ksem_post adds exactly what it reports, or fails, and
\* every successful wait takes one.
THEOREM TicketsAreConserved == Spec => []TicketsConserved
<1>1. IInv => TicketsConserved
  BY DEF IInv
<1>2. Init => use \in Uses
  BY DEF Init, SigInit
<1>3. use \in Uses /\ [Next]_vars => (use \in Uses)'
  BY NextKeepsUse
<1>. QED  BY <1>1, <1>2, <1>3, InitIInv, NextIInv, PTL DEF Spec

----------------------------------------------------------------------------
(* Tickets reach the tasks that wait for them *)

\* A semaphore's sends go to s_sig: a post's ksignal_sendn or a close's ksignal_sendall.
SendsPost ==
  \A u \in Tasks : Sending(u) =>
     /\ snd[u].sig = s_sig
     /\ snd[u].mode = "all" \/ (snd[u].mode = "n" /\ snd[u].left \in 1 .. Width - 1)

Quiet == TRUE \notin use.timed /\ ~use.intr

\* Without timeouts and interrupts no wake-up is wasted: a task that sleeps has one slot
\* in the queue or was popped by one send, and a slot or a popped task sleeps.
QueueInv ==
  Quiet =>
  /\ wasintr = {} /\ tmo = {}
  /\ \A t \in Tasks : ~timed[t] /\ tstate[t] # "WAITINGTMO"
  /\ \A t \in Tasks : tstate[t] # "RUNNING" =>
        pc[t] = "blocked" /\ (t \in Popped \/ t \in Range(waiters[s_sig]))
  /\ Distinct(waiters[s_sig])
  /\ \A t \in Range(waiters[s_sig]) : tstate[t] # "RUNNING" /\ t \notin Popped
  /\ \A u \in Tasks : snd[u].task # NULL => tstate[snd[u].task] # "RUNNING"
  /\ \A u, v \in Tasks : snd[u].task # NULL /\ snd[u].task = snd[v].task => u = v

\* The inductive invariant behind NoLostTicket.
TicketInv == SigInv /\ SendsPost /\ QueueInv /\ NoLostTicket

\* The wake-ups owed and the tasks that retry can be counted.
LEMMA CountsFinite ==
  /\ IsFiniteSet(Owed) /\ Cardinality(Owed) \in Nat
  /\ IsFiniteSet(Owed') /\ Cardinality(Owed') \in Nat
  /\ IsFiniteSet(Retrying) /\ Cardinality(Retrying) \in Nat
  /\ IsFiniteSet(Retrying') /\ Cardinality(Retrying') \in Nat
<1>1. IsFiniteSet(Tasks \X (1 .. Width - 1))
  <2>1. 1 \in Int /\ Width - 1 \in Int
    BY SemAssumption
  <2>2. IsFiniteSet(1 .. Width - 1)
    BY <2>1, FS_Interval
  <2>. QED  BY <2>2, TasksAssumption, FS_Product, Zenon
<1>2. Owed \in SUBSET (Tasks \X (1 .. Width - 1)) /\ Owed' \in SUBSET (Tasks \X (1 .. Width - 1))
  BY DEF Owed
<1>3. Retrying \in SUBSET Tasks /\ Retrying' \in SUBSET Tasks
  BY DEF Retrying
<1>4. IsFiniteSet(Owed) /\ IsFiniteSet(Owed')
  BY <1>1, <1>2, FS_Subset
<1>5. IsFiniteSet(Retrying) /\ IsFiniteSet(Retrying')
  BY <1>3, TasksAssumption, FS_Subset
<1>. QED  BY <1>4, <1>5, FS_CardinalityType

\* Nothing about the queue changes, and nobody's call gets a timeout.
LEMMA QueueKept ==
  ASSUME QueueInv, SigTypeOK, use' = use, waiters' = waiters, tstate' = tstate,
         \A u \in Tasks : snd'[u].task = snd[u].task,
         wasintr' \subseteq wasintr, tmo' \subseteq tmo,
         Quiet => \A x \in Tasks : ~timed'[x],
         \A x \in Tasks : tstate[x] # "RUNNING" => pc'[x] = pc[x]
  PROVE  QueueInv'
<1>. SUFFICES ASSUME Quiet, Quiet' PROVE QueueInv'
  BY Zenon DEF QueueInv, Quiet
<1>1. \A x \in Tasks : x \in Popped' <=> x \in Popped
  BY PoppedHolds
<1>2. \A x \in Range(waiters[s_sig]) : x \in Tasks
  BY SemAssumption DEF SigTypeOK, Range
<1>3. /\ wasintr' = {} /\ tmo' = {}
      /\ \A t \in Tasks : ~timed'[t] /\ tstate'[t] # "WAITINGTMO"
      /\ \A t \in Tasks : tstate'[t] # "RUNNING" =>
            pc'[t] = "blocked" /\ (t \in Popped' \/ t \in Range(waiters'[s_sig]))
  BY <1>1 DEF QueueInv
<1>4. /\ Distinct(waiters'[s_sig])
      /\ \A t \in Range(waiters'[s_sig]) : tstate'[t] # "RUNNING" /\ t \notin Popped'
  BY <1>1, <1>2 DEF QueueInv
<1>5. /\ \A u \in Tasks : snd'[u].task # NULL => tstate'[snd'[u].task] # "RUNNING"
      /\ \A u, v \in Tasks : snd'[u].task # NULL /\ snd'[u].task = snd'[v].task => u = v
  BY DEF QueueInv
<1>. QED  BY <1>3, <1>4, <1>5 DEF QueueInv

\* The balance of tickets and wake-ups is kept by a step that keeps the closers and
\* adds no more tickets than wake-ups, by one that empties the counter, and by one
\* after which everybody asleep has been popped.
LEMMA BalanceKept ==
  ASSUME NoLostTicket, use' = use,
         Quiet /\ (\E x \in Tasks : x \in Asleep' /\ x \notin Popped') =>
            \/ \E u \in Tasks : SendTo(u, s_sig)' /\ snd'[u].mode = "all"
            \/ s_tck' = 0
            \/ /\ \E x \in Tasks : x \in Asleep /\ x \notin Popped
               /\ ~\E u \in Tasks : SendTo(u, s_sig) /\ snd[u].mode = "all"
               /\ s_tck <= Cardinality(Owed) + Cardinality(Retrying) =>
                     s_tck' <= Cardinality(Owed') + Cardinality(Retrying')
  PROVE  NoLostTicket'
<1>. SUFFICES ASSUME Quiet, Quiet', Asleep' \ Popped' # {}
              PROVE  \/ \E t \in Tasks : SendTo(t, s_sig)' /\ snd'[t].mode = "all"
                     \/ s_tck' <= Cardinality(Owed') + Cardinality(Retrying')
  BY Zenon DEF NoLostTicket, Quiet
<1>1. \E x \in Tasks : x \in Asleep' /\ x \notin Popped'
  BY DEF Asleep
<1>2. CASE s_tck' = 0
  BY <1>2, CountsFinite
<1>3. CASE /\ \E x \in Tasks : x \in Asleep /\ x \notin Popped
           /\ ~\E u \in Tasks : SendTo(u, s_sig) /\ snd[u].mode = "all"
           /\ s_tck <= Cardinality(Owed) + Cardinality(Retrying) =>
                 s_tck' <= Cardinality(Owed') + Cardinality(Retrying')
  BY <1>3, Zenon DEF NoLostTicket, Quiet
<1>. QED  BY <1>1, <1>2, <1>3

\* A call that does not send and does not sleep.
LEMMA QuietCallKeeps ==
  ASSUME TicketInv, use' = use, UNCHANGED <<waiters, tstate, snd>>, SigInv',
         wasintr' \subseteq wasintr, tmo' \subseteq tmo,
         Quiet => \A x \in Tasks : ~timed'[x],
         \A x \in Tasks : tstate[x] # "RUNNING" => pc'[x] = pc[x],
         Quiet /\ s_tck <= Cardinality(Owed) + Cardinality(Retrying) =>
            s_tck' <= Cardinality(Owed) + Cardinality(Retrying')
  PROVE  TicketInv'
<1>1. SendsPost'
  BY DEF TicketInv, SendsPost, Sending
<1>2. QueueInv'
  BY QueueKept DEF TicketInv, SigInv
<1>3. Owed' = Owed /\ Popped' = Popped /\ Asleep' = Asleep
  BY DEF Owed, Popped, Asleep
<1>4. \A u \in Tasks : SendTo(u, s_sig) /\ snd[u].mode = "all" =>
         SendTo(u, s_sig)' /\ snd'[u].mode = "all"
  BY DEF SendTo, Sending
<1>5. NoLostTicket'
  BY <1>3, <1>4, BalanceKept DEF TicketInv
<1>. QED  BY <1>1, <1>2, <1>5 DEF TicketInv

\* ksem_trywait and the call of ksem_wait,
LEMMA TryWaitTickets ==
  ASSUME TicketInv, IInv, use' = use, NEW t \in Tasks, TryWait(t)
  PROVE  TicketInv'
<1>1. /\ UNCHANGED sigvars /\ pc' = pc /\ timed' = timed
      /\ s_tck' = s_tck - 1 /\ s_tck \in Nat
  BY SemAssumption DEF TryWait, TakeTicket, IInv, SemTypeOK
<1>2. /\ SigInv' /\ UNCHANGED <<waiters, tstate, snd, wasintr, tmo, timedout>>
  BY <1>1, UnchangedKeeps DEF TicketInv, sigvars
<1>3. Retrying' = Retrying
  BY <1>1, <1>2 DEF Retrying, Asleep, WakeResult
<1>4. s_tck <= Cardinality(Owed) + Cardinality(Retrying) =>
         s_tck' <= Cardinality(Owed) + Cardinality(Retrying')
  BY <1>1, <1>3, CountsFinite
<1>5. Quiet => \A x \in Tasks : ~timed'[x]
  BY <1>1 DEF TicketInv, QueueInv
<1>. QED  BY <1>1, <1>2, <1>4, <1>5, QuietCallKeeps

\* which adds a task that looks for a ticket,
LEMMA EnterTickets ==
  ASSUME TicketInv, IInv, use' = use, use \in Uses, NEW t \in Tasks, NEW tm \in use.timed,
         Enter(t, tm)
  PROVE  TicketInv'
<1>1. /\ UNCHANGED sigvars /\ s_tck' = s_tck /\ s_tck \in Nat
      /\ pc' = [pc EXCEPT ![t] = "wait"] /\ timed' = [timed EXCEPT ![t] = tm]
      /\ tstate[t] = "RUNNING"
  BY SemAssumption DEF Enter, Pay, Free, Runs, IInv, SemTypeOK
<1>2. /\ SigInv' /\ UNCHANGED <<waiters, tstate, snd, wasintr, tmo, timedout>>
  BY <1>1, UnchangedKeeps DEF TicketInv, sigvars
<1>3. Retrying \in SUBSET Retrying'
  BY <1>1, <1>2 DEF Retrying, Asleep, WakeResult, IInv, SemTypeOK
<1>4. Cardinality(Retrying) <= Cardinality(Retrying')
  BY <1>3, CountsFinite, FS_Subset
<1>5. s_tck <= Cardinality(Owed) + Cardinality(Retrying) =>
         s_tck' <= Cardinality(Owed) + Cardinality(Retrying')
  BY <1>1, <1>4, CountsFinite
<1>6. Quiet => \A x \in Tasks : ~timed'[x]
  BY <1>1, SemAssumption, Zenon DEF TicketInv, QueueInv, IInv, SemTypeOK, Quiet
<1>7. \A x \in Tasks : tstate[x] # "RUNNING" => pc'[x] = pc[x]
  BY <1>1 DEF IInv, SemTypeOK
<1>. QED  BY <1>2, <1>5, <1>6, <1>7, QuietCallKeeps

\* the return from a receive, which under Quiet reports success,
LEMMA WaitWokenTickets ==
  ASSUME TicketInv, IInv, use' = use, NEW t \in Tasks, WaitWoken(t)
  PROVE  TicketInv'
<1>1. PICK r \in WakeResults :
         Woken(t, r) /\ Goto(t, IF r = "KE_OK" THEN "wait" ELSE "idle")
  BY DEF WaitWoken
<1>2. /\ SigInv' /\ UNCHANGED <<waiters, tstate, snd>>
      /\ wasintr' \subseteq wasintr /\ tmo' \subseteq tmo /\ tstate[t] = "RUNNING"
  BY <1>1, WokenKeeps DEF TicketInv, Woken, Runs
<1>3. /\ pc[t] = "blocked" /\ s_tck' = s_tck
      /\ pc' = [pc EXCEPT ![t] = IF r = "KE_OK" THEN "wait" ELSE "idle"]
      /\ \A x \in Tasks : timed'[x] => timed[x]
  BY <1>1, Zenon DEF WaitWoken, Goto, IInv, SemTypeOK
<1>4. Quiet => Retrying' = Retrying
  <2>. SUFFICES ASSUME Quiet PROVE Retrying' = Retrying
    OBVIOUS
  <2>1. /\ wasintr = {} /\ tmo = {} /\ wasintr' = {} /\ tmo' = {}
    BY <1>2 DEF TicketInv, QueueInv
  <2>2. \A x \in Tasks : WakeResult(x) = "KE_OK" /\ WakeResult(x)' = "KE_OK"
    BY <2>1 DEF WakeResult
  <2>3. r = "KE_OK"
    BY <1>1, <2>2 DEF Woken
  <2>. QED  BY <1>2, <1>3, <2>2, <2>3 DEF Retrying, Asleep, IInv, SemTypeOK
<1>5. \A x \in Tasks : tstate[x] # "RUNNING" => pc'[x] = pc[x]
  BY <1>2, <1>3 DEF IInv, SemTypeOK
<1>6. Quiet => \A x \in Tasks : ~timed'[x]
  BY <1>3 DEF TicketInv, QueueInv
<1>. QED  BY <1>2, <1>3, <1>4, <1>5, <1>6, QuietCallKeeps

\* and the turn of the loop of ksem_wait that takes a ticket.
LEMMA TakeTickets ==
  ASSUME TicketInv, IInv, use' = use, NEW t \in Tasks, pc[t] = "wait", tstate[t] = "RUNNING",
         TakeTicket, Goto(t, "idle"), UNCHANGED sigvars
  PROVE  TicketInv'
<1>1. /\ s_tck' = s_tck - 1 /\ s_tck \in Nat /\ s_tck > 0
      /\ pc' = [pc EXCEPT ![t] = "idle"]
      /\ \A x \in Tasks : timed'[x] => timed[x]
  BY SemAssumption DEF TakeTicket, Goto, IInv, SemTypeOK
<1>2. /\ SigInv' /\ UNCHANGED <<waiters, tstate, snd, wasintr, tmo, timedout>>
  BY UnchangedKeeps DEF TicketInv, sigvars
<1>3. t \in Retrying /\ Retrying' = Retrying \ {t}
  BY <1>1, <1>2 DEF Retrying, Asleep, WakeResult, IInv, SemTypeOK
<1>4. Cardinality(Retrying') = Cardinality(Retrying) - 1
  BY <1>3, CountsFinite, FS_RemoveElement
<1>5. s_tck <= Cardinality(Owed) + Cardinality(Retrying) =>
         s_tck' <= Cardinality(Owed) + Cardinality(Retrying')
  BY <1>1, <1>4, CountsFinite
<1>6. Quiet => \A x \in Tasks : ~timed'[x]
  BY <1>1 DEF TicketInv, QueueInv
<1>7. \A x \in Tasks : tstate[x] # "RUNNING" => pc'[x] = pc[x]
  BY <1>1 DEF IInv, SemTypeOK
<1>. QED  BY <1>2, <1>5, <1>6, <1>7, QuietCallKeeps

\* A wait finds no ticket and receives s_sig: it gets its one slot.
LEMMA ReceiveTickets ==
  ASSUME TicketInv, IInv, use' = use, NEW t \in Tasks, NEW r, tstate[t] = "RUNNING",
         Recv(s_sig, t, timed[t], r), Goto(t, IF r = "blocked" THEN "blocked" ELSE "idle"),
         s_tck' = 0
  PROVE  TicketInv'
<1>1. /\ SigInv' /\ KeepsReach /\ snd' = snd
      /\ \A x \in Tasks : x # t => tstate'[x] = tstate[x]
      /\ r # "blocked" => waiters' = waiters /\ tstate' = tstate
      /\ r = "blocked" => tstate'[t] # "RUNNING" /\ t \in Range(waiters'[s_sig])
  <2>1. RecvSet({s_sig}, t, timed[t], r) /\ {s_sig} \in SUBSET Sigs /\ SigInv
    BY SemAssumption DEF Recv, TicketInv
  <2>. QED  BY <2>1, RecvKeeps, Zenon
<1>2. SendsPost'
  BY <1>1 DEF TicketInv, SendsPost, Sending
<1>3. NoLostTicket'
  BY BalanceKept DEF TicketInv
<1>4. \A x \in Tasks : timed'[x] => timed[x]
  BY DEF Goto, IInv, SemTypeOK
<1>5. \A x \in Tasks : x # t => pc'[x] = pc[x]
  BY DEF Goto, IInv, SemTypeOK
<1>6. CASE r # "blocked"
  <2>1. wasintr' \subseteq wasintr /\ tmo' = tmo
    BY <1>6, Zenon DEF Recv, RecvSet, sigvars
  <2>2. QueueInv'
    BY <1>1, <1>4, <1>5, <1>6, <2>1, QueueKept, Zenon DEF TicketInv, SigInv, QueueInv
  <2>. QED  BY <1>1, <1>2, <1>3, <2>2 DEF TicketInv
<1>7. CASE r = "blocked"
  <2>. SUFFICES ASSUME Quiet, Quiet' PROVE QueueInv'
    BY <1>1, <1>2, <1>3, Zenon DEF TicketInv, QueueInv, Quiet
  <2>1. /\ waiters' = Enqueued({s_sig}, t) /\ ~timed[t]
        /\ tstate' = [tstate EXCEPT ![t] = "WAITING"] /\ tmo' = tmo /\ wasintr' = wasintr
    BY <1>7 DEF Recv, RecvSet, TicketInv, QueueInv
  <2>2. waiters[s_sig] \in Seq(Tasks) /\ waiters'[s_sig] = Append(waiters[s_sig], t)
    BY <2>1, SemAssumption, Zenon DEF Enqueued, TicketInv, SigInv, SigTypeOK
  <2>3. \A x : x \in Range(waiters'[s_sig]) <=> x = t \/ x \in Range(waiters[s_sig])
    BY <2>2, AppendRange
  <2>4. \A x \in Tasks : x \in Popped' <=> x \in Popped
    BY <1>1, PoppedHolds
  <2>5. t \notin Range(waiters[s_sig]) /\ t \notin Popped
    BY PoppedHolds, TasksAssumption DEF TicketInv, QueueInv
  <2>6. Distinct(waiters'[s_sig])
    BY <2>2, <2>5, AppendDistinct DEF TicketInv, QueueInv
  <2>7. pc'[t] = "blocked"
    BY <1>7 DEF Goto, IInv, SemTypeOK
  <2>8. \A x \in Tasks : tstate'[x] = IF x = t THEN "WAITING" ELSE tstate[x]
    BY <2>1 DEF TicketInv, SigInv, SigTypeOK
  <2>9. \A x \in Range(waiters[s_sig]) : x \in Tasks
    BY <2>2 DEF Range
  <2>10. /\ \A x \in Tasks : ~timed'[x] /\ tstate'[x] # "WAITINGTMO"
         /\ \A x \in Tasks : tstate'[x] # "RUNNING" =>
               pc'[x] = "blocked" /\ (x \in Popped' \/ x \in Range(waiters'[s_sig]))
    BY <1>4, <1>5, <2>3, <2>4, <2>7, <2>8, ZenonT(30) DEF TicketInv, QueueInv
  <2>11. \A x \in Range(waiters'[s_sig]) : tstate'[x] # "RUNNING" /\ x \notin Popped'
    BY <2>3, <2>4, <2>5, <2>8, <2>9, Zenon DEF TicketInv, QueueInv
  <2>12. /\ \A u \in Tasks : snd'[u].task # NULL => tstate'[snd'[u].task] # "RUNNING"
         /\ \A u, v \in Tasks : snd'[u].task # NULL /\ snd'[u].task = snd'[v].task => u = v
    <3>1. \A u \in Tasks : snd[u].task # NULL => snd[u].task \in Tasks
      BY DEF TicketInv, SigInv, SigTypeOK, Sends
    <3>. QED  BY <1>1, <2>8, <3>1 DEF TicketInv, QueueInv
  <2>. QED  BY <2>1, <2>6, <2>10, <2>11, <2>12, Zenon DEF QueueInv, TicketInv
<1>. QED  BY <1>6, <1>7

\* A call that starts a send leaves the queue as it is.
LEMMA BeginKeepsQueue ==
  ASSUME TicketInv, IInv, use' = use, NEW t \in Tasks, ~Sending(t), snd'[t].task = NULL,
         \A u \in Tasks : u # t => snd'[u] = snd[u],
         UNCHANGED <<waiters, tstate, wasintr, tmo, timed, pc>>
  PROVE  /\ QueueInv'
         /\ \A x \in Tasks : x \in Popped' <=> x \in Popped
         /\ Asleep' = Asleep
<1>1. \A u \in Tasks : snd'[u].task = snd[u].task
  BY NoSendFacts DEF TicketInv, SigInv, SendsSound
<1>2. QueueInv'
  BY <1>1, QueueKept DEF TicketInv, SigInv, QueueInv
<1>. QED  BY <1>1, <1>2, PoppedHolds DEF Asleep

\* ksem_post owes a wake-up for each ticket.
LEMMA PostOwes ==
  ASSUME TicketInv, NEW t \in Tasks, NEW n \in 0 .. Width - 1, ~Sending(t),
         n = 0 => snd'[t] = NoSend,
         n # 0 => snd'[t].mode = "n" /\ snd'[t].left = n,
         \A u \in Tasks : u # t => snd'[u] = snd[u]
  PROVE  Cardinality(Owed') = Cardinality(Owed) + n
<1>. DEFINE New == {t} \X (1 .. n)
<1>0. n \in Nat /\ Width \in Nat /\ n <= Width - 1
  BY SemAssumption
<1>1. snd[t] = NoSend
  BY DEF TicketInv, SigInv, SendsSound
<1>2. Owed' = Owed \cup New
  <2>1. ASSUME NEW u \in Tasks, NEW k \in 1 .. Width - 1, u # t
        PROVE  <<u, k>> \in Owed' <=> <<u, k>> \in Owed \cup New
    BY <2>1 DEF Owed
  <2>2. ASSUME NEW k \in 1 .. Width - 1
        PROVE  <<t, k>> \in Owed' <=> <<t, k>> \in Owed \cup New
    <3>1. <<t, k>> \notin Owed
      BY <1>1, NoSendFacts DEF Owed
    <3>2. <<t, k>> \in New <=> k <= n
      BY <1>0
    <3>3. CASE n = 0
      BY <1>0, <3>1, <3>2, <3>3, NoSendFacts DEF Owed
    <3>4. CASE n # 0
      BY <1>0, <3>1, <3>2, <3>4 DEF Owed
    <3>. QED  BY <3>3, <3>4
  <2>3. Owed \cup New \subseteq Tasks \X (1 .. Width - 1) /\ Owed' \subseteq Tasks \X (1 .. Width - 1)
    BY <1>0 DEF Owed
  <2>. QED  BY <2>1, <2>2, <2>3
<1>3. Owed \cap New = {}
  BY <1>1, NoSendFacts DEF Owed
<1>4. IsFiniteSet(New) /\ Cardinality(New) = n
  <2>1. IsFiniteSet({t}) /\ Cardinality({t}) = 1
    BY FS_Singleton, Zenon
  <2>2. 1 \in Int /\ n \in Int
    BY <1>0
  <2>3. IsFiniteSet(1 .. n) /\ Cardinality(1 .. n) = n
    <3>1. IsFiniteSet(1 .. n) /\ Cardinality(1 .. n) = IF 1 > n THEN 0 ELSE n - 1 + 1
      BY <2>2, FS_Interval, Zenon
    <3>. QED  BY <1>0, <3>1
  <2>4. IsFiniteSet(New) /\ Cardinality(New) = Cardinality({t}) * Cardinality(1 .. n)
    BY <2>1, <2>3, FS_Product, Zenon
  <2>. QED  BY <1>0, <2>1, <2>3, <2>4
<1>. HIDE DEF New
<1>5. Cardinality(Owed \cup New) = Cardinality(Owed) + Cardinality(New) - Cardinality(Owed \cap New)
  BY <1>4, CountsFinite, FS_Union
<1>6. Cardinality(Owed \cap New) = 0
  BY <1>3, FS_EmptySet
<1>. QED  BY <1>0, <1>2, <1>4, <1>5, <1>6, CountsFinite

\* So a post keeps the balance,
LEMMA PostTickets ==
  ASSUME TicketInv, IInv, use' = use, use \in Uses, NEW t \in Tasks, NEW n \in use.posts, Post(t, n)
  PROVE  TicketInv'
<1>0. n \in 0 .. Width - 1 /\ n \in Nat /\ Width \in Nat \ {0}
  BY SemAssumption
<1>1. /\ BeginSend(t, "n", s_sig, n) /\ ~Sending(t)
      /\ UNCHANGED <<pc, timed, wasintr, tmo, timedout>>
  BY DEF Post, Pay, Free, BeginSend
<1>2. /\ SigInv' /\ waiters' = waiters /\ tstate' = tstate
      /\ \A u \in Tasks : u # t => snd'[u] = snd[u]
      /\ snd'[t].task = NULL
      /\ n = 0 => snd'[t] = NoSend
      /\ n # 0 => snd'[t].mode = "n" /\ snd'[t].sig = s_sig /\ snd'[t].left = n
  BY <1>0, <1>1, BeginSendKeeps, SemAssumption DEF TicketInv, SendModes
<1>3. SendsPost'
  BY <1>0, <1>2, NoSendFacts DEF TicketInv, SendsPost, Sending
<1>4. /\ QueueInv' /\ Asleep' = Asleep
      /\ \A x \in Tasks : x \in Popped' <=> x \in Popped
  BY <1>1, <1>2, BeginKeepsQueue
<1>5. Retrying' = Retrying
  BY <1>1, <1>2 DEF Retrying, Asleep, WakeResult
<1>6. Cardinality(Owed') = Cardinality(Owed) + n
  BY <1>0, <1>1, <1>2, PostOwes
<1>7. s_tck' = s_tck + n /\ s_tck \in Nat
  BY <1>0, OverflowCheck DEF Post, Overflows, IInv, SemTypeOK
<1>8. s_tck <= Cardinality(Owed) + Cardinality(Retrying) =>
         s_tck' <= Cardinality(Owed') + Cardinality(Retrying')
  BY <1>0, <1>5, <1>6, <1>7, CountsFinite, SMTT(20)
<1>9. \A u \in Tasks : SendTo(u, s_sig) /\ snd[u].mode = "all" =>
         SendTo(u, s_sig)' /\ snd'[u].mode = "all"
  BY <1>1, <1>2 DEF SendTo, Sending
<1>10. NoLostTicket'
  BY <1>4, <1>8, <1>9, BalanceKept DEF TicketInv
<1>. QED  BY <1>2, <1>3, <1>4, <1>10 DEF TicketInv

\* ksem_close wakes everybody,
LEMMA CloseTickets ==
  ASSUME TicketInv, IInv, use' = use, NEW t \in Tasks, Close(t)
  PROVE  TicketInv'
<1>1. /\ CloseSig(t, s_sig) /\ ~Sending(t)
      /\ UNCHANGED <<pc, timed, wasintr, tmo, timedout>>
  BY DEF Close, Pay, Free, CloseSig
<1>2. /\ SigInv' /\ waiters' = waiters /\ tstate' = tstate
      /\ \A u \in Tasks : u # t => snd'[u] = snd[u]
      /\ snd'[t].mode = "all" /\ snd'[t].sig = s_sig /\ snd'[t].task = NULL
  BY <1>1, CloseSigKeeps, SemAssumption DEF TicketInv
<1>3. SendsPost'
  BY <1>2 DEF TicketInv, SendsPost, Sending
<1>4. QueueInv'
  BY <1>1, <1>2, BeginKeepsQueue
<1>5. SendTo(t, s_sig)' /\ snd'[t].mode = "all"
  BY <1>2 DEF SendTo, Sending
<1>6. NoLostTicket'
  BY <1>5, BalanceKept DEF TicketInv
<1>. QED  BY <1>2, <1>3, <1>4, <1>6 DEF TicketInv

\* so that after ksem_reset nobody sleeps whom no sender has picked, unless a close is
\* still at work.
LEMMA ResetTickets ==
  ASSUME TicketInv, IInv, use' = use, NEW t \in Tasks, NEW n, Reset(t, n)
  PROVE  TicketInv'
<1>1. /\ ResetSig(s_sig) /\ s_sig \in dead
      /\ UNCHANGED <<pc, timed, wasintr, tmo>>
  BY DEF Reset, ResetSig
<1>2. /\ SigInv' /\ waiters' = waiters /\ tstate' = tstate /\ snd' = snd
  BY <1>1, ResetSigKeeps DEF TicketInv
<1>3. SendsPost'
  BY <1>2, ZenonT(30) DEF TicketInv, SendsPost, Sending
<1>4. QueueInv'
  BY <1>1, <1>2, QueueKept DEF TicketInv, SigInv, QueueInv
<1>5. ASSUME Quiet, NEW x \in Tasks, x \in Asleep', x \notin Popped'
      PROVE  \E u \in Tasks : SendTo(u, s_sig)' /\ snd'[u].mode = "all"
  <2>1. x \in Range(waiters[s_sig])
    BY <1>2, <1>5, PoppedHolds DEF TicketInv, QueueInv, Asleep
  <2>2. \E u \in Tasks : SendTo(u, s_sig) /\ snd[u].mode = "all"
    BY <1>1, <2>1 DEF TicketInv, SigInv, DeadDrained
  <2>. QED  BY <1>2, <2>2, Zenon DEF SendTo, Sending
<1>6. NoLostTicket'
  BY <1>5, BalanceKept DEF TicketInv
<1>. QED  BY <1>2, <1>3, <1>4, <1>6 DEF TicketInv

\* A send takes a slot from the queue: the task is popped instead of queued, and if the
\* queue is empty everybody who sleeps has been popped.
LEMMA SendPopTickets ==
  ASSUME TicketInv, IInv, use' = use, NEW t \in Tasks, SendPop(t), UNCHANGED semvars
  PROVE  TicketInv'
<1>1. /\ SigInv' /\ tstate' = tstate
      /\ snd[t].sig = s_sig /\ snd[t].task = NULL
      /\ \A u \in Tasks : u # t => snd'[u] = snd[u]
      /\ \/ Range(waiters[s_sig]) = {} /\ snd'[t] = After(snd[t], "KS_EMPTY")
            /\ waiters' = waiters
         \/ /\ snd'[t].task \in Range(waiters[s_sig])
            /\ waiters[s_sig] # <<>>
            /\ snd'[t].task = Head(waiters[s_sig])
            /\ waiters' = [waiters EXCEPT ![s_sig] = Tail(@)]
            /\ snd'[t].mode = snd[t].mode
            /\ snd'[t].sig = snd[t].sig
            /\ snd'[t].left = snd[t].left
  <2>1. snd[t].sig = s_sig
    BY DEF TicketInv, SendsPost, SendPop
  <2>. QED  BY <2>1, SendPopKeeps, Zenon DEF TicketInv
<1>2. UNCHANGED <<wasintr, tmo, timedout, pc, timed, s_tck>>
  BY DEF SendPop, semvars
<1>3. /\ Sending(t) /\ snd[t] \in Sends /\ snd[t].mode # "none"
      /\ snd[t].mode = "all" \/ (snd[t].mode = "n" /\ snd[t].left \in 1 .. Width - 1)
      /\ Width \in Nat
  BY SemAssumption DEF SendPop, Sending, TicketInv, SigInv, SigTypeOK, SendsPost
<1>4. CASE /\ Range(waiters[s_sig]) = {} /\ snd'[t] = After(snd[t], "KS_EMPTY")
           /\ waiters' = waiters
  <2>1. /\ snd'[t].task = NULL
        /\ snd'[t].mode = "none" => snd'[t] = NoSend
        /\ snd'[t].mode # "none" => snd'[t].mode = snd[t].mode /\ snd'[t].sig = s_sig
        /\ snd[t].mode = "n" /\ snd[t].left > 1 =>
              snd'[t].mode = "n" /\ snd'[t].left = snd[t].left - 1
        /\ snd[t].mode = "n" /\ snd[t].left <= 1 => snd'[t] = NoSend
    BY <1>1, <1>3, <1>4, AfterFacts
  <2>2. SendsPost'
    <3>1. ASSUME Sending(t)'
          PROVE  /\ snd'[t].sig = s_sig
                 /\ snd'[t].mode = "all" \/ (snd'[t].mode = "n" /\ snd'[t].left \in 1 .. Width - 1)
      BY <1>3, <2>1, <3>1, NoSendFacts DEF Sending
    <3>. QED  BY <1>1, <3>1, Zenon DEF TicketInv, SendsPost, Sending
  <2>3. \A u \in Tasks : snd'[u].task = snd[u].task
    BY <1>1, <2>1, Zenon
  <2>4. QueueInv'
    BY <1>1, <1>2, <1>4, <2>3, QueueKept, Zenon DEF TicketInv, SigInv, QueueInv
  <2>5. Quiet => ~\E x \in Tasks : x \in Asleep' /\ x \notin Popped'
    <3>1. SUFFICES ASSUME Quiet, NEW x \in Tasks, x \in Asleep', x \notin Popped'
                   PROVE  FALSE
      OBVIOUS
    <3>2. x \notin Popped
      BY <2>3, <3>1, PoppedHolds
    <3>3. tstate[x] # "RUNNING"
      BY <1>1, <3>1 DEF Asleep
    <3>4. \A y \in Tasks : tstate[y] # "RUNNING" =>
             y \in Popped \/ y \in Range(waiters[s_sig])
      BY <3>1, Zenon DEF TicketInv, QueueInv
    <3>. QED  BY <1>4, <3>2, <3>3, <3>4
  <2>6. NoLostTicket'
    BY <2>5, BalanceKept, Zenon DEF TicketInv
  <2>. QED  BY <1>1, <2>2, <2>4, <2>6, Zenon DEF TicketInv
<1>5. CASE /\ waiters[s_sig] # <<>> /\ snd'[t].task = Head(waiters[s_sig])
           /\ waiters' = [waiters EXCEPT ![s_sig] = Tail(@)]
           /\ snd'[t].mode = snd[t].mode
           /\ snd'[t].sig = snd[t].sig
           /\ snd'[t].left = snd[t].left
  <2>1. /\ waiters[s_sig] \in Seq(Tasks) /\ waiters'[s_sig] = Tail(waiters[s_sig])
    BY <1>5, SemAssumption DEF TicketInv, SigInv, SigTypeOK
  <2>2. PICK u \in Tasks : u = snd'[t].task
    BY <1>5, <2>1, TailRange
  <2>3. \A x : x \in Range(waiters[s_sig]) <=> x = u \/ x \in Range(waiters'[s_sig])
    BY <1>5, <2>1, <2>2, TailRange, Zenon
  <2>4. SendsPost'
    BY <1>1, <1>5, Zenon DEF TicketInv, SendsPost, Sending
  <2>5. \A x \in Tasks : x \in Popped' <=> x = u \/ x \in Popped
    <3>1. SUFFICES ASSUME NEW x \in Tasks PROVE x \in Popped' <=> x = u \/ x \in Popped
      OBVIOUS
    <3>2. ASSUME x \in Popped' PROVE x = u \/ x \in Popped
      <4>1. PICK v \in Tasks : snd'[v].task = x
        BY <3>2, PoppedHolds, Zenon
      <4>2. v = t \/ snd[v].task = x
        BY <1>1, <4>1, Zenon
      <4>. QED  BY <2>2, <4>1, <4>2, PoppedHolds, Zenon
    <3>3. u \in Popped'
      BY <2>2, PoppedHolds, Zenon
    <3>4. ASSUME x \in Popped PROVE x \in Popped'
      <4>1. PICK v \in Tasks : snd[v].task = x
        BY <3>4, PoppedHolds, Zenon
      <4>2. v # t
        BY <1>1, <4>1, TasksAssumption
      <4>3. snd'[v].task = x
        BY <1>1, <4>1, <4>2, Zenon
      <4>. QED  BY <4>3, PoppedHolds, Zenon
    <3>. QED  BY <3>2, <3>3, <3>4, Zenon
  <2>6. QueueInv'
    <3>. SUFFICES ASSUME Quiet, Quiet' PROVE QueueInv'
      BY Zenon DEF QueueInv, Quiet
    <3>1. Distinct(waiters'[s_sig]) /\ u \notin Range(waiters'[s_sig])
      <4>1. Distinct(waiters[s_sig])
        BY Zenon DEF TicketInv, QueueInv
      <4>. QED  BY <1>5, <2>1, <2>2, <4>1, TailDistinct
    <3>2. tstate[u] # "RUNNING" /\ u \notin Popped
      BY <2>3 DEF TicketInv, QueueInv
    <3>3. /\ wasintr' = {} /\ tmo' = {}
          /\ \A x \in Tasks : ~timed'[x] /\ tstate'[x] # "WAITINGTMO"
          /\ \A x \in Tasks : tstate'[x] # "RUNNING" =>
                pc'[x] = "blocked" /\ (x \in Popped' \/ x \in Range(waiters'[s_sig]))
      BY <1>1, <1>2, <2>3, <2>5, Zenon DEF TicketInv, QueueInv
    <3>4. \A x \in Range(waiters'[s_sig]) : x \in Tasks
      <4>1. waiters'[s_sig] \in Seq(Tasks)
        BY <1>5, <2>1, TailRange, Zenon
      <4>. QED  BY <4>1 DEF Range
    <3>5. \A x \in Range(waiters'[s_sig]) : tstate'[x] # "RUNNING" /\ x \notin Popped'
      BY <1>1, <2>3, <2>5, <3>1, <3>4, Zenon DEF TicketInv, QueueInv
    <3>6. \A v \in Tasks : snd'[v].task # NULL => tstate'[snd'[v].task] # "RUNNING"
      BY <1>1, <2>2, <3>2, ZenonT(30) DEF TicketInv, QueueInv
    <3>7. \A v, w \in Tasks : snd'[v].task # NULL /\ snd'[v].task = snd'[w].task => v = w
      BY <1>1, <2>2, <3>2, PoppedHolds DEF TicketInv, QueueInv
    <3>. QED  BY <3>1, <3>3, <3>5, <3>6, <3>7, Zenon DEF QueueInv
  <2>7. \A x \in Tasks : x \in Asleep' /\ x \notin Popped' => x \in Asleep /\ x \notin Popped
    BY <1>1, <2>5, Zenon DEF Asleep
  <2>8. Owed' = Owed /\ Retrying' = Retrying
    <3>1. \A v \in Tasks : snd'[v].mode = snd[v].mode /\ snd'[v].left = snd[v].left
      BY <1>1, <1>5, Zenon
    <3>. QED  BY <1>1, <1>2, <3>1, ZenonT(30) DEF Owed, Retrying, Asleep, WakeResult
  <2>9. \A v \in Tasks : SendTo(v, s_sig) /\ snd[v].mode = "all" =>
           SendTo(v, s_sig)' /\ snd'[v].mode = "all"
    BY <1>1, <1>5 DEF SendTo, Sending
  <2>10. NoLostTicket'
    BY <1>2, <2>7, <2>8, <2>9, BalanceKept, Zenon DEF TicketInv
  <2>. QED  BY <1>1, <2>4, <2>6, <2>10 DEF TicketInv
<1>. QED  BY <1>1, <1>4, <1>5, Zenon

\* One wake-up less is owed by a post once it has been delivered,
LEMMA DeliveredOwes ==
  ASSUME TicketInv, NEW t \in Tasks, snd[t].mode = "n", snd[t].left \in 1 .. Width - 1,
         snd[t].left > 1 => snd'[t].mode = "n" /\ snd'[t].left = snd[t].left - 1,
         snd[t].left <= 1 => snd'[t] = NoSend,
         \A u \in Tasks : u # t => snd'[u] = snd[u]
  PROVE  Cardinality(Owed') = Cardinality(Owed) - 1
<1>1. Width \in Nat /\ snd[t].left \in Nat /\ snd[t].left >= 1 /\ snd[t].left <= Width - 1
  BY SemAssumption
<1>2. PICK k \in 1 .. Width - 1 : k = snd[t].left
  OBVIOUS
<1>3. <<t, k>> \in Owed
  BY <1>1, <1>2 DEF Owed
<1>4. Owed' = Owed \ {<<t, k>>}
  <2>1. ASSUME NEW u \in Tasks, NEW i \in 1 .. Width - 1, u # t
        PROVE  <<u, i>> \in Owed' <=> <<u, i>> \in Owed \ {<<t, k>>}
    BY <2>1 DEF Owed
  <2>2. ASSUME NEW i \in 1 .. Width - 1
        PROVE  <<t, i>> \in Owed' <=> <<t, i>> \in Owed \ {<<t, k>>}
    <3>1. <<t, i>> \in Owed \ {<<t, k>>} <=> i <= k /\ i # k
      BY <1>2 DEF Owed
    <3>2. CASE k > 1
      BY <1>1, <1>2, <3>1, <3>2 DEF Owed
    <3>3. CASE k <= 1
      BY <1>1, <1>2, <3>1, <3>3, NoSendFacts DEF Owed
    <3>. QED  BY <1>1, <1>2, <3>2, <3>3
  <2>3. Owed \subseteq Tasks \X (1 .. Width - 1) /\ Owed' \subseteq Tasks \X (1 .. Width - 1)
    BY DEF Owed
  <2>. QED  BY <2>1, <2>2, <2>3
<1>. QED  BY <1>3, <1>4, CountsFinite, FS_RemoveElement

\* and the task it went to looks for a ticket.
LEMMA SendRescheduleTickets ==
  ASSUME TicketInv, IInv, use' = use, NEW t \in Tasks, SendReschedule(t), UNCHANGED semvars
  PROVE  TicketInv'
<1>1. PICK u \in Tasks : u = snd[t].task
  BY SendRescheduleKeeps, Zenon DEF TicketInv
<1>2. /\ SigInv'
      /\ \A v \in Tasks : v # t => snd'[v] = snd[v]
      /\ \A x \in Tasks : x # u => tstate'[x] = tstate[x]
      /\ tstate'[u] = "RUNNING"
      /\ \/ /\ tstate[u] = "RUNNING"
            /\ snd'[t] = After(snd[t], "KS_UNCHANGED")
            /\ waiters' = waiters
         \/ /\ tstate[u] # "RUNNING"
            /\ snd'[t] = After(snd[t], "KE_OK")
            /\ waiters' = Unlinked(u)
  BY <1>1, SendRescheduleKeeps DEF TicketInv
<1>3. UNCHANGED <<wasintr, tmo, timedout, pc, timed, s_tck>>
  BY DEF SendReschedule, semvars
<1>4. /\ Sending(t) /\ snd[t] \in Sends /\ snd[t].mode # "none" /\ snd[t].sig = s_sig
      /\ snd[t].mode = "all" \/ (snd[t].mode = "n" /\ snd[t].left \in 1 .. Width - 1)
      /\ Width \in Nat
  BY SemAssumption, Zenon DEF SendReschedule, Sending, TicketInv, SigInv, SigTypeOK, SendsPost
<1>5. /\ snd'[t].task = NULL
      /\ snd'[t].mode = "none" => snd'[t] = NoSend
      /\ snd'[t].mode # "none" => snd'[t].mode = snd[t].mode /\ snd'[t].sig = s_sig
      /\ snd[t].mode = "all" => snd'[t].mode = "all"
      /\ snd[t].mode = "n" /\ snd[t].left > 1 =>
            snd'[t].mode = "n" /\ snd'[t].left = snd[t].left - 1
      /\ snd[t].mode = "n" /\ snd[t].left <= 1 => snd'[t] = NoSend
  <2>1. PICK e \in {"KS_UNCHANGED", "KE_OK"} : snd'[t] = After(snd[t], e)
    BY <1>2, Zenon
  <2>. QED  BY <1>4, <2>1, AfterFacts
<1>6. SendsPost'
  <2>1. ASSUME Sending(t)'
        PROVE  /\ snd'[t].sig = s_sig
               /\ snd'[t].mode = "all" \/ (snd'[t].mode = "n" /\ snd'[t].left \in 1 .. Width - 1)
    <3>1. snd'[t].mode # "none" /\ snd'[t] # NoSend
      BY <2>1, NoSendFacts DEF Sending
    <3>2. snd'[t].mode = snd[t].mode /\ snd'[t].sig = s_sig
      BY <1>5, <3>1
    <3>3. CASE snd[t].mode = "n"
      <4>1. snd[t].left > 1 /\ snd[t].left \in 1 .. Width - 1
        BY <1>4, <1>5, <3>1, <3>3
      <4>2. snd'[t].left = snd[t].left - 1
        BY <1>5, <3>3, <4>1
      <4>. QED  BY <1>4, <3>2, <3>3, <4>1, <4>2
    <3>. QED  BY <1>4, <3>2, <3>3
  <2>. QED  BY <1>2, <2>1, Zenon DEF TicketInv, SendsPost, Sending
<1>7. CASE ~Quiet
  <2>1. QueueInv' /\ NoLostTicket'
    BY <1>7, Zenon DEF QueueInv, NoLostTicket, Quiet
  <2>. QED  BY <1>2, <1>6, <2>1, Zenon DEF TicketInv
<1>8. CASE Quiet
  <2>1. tstate[u] # "RUNNING" /\ waiters' = Unlinked(u) /\ pc[u] = "blocked"
    BY <1>1, <1>2, <1>8, TasksAssumption DEF TicketInv, QueueInv
  <2>2. waiters[s_sig] \in Seq(Tasks) /\ waiters'[s_sig] = Without(waiters[s_sig], u)
    BY <2>1, SemAssumption, Zenon DEF TicketInv, SigInv, SigTypeOK, Unlinked
  <2>3. \A x : x \in Range(waiters'[s_sig]) <=> x # u /\ x \in Range(waiters[s_sig])
    BY <2>2, WithoutRange, Zenon
  <2>4. Distinct(waiters'[s_sig])
    <3>1. Distinct(waiters[s_sig])
      BY <1>8, Zenon DEF TicketInv, QueueInv
    <3>. QED  BY <2>2, <3>1, WithoutDistinct, Zenon
  <2>5. \A v \in Tasks : v # t => snd[v].task # u
    BY <1>1, <1>8, TasksAssumption, Zenon DEF TicketInv, QueueInv
  <2>6. \A x \in Tasks : x \in Popped' <=> x # u /\ x \in Popped
    BY <1>1, <1>2, <1>5, <2>5, PoppedHolds, TasksAssumption
  <2>7. \A x \in Range(waiters[s_sig]) : x \in Tasks
    BY <2>2 DEF Range
  <2>8. QueueInv'
    <3>1. /\ wasintr' = {} /\ tmo' = {}
          /\ \A x \in Tasks : ~timed'[x] /\ tstate'[x] # "WAITINGTMO"
      BY <1>2, <1>3, <1>8, Zenon DEF TicketInv, QueueInv
    <3>2. \A x \in Tasks : tstate'[x] # "RUNNING" =>
             pc'[x] = "blocked" /\ (x \in Popped' \/ x \in Range(waiters'[s_sig]))
      BY <1>2, <1>3, <1>8, <2>3, <2>6, Zenon DEF TicketInv, QueueInv
    <3>3. \A x \in Range(waiters'[s_sig]) : tstate'[x] # "RUNNING" /\ x \notin Popped'
      BY <1>2, <1>8, <2>3, <2>6, <2>7 DEF TicketInv, QueueInv
    <3>4. \A v \in Tasks : snd[v].task # NULL => snd[v].task \in Tasks
      BY Zenon DEF TicketInv, SigInv, SigTypeOK, Sends
    <3>5. \A v \in Tasks : snd'[v].task # NULL => tstate'[snd'[v].task] # "RUNNING"
      <4>1. SUFFICES ASSUME NEW v \in Tasks, snd'[v].task # NULL
                     PROVE  tstate'[snd'[v].task] # "RUNNING"
        OBVIOUS
      <4>2. v # t /\ snd'[v] = snd[v]
        BY <1>2, <1>5, <4>1
      <4>3. PICK y \in Tasks : y = snd[v].task
        BY <3>4, <4>1, <4>2
      <4>4. tstate[y] # "RUNNING" /\ y # u
        <5>1. \A w \in Tasks : snd[w].task # NULL => tstate[snd[w].task] # "RUNNING"
          BY <1>8, Zenon DEF TicketInv, QueueInv
        <5>. QED  BY <2>5, <4>1, <4>2, <4>3, <5>1
      <4>5. tstate'[y] = tstate[y]
        BY <1>1, <1>2, <4>4
      <4>. QED  BY <4>2, <4>3, <4>4, <4>5
    <3>6. \A v, w \in Tasks : snd'[v].task # NULL /\ snd'[v].task = snd'[w].task => v = w
      <4>1. \A v, w \in Tasks : snd[v].task # NULL /\ snd[v].task = snd[w].task => v = w
        BY <1>8, Zenon DEF TicketInv, QueueInv
      <4>2. \A v \in Tasks : snd'[v].task # NULL => v # t /\ snd'[v] = snd[v]
        BY <1>2, <1>5
      <4>. QED  BY <4>1, <4>2
    <3>. QED  BY <2>4, <3>1, <3>2, <3>3, <3>5, <3>6, Zenon DEF QueueInv
  <2>9. \A x \in Tasks : x \in Asleep' /\ x \notin Popped' => x \in Asleep /\ x \notin Popped
    BY <1>2, <2>6 DEF Asleep
  <2>10. \A v \in Tasks : SendTo(v, s_sig) /\ snd[v].mode = "all" =>
            SendTo(v, s_sig)' /\ snd'[v].mode = "all"
    BY <1>2, <1>5 DEF SendTo, Sending
  <2>11. CASE snd[t].mode = "all"
    <3>1. SendTo(t, s_sig)' /\ snd'[t].mode = "all"
      BY <1>5, <2>11, Zenon DEF SendTo, Sending
    <3>2. NoLostTicket'
      BY <3>1, BalanceKept, Zenon DEF TicketInv
    <3>. QED  BY <1>2, <1>6, <2>8, <3>2, Zenon DEF TicketInv
  <2>12. CASE snd[t].mode # "all"
    <3>1. Cardinality(Owed') = Cardinality(Owed) - 1
      BY <1>2, <1>4, <1>5, <2>12, DeliveredOwes, Zenon
    <3>2. Retrying' = Retrying \cup {u} /\ u \notin Retrying
      <4>1. \A x \in Tasks : WakeResult(x)' = WakeResult(x) /\ WakeResult(x) = "KE_OK"
        BY <1>3, <1>8 DEF WakeResult, TicketInv, QueueInv
      <4>. QED  BY <1>2, <1>3, <2>1, <4>1, Zenon DEF Retrying, Asleep
    <3>3. Cardinality(Retrying') = Cardinality(Retrying) + 1
      BY <3>2, CountsFinite, FS_AddElement
    <3>4. s_tck <= Cardinality(Owed) + Cardinality(Retrying) =>
             s_tck' <= Cardinality(Owed') + Cardinality(Retrying')
      <4>1. s_tck' = s_tck
        BY <1>3
      <4>2. s_tck \in Nat
        BY SemAssumption DEF IInv, SemTypeOK
      <4>. QED  BY <3>1, <3>3, <4>1, <4>2, CountsFinite
    <3>5. NoLostTicket'
      BY <2>9, <2>10, <3>4, BalanceKept DEF TicketInv
    <3>. QED  BY <1>2, <1>6, <2>8, <3>5 DEF TicketInv
  <2>. QED  BY <2>11, <2>12, SMTT(20)
<1>. QED  BY <1>7, <1>8, Zenon

\* Timeouts and interrupts do not happen under Quiet.
LEMMA EnvironmentTickets ==
  ASSUME TicketInv, use' = use, NEW t \in Tasks, Environment(t)
  PROVE  TicketInv'
<1>1. SigInv' /\ snd' = snd
  BY TickKeeps, InterruptKeeps, Zenon DEF TicketInv, Environment
<1>2. ~Quiet
  BY Zenon DEF Environment, Tick, Quiet, TicketInv, QueueInv
<1>3. QueueInv' /\ NoLostTicket'
  BY <1>2, Zenon DEF QueueInv, NoLostTicket, Quiet
<1>4. SendsPost'
  BY <1>1 DEF TicketInv, SendsPost, Sending
<1>. QED  BY <1>1, <1>3, <1>4, Zenon DEF TicketInv

\* On a new semaphore nobody sleeps or sends.
LEMMA InitTickets == Init => TicketInv
<1>. SUFFICES ASSUME Init PROVE TicketInv
  OBVIOUS
<1>1. SigInv
  BY InitSigInv DEF Init
<1>2. \A u \in Tasks : snd[u] = NoSend /\ tstate[u] = "RUNNING" /\ ~timed[u]
  BY DEF Init, SigInit
<1>3. waiters[s_sig] = <<>> /\ wasintr = {} /\ tmo = {}
  BY SemAssumption DEF Init, SigInit
<1>4. SendsPost /\ NoLostTicket
  BY <1>2, NoSendFacts, Zenon DEF SendsPost, Sending, NoLostTicket, Asleep
<1>5. Distinct(waiters[s_sig]) /\ Range(waiters[s_sig]) = {}
  BY <1>3 DEF Distinct, Range
<1>6. QueueInv
  BY <1>2, <1>3, <1>5, NoSendFacts DEF QueueInv
<1>. QED  BY <1>1, <1>4, <1>6 DEF TicketInv

\* Every step keeps the balance of tickets and wake-ups.
LEMMA NextTickets == use \in Uses /\ IInv /\ TicketInv /\ [Next]_vars => TicketInv'
<1>. SUFFICES ASSUME use \in Uses, IInv, TicketInv, [Next]_vars PROVE TicketInv'
  OBVIOUS
<1>. use' = use
  BY NextKeepsUse
<1>1. ASSUME NEW t \in Tasks, Step(t) PROVE TicketInv'
  <2>1. CASE Wait(t)
    <3>1. pc[t] = "wait" /\ tstate[t] = "RUNNING"
      BY <2>1 DEF Wait, Free, Runs
    <3>2. CASE TakeTicket /\ Goto(t, "idle") /\ UNCHANGED sigvars
      BY <3>1, <3>2, TakeTickets
    <3>3. ASSUME NEW r, Recv(s_sig, t, timed[t], r), s_tck' = 0,
                 Goto(t, IF r = "blocked" THEN "blocked" ELSE "idle")
          PROVE  TicketInv'
      BY <3>1, <3>3, ReceiveTickets
    <3>. QED  BY <2>1, <3>2, <3>3, ZenonT(30) DEF Wait
  <2>2. CASE WaitWoken(t)
    BY <2>2, WaitWokenTickets
  <2>3. CASE SendStep(t) /\ UNCHANGED semvars
    BY <2>3, SendPopTickets, SendRescheduleTickets, ZenonT(30) DEF SendStep
  <2>. QED  BY <1>1, <2>1, <2>2, <2>3, Zenon DEF Step
<1>2. ASSUME NEW t \in Tasks, ClientCall(t) PROVE TicketInv'
  BY <1>2, PostTickets, ResetTickets, TryWaitTickets, CloseTickets, EnterTickets DEF ClientCall
<1>3. ASSUME NEW t \in Tasks, Environment(t) PROVE TicketInv'
  BY <1>3, EnvironmentTickets
<1>4. CASE UNCHANGED vars
  <2>1. SigInv'
    BY <1>4, UnchangedKeeps, Zenon DEF TicketInv, vars
  <2>2. SendsPost' /\ NoLostTicket'
    BY <1>4, ZenonT(30) DEF vars, sigvars, semvars, TicketInv, SendsPost, Sending, NoLostTicket, Asleep,
               Popped, SendTo, Owed, Retrying, WakeResult
  <2>3. QueueInv'
    BY <1>4, QueueKept DEF vars, sigvars, semvars, TicketInv, SigInv, QueueInv
  <2>. QED  BY <2>1, <2>2, <2>3 DEF TicketInv
<1>. QED  BY <1>1, <1>2, <1>3, <1>4 DEF Next

\* ksem_post wakes enough tasks, for any width, number of tasks and sizes of the posts:
\* a ticket and a task asleep that nobody picked meet only while a wake-up for the ticket
\* is owed or on its way.
THEOREM TicketsReachTheWaiters == Spec => []TicketsReachWaiters
<1>1. IInv /\ TicketInv => TicketsReachWaiters
  BY DEF IInv, TicketInv, SigInv, TicketsReachWaiters, TypeOK
<1>2. Init => use \in Uses
  BY DEF Init, SigInit
<1>3. use \in Uses /\ [Next]_vars => (use \in Uses)'
  BY NextKeepsUse
<1>. QED  BY <1>1, <1>2, <1>3, InitIInv, NextIInv, InitTickets, NextTickets, PTL DEF Spec
============================================================================
