------------------------------ MODULE VSignal -------------------------------
(***************************************************************************)
(* Signals that carry data: vrecv and vsend of                             *)
(* include/kos/kernel/signal_v.h and                                       *)
(* src/kernel/sched/sync/signal_v-impl.c.inl, on the signals of KSignal.   *)
(*                                                                         *)
(* The state of the signals and of the tasks that use them is one record   *)
(* w, and every operator maps such a record to the next one: the modules   *)
(* of the data distributors hold it in a variable of their own.  There is  *)
(* one CPU and a vsendone runs with its interrupts disabled, so popping a  *)
(* task, copying and rescheduling are one step (KSignal takes them apart). *)
(***************************************************************************)
EXTENDS Naturals, Sequences, FiniteSets

\* What ksignal_sendall transfers: nothing.
NoData == 0

\* A task: the signal it receives ("" for none), whether it sleeps, whether the
\* receive has a timeout, KTASK_FLAG_WASINTR and KTASK_FLAG_TIMEDOUT, whether
\* t_sigval points to its buffer, and what the buffer holds.
VAwake == [on |-> "", asleep |-> FALSE, timed |-> FALSE, intr |-> FALSE,
           late |-> FALSE, open |-> FALSE, buf |-> NoData]

VInit(T, S) ==
  [slots |-> [s \in S |-> <<>>], dead |-> {}, task |-> [t \in T |-> VAwake]]

\* A queue without the tasks H: the filter has nothing to do for most signals.
Filtered(q, H) == SelectSeq(q, LAMBDA u : u \notin H)
Without(q, H) == IF \A i \in DOMAIN q : q[i] \notin H THEN q ELSE Filtered(q, H)

\* The waiting slots of signal s (ksignal_cntrecv_unlocked).
VCount(w, s) == Len(w.slots[s])

VSlots(w, s) == {w.slots[s][i] : i \in DOMAIN w.slots[s]}

\* The receives with a timeout, and those that provide a buffer.
VTimed == {"timedrecv", "vtimedrecv"}
VData == {"vrecv", "vtimedrecv"}

\* _ksignal_recv_andunlock_c and its like, by name, of a signal that is not dead by a
\* task with no interrupt pending.
VReceive(w, t, s, how) ==
  [slots |-> [w.slots EXCEPT ![s] = Append(@, t)],
   dead  |-> w.dead,
   task  |-> [w.task EXCEPT ![t] = [on |-> s, asleep |-> TRUE, timed |-> how \in VTimed,
                                    intr |-> FALSE, late |-> FALSE,
                                    open |-> how \in VData,
                                    buf |-> NoData]]]

\* _ksigset_recvs_andunlock_c and its like: the task waits for several signals.
VReceiveAny(w, t, S, how) ==
  [VReceive(w, t, CHOOSE s \in S : TRUE, how) EXCEPT
     !.slots = [s \in DOMAIN w.slots |-> IF s \in S THEN Append(w.slots[s], t) ELSE w.slots[s]]]

\* What the receive of a task that runs again returns: __KSIGNAL_VRECV_END turns
\* KE_OK into KS_NODATA when nobody stored a value.
VResult(w, t) ==
  LET k == w.task[t]
  IN  IF k.intr THEN "KE_INTR" ELSE IF k.late THEN "KE_TIMEDOUT"
      ELSE IF k.open THEN "KS_NODATA" ELSE "KE_OK"

\* A receive that returns clears t_sigval.
VReturn(w, t) == [w EXCEPT !.task[t] = VAwake]

\* The timer wakes a task; its slot stays queued.
VTimer(w, t) == [w EXCEPT !.task[t] = [@ EXCEPT !.asleep = FALSE, !.late = TRUE]]

\* Another task wants t to terminate: t is woken and leaves its signals.
VInterrupt(w, t) ==
  [w EXCEPT !.task[t].asleep = FALSE, !.task[t].intr = TRUE,
            !.slots = [s \in DOMAIN @ |->
                         IF w.task[t].asleep THEN Without(@[s], {t})
                         ELSE @[s]]]

\* A task that was popped with datum d: t_sigval takes one value.
VGiven(k, d) ==
  [k EXCEPT !.asleep = FALSE,
            !.buf = IF d # NoData /\ k.open THEN d ELSE @,
            !.open = IF d # NoData THEN FALSE ELSE @]

\* The tasks H are popped from signal s, whose queue becomes q; the sleeping ones
\* leave every other signal as well (ktask_reschedule_ex).
VPopped(w, s, H, q, d) ==
  LET woke == {u \in H : w.task[u].asleep}
  IN  [slots |-> [x \in DOMAIN w.slots |->
                    IF x = s THEN q ELSE Without(w.slots[x], woke)],
       dead  |-> w.dead,
       task  |-> [u \in DOMAIN w.task |->
                    IF u \in H THEN VGiven(w.task[u], d) ELSE w.task[u]]]

\* ksignal_vsendone of a signal with a waiting slot: the first one is popped.
VSendOne(w, s, d) ==
  VPopped(w, s, {Head(w.slots[s])},
          IF w.task[Head(w.slots[s])].asleep
          THEN Without(Tail(w.slots[s]), {Head(w.slots[s])})
          ELSE Tail(w.slots[s]), d)

\* ksignal_vsendall where no task runs in between.
VSendAll(w, s, d) == VPopped(w, s, VSlots(w, s), <<>>, d)

\* ksignal_close and ksignal_reset.
VClose(w, s) == [VSendAll(w, s, NoData) EXCEPT !.dead = @ \cup {s}]
VReset(w, s) == [w EXCEPT !.dead = @ \ {s}]
=============================================================================
