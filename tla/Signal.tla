------------------------------- MODULE Signal -------------------------------
(***************************************************************************)
(* Tasks that use signals directly (include/kos/kernel/signal.h,           *)
(* include/kos/kernel/sigset.h): they wait for one signal or for a set of  *)
(* them, with or without a timeout, send, close and reset.                 *)
(***************************************************************************)
EXTENDS KSignal

CONSTANT
  MaxN  \* bound: the largest n_tasks of ksignal_sendn

\* A use: the functions called, whether receives have a timeout, whether other
\* tasks try to terminate the clients, and how many calls each task makes (a bound).
ASSUME SignalAssumption ==
  /\ \A u \in Uses : u.timed \subseteq BOOLEAN /\ u.n \in Nat
  /\ MaxN \in Nat

VARIABLES
  want,     \* the signals each task is receiving, {} when it receives none
  sgbudget  \* how many more calls each task makes

svars == <<want, sgbudget>>
sgvars == <<sigvars, svars>>

\* The type invariant of the clients and of the signals.
SgTypeOK ==
  /\ SigTypeOK
  /\ want \in [Tasks -> SUBSET Sigs]
  /\ sgbudget \in [Tasks -> Nat]

SgInit ==
  /\ SigInit
  /\ want = [t \in Tasks |-> {}]
  /\ sgbudget = [t \in Tasks |-> use.n]

----------------------------------------------------------------------------
\* A task that is in no call makes call c.
Call(t, c) ==
  /\ c \in use.calls
  /\ Free(t)
  /\ want[t] = {}
  /\ sgbudget[t] > 0
  /\ sgbudget' = [sgbudget EXCEPT ![t] = @ - 1]

\* ksignal_recv, ksignal_timedrecv or the same for a set of signals.
SgReceive(t) ==
  /\ Call(t, "recv")
  /\ \E S \in (SUBSET Sigs) \ {{}}, tm \in use.timed, r \in RecvResults :
       /\ S \cap siglock = {}
       /\ RecvSet(S, t, tm, r)
       /\ want' = [want EXCEPT ![t] = IF r = "blocked" THEN S ELSE {}]

\* The receive returns.
ReceiveWoken(t) ==
  /\ want[t] # {}
  /\ \E r \in WakeResults : Woken(t, r)
  /\ want' = [want EXCEPT ![t] = {}]
  /\ UNCHANGED sgbudget

\* ksignal_sendone, ksignal_sendn and ksignal_sendall.  ksignal_sendone is
\* ksignal_sendn with n_tasks = 1.
Send(t) ==
  /\ Call(t, "send")
  /\ \E s \in Sigs :
       \/ \E n \in 0 .. MaxN : BeginSend(t, "n", s, n)
       \/ BeginSend(t, "all", s, 0)
  /\ UNCHANGED want

\* ksignal_close; of a dead signal it changes nothing.
SgClose(t) ==
  /\ Call(t, "close")
  /\ \E s \in Sigs \ (dead \cup siglock) : CloseSig(t, s)
  /\ UNCHANGED want

\* ksignal_reset; of a signal that is not dead it changes nothing.
SgReset(t) ==
  /\ Call(t, "reset")
  /\ \E s \in dead \ siglock : ResetSig(s)
  /\ UNCHANGED want

----------------------------------------------------------------------------
SgStep(t) ==
  \/ ReceiveWoken(t)
  \/ SendStep(t) /\ UNCHANGED svars

SgClientCall(t) == SgReceive(t) \/ Send(t) \/ SgClose(t) \/ SgReset(t)

SgEnvironment(t) ==
  /\ \/ Tick(t)
     \/ use.intr /\ Interrupt(t)
  /\ UNCHANGED svars

SgNext == \E t \in Tasks : SgStep(t) \/ SgClientCall(t) \/ SgEnvironment(t)

SgSpec == SgInit /\ [][SgNext]_sgvars

----------------------------------------------------------------------------
\* A sleeping task can be reached by everybody who may wake it: it has a slot on
\* every signal it receives, unless a sender has taken one and is on its way to
\* reschedule it.
Reachable ==
  \A t \in Tasks : tstate[t] # "RUNNING" =>
     t \in Popped \/ (want[t] # {} /\ \A s \in want[t] : t \in Range(waiters[s]))

\* A receive without a timeout that returned, whether it was sent to, closed or
\* interrupted, has left nothing behind: the task is on no signal's list of waiting
\* tasks (a timeout leaves the slots queued, see Tick).
NoStaleSlot ==
  TRUE \notin use.timed =>
  \A t \in Tasks, s \in Sigs : want[t] = {} => t \notin Range(waiters[s])

\* The queues and the tasks agree: who sleeps is in every queue it should be in, and
\* who does not is in none (ksignal_recv, ksignal_sendone, ksigset receives).
QueuesSound == SgTypeOK /\ Reachable /\ NoStaleSlot
=============================================================================
