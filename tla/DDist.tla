------------------------------- MODULE DDist --------------------------------
(***************************************************************************)
(* The data distributor: struct kddist of include/kos/kernel/ddist.h and   *)
(* src/kernel/sched/sync/ddist.c.inl.  Bakers hand out data, consumers     *)
(* register and receive.  "poll" is dd_sigpoll, which carries the data and *)
(* whose lock guards the counters, "post" is dd_sigpost, on which bakers   *)
(* wait until all consumers are ready.                                     *)
(*                                                                         *)
(* A stretch under the lock of dd_sigpoll is one step.  The sends on       *)
(* dd_sigpost are made under that lock, which everybody they wake takes    *)
(* next.  The data itself is sent after the lock was dropped: in one step  *)
(* by kddist_vsend and its like, which keep interrupts disabled, one       *)
(* wake-up at a time by kddist_commitsend_c for a caller of                *)
(* kddist_beginsend_c, which does not (dduse.noirq).                       *)
(*                                                                         *)
(* Data are numbered in the order of the commits.                          *)
(***************************************************************************)
EXTENDS VSignal

CONSTANTS DdTasks,  \* the tasks
          DdUses    \* the ways tasks use the distributor

DdCalls == {"adduser", "deluser", "recv", "timedrecv", "unregistered", "send", "timedsend",
            "trysend", "asyncsend", "close", "reset"}

\* A use: who bakes and who consumes, the functions called, whether tasks are
\* interrupted, how data is sent, whether it is the debug build, and how many
\* calls a baker and a consumer make (bounds).
ASSUME DdAssumption ==
  IsFiniteSet(DdTasks) /\ \A u \in DdUses :
    /\ u.bakers \cup u.eaters \subseteq DdTasks
    /\ u.calls \subseteq DdCalls
    /\ u.intr \in BOOLEAN /\ u.noirq \in BOOLEAN /\ u.debug \in BOOLEAN
    /\ u.bakes \in Nat /\ u.eats \in Nat

VARIABLES
  ddsig,    \* the two signals and the tasks
  dd_ready,
  dd_users,
  member,   \* whether a task is registered, and whether it was told so
  ddcall,   \* the call each task is in
  ddjob,    \* the datum whose vsendall a task is in the middle of
  due,      \* the datum each registered consumer has to receive next
  wrong,    \* the consumers that received another one
  ddsent,   \* the number of data sent
  ddleft,   \* how many more calls each task makes
  ddstop,   \* the assertion that failed
  dduse

ddvars == <<ddsig, dd_ready, dd_users, member, ddcall, ddjob, due, wrong, ddsent, ddleft,
            ddstop, dduse>>

DdInit ==
  /\ ddsig = VInit(DdTasks, {"poll", "post"})
  /\ dd_ready = 0 /\ dd_users = 0
  /\ member = [t \in DdTasks |-> "no"]
  /\ ddcall = [t \in DdTasks |-> "none"]
  /\ ddjob = [t \in DdTasks |-> NoData]
  /\ due = [t \in DdTasks |-> NoData]
  /\ wrong = {}
  /\ ddsent = 0
  /\ dduse \in DdUses
  /\ ddleft = [t \in DdTasks |-> IF t \in dduse.bakers THEN dduse.bakes ELSE dduse.eats]
  /\ ddstop = ""

----------------------------------------------------------------------------
Closed == "poll" \in ddsig.dead

DdRuns(t) == ddstop = "" /\ ~ddsig.task[t].asleep

\* Task t, which is in no call, makes call c.
DdStart(t, c, who) ==
  /\ t \in who
  /\ c \in dduse.calls
  /\ DdRuns(t)
  /\ ddcall[t] = "none" /\ ddjob[t] = NoData
  /\ ddleft[t] > 0
  /\ ddleft' = [ddleft EXCEPT ![t] = @ - 1]

DdReturn(t) == ddcall' = [ddcall EXCEPT ![t] = "none"]

Broken(why) ==
  /\ ddstop' = why
  /\ UNCHANGED <<ddsig, dd_ready, dd_users, member, ddcall, ddjob, due, wrong, ddsent, dduse>>

\* kddist_adduser.  The result is not set when it succeeds, so the caller may or
\* may not take it for an error.  The debug build keeps a vector of the users; from
\* the second on it stores a slot behind the memory it asked for.
AddUser(t) ==
  /\ DdStart(t, "adduser", dduse.eaters)
  /\ member[t] = "no"
  /\ ~Closed
  /\ \/ /\ ~(dduse.debug /\ dd_users > 0)
        /\ dd_users' = dd_users + 1
        /\ \E told \in {"yes", "unaware"} : member' = [member EXCEPT ![t] = told]
        /\ due' = [due EXCEPT ![t] = ddsent + 1]
        /\ UNCHANGED <<ddsig, dd_ready, ddcall, ddjob, wrong, ddsent, ddstop, dduse>>
     \/ dduse.debug /\ dd_users > 0 /\ Broken("slot behind ddd_regv")

\* kddist_deluser.  The debug build looks for the caller in all slots but the first
\* and aborts when it is not there; of another one it moves a wrong number of bytes.
DelUser(t) ==
  /\ DdStart(t, "deluser", dduse.eaters)
  /\ member[t] = "yes"
  /\ ~Closed
  /\ \/ /\ ~dduse.debug
        /\ dd_users' = dd_users - 1
        /\ member' = [member EXCEPT ![t] = "no"]
        /\ ddsig' = IF dd_users' = dd_ready THEN VSendAll(ddsig, "post", NoData) ELSE ddsig
        /\ UNCHANGED <<dd_ready, ddcall, ddjob, due, wrong, ddsent, ddstop, dduse>>
     \/ dduse.debug /\ Broken("caller not in ddd_regv")

\* kddist_vrecv and kddist_vtimedrecv: the last consumer to become ready wakes the
\* bakers.  Of a closed distributor both return at once.
RecvCall(t) ==
  \E tm \in BOOLEAN :
    /\ DdStart(t, IF tm THEN "timedrecv" ELSE "recv", dduse.eaters)
    /\ member[t] = "yes"
    /\ ~Closed
    /\ dd_ready' = dd_ready + 1
    /\ ddsig' = VReceive(IF dd_ready' = dd_users THEN VSendAll(ddsig, "post", NoData)
                         ELSE ddsig, t, "poll", IF tm THEN "vtimedrecv" ELSE "vrecv")
    /\ ddcall' = [ddcall EXCEPT ![t] = "recv"]
    /\ UNCHANGED <<dd_users, member, ddjob, due, wrong, ddsent, ddstop, dduse>>

\* kddist_vrecv_unregistered.
RecvUnregistered(t) ==
  /\ DdStart(t, "unregistered", dduse.eaters)
  /\ member[t] = "no"
  /\ ~Closed
  /\ ddsig' = VReceive(ddsig, t, "poll", "vrecv")
  /\ ddcall' = [ddcall EXCEPT ![t] = "unregistered"]
  /\ UNCHANGED <<dd_ready, dd_users, member, ddjob, due, wrong, ddsent, ddstop, dduse>>

\* The receive returns; nothing is done about dd_ready, whatever the result.
RecvDone(t) ==
  /\ ddcall[t] \in {"recv", "unregistered"}
  /\ DdRuns(t)
  /\ LET d == ddsig.task[t].buf
         ok == ddcall[t] = "recv" /\ VResult(ddsig, t) = "KE_OK"
     IN  /\ wrong' = IF ok /\ d # due[t] THEN wrong \cup {t} ELSE wrong
         /\ due' = IF ok THEN [due EXCEPT ![t] = d + 1] ELSE due
  /\ ddsig' = VReturn(ddsig, t)
  /\ DdReturn(t)
  /\ UNCHANGED <<dd_ready, dd_users, member, ddjob, ddsent, ddleft, ddstop, dduse>>

----------------------------------------------------------------------------
\* kddist_commitsend_c, or the same at the end of kddist_vsend.
DdCommit(t, w) ==
  /\ ddsent' = ddsent + 1
  /\ ddsig' = IF dduse.noirq THEN VSendAll(w, "poll", ddsent') ELSE w
  /\ ddjob' = [ddjob EXCEPT ![t] = IF dduse.noirq THEN NoData ELSE ddsent']
  /\ DdReturn(t)
  /\ UNCHANGED <<dd_users, member, due, wrong, ddstop, dduse>>

\* A send that fails: with kddist_beginsend_c the lock is released a second time.
SendFails(t, w) ==
  /\ ddsig' = w
  /\ DdReturn(t)
  /\ ddstop' = IF dduse.debug /\ ~dduse.noirq THEN "lock not held" ELSE ddstop
  /\ UNCHANGED <<dd_ready, dd_users, member, ddjob, due, wrong, ddsent, dduse>>

\* Mutant: one ready consumer is enough.
BeginSome(t, w, timed) ==
  \/ Closed /\ SendFails(t, w)
  \/ /\ ~Closed
     /\ dd_ready > 0 \/ dd_users = 0
     /\ dd_ready' = 0
     /\ DdCommit(t, w)
  \/ /\ ~Closed
     /\ dd_ready = 0 /\ dd_users > 0
     /\ ddsig' = VReceive(w, t, "post", IF timed THEN "timedrecv" ELSE "recv")
     /\ ddcall' = [ddcall EXCEPT ![t] = IF timed THEN "timedsend" ELSE "send"]
     /\ UNCHANGED <<dd_ready, dd_users, member, ddjob, due, wrong, ddsent, ddstop, dduse>>

\* _kddist_beginsend_c_maybeunlock and the timed one, from 'again:' on: not before
\* all consumers are ready, whose tickets it then takes.
Begin(t, w, timed) ==
  \/ Closed /\ SendFails(t, w)
  \/ /\ ~Closed /\ dduse.debug /\ ~timed /\ dd_ready > dd_users
     /\ Broken("dd_ready <= dd_users")
  \/ /\ ~Closed /\ ~(dduse.debug /\ ~timed /\ dd_ready > dd_users)
     /\ dd_ready # dd_users
     /\ ddsig' = VReceive(w, t, "post", IF timed THEN "timedrecv" ELSE "recv")
     /\ ddcall' = [ddcall EXCEPT ![t] = IF timed THEN "timedsend" ELSE "send"]
     /\ UNCHANGED <<dd_ready, dd_users, member, ddjob, due, wrong, ddsent, ddstop, dduse>>
  \/ /\ ~Closed
     /\ dd_ready = dd_users
     /\ dd_ready' = 0
     /\ DdCommit(t, w)

\* kddist_vsend and kddist_vtimedsend.
SendCall(t) ==
  \E tm \in BOOLEAN :
    /\ DdStart(t, IF tm THEN "timedsend" ELSE "send", dduse.bakers)
    /\ Begin(t, ddsig, tm)

\* The wait for dd_sigpost is over: back to 'again:', or out with an error.
SendWoken(t) ==
  /\ ddcall[t] \in {"send", "timedsend"}
  /\ DdRuns(t)
  /\ IF VResult(ddsig, t) = "KE_OK" THEN Begin(t, VReturn(ddsig, t), ddcall[t] = "timedsend")
     ELSE SendFails(t, VReturn(ddsig, t))
  /\ UNCHANGED ddleft

\* kddist_vtrysend.  When consumers are missing it drops the lock, takes the result
\* 0 for a number of ready consumers and commits all the same.
TrySend(t) ==
  /\ DdStart(t, "trysend", dduse.bakers)
  /\ \/ Closed /\ SendFails(t, ddsig)
     \/ /\ ~Closed /\ dd_ready # dd_users /\ dduse.debug
        /\ Broken("commit without a lock")
     \/ /\ ~Closed /\ ~(dd_ready # dd_users /\ dduse.debug)
        /\ dd_ready' = IF dd_ready = dd_users THEN 0 ELSE dd_ready
        /\ DdCommit(t, ddsig)

\* kddist_vasyncsend: to those who are ready.
AsyncSend(t) ==
  /\ DdStart(t, "asyncsend", dduse.bakers)
  /\ \/ Closed /\ SendFails(t, ddsig)
     \/ ~Closed /\ dd_ready' = 0 /\ DdCommit(t, ddsig)

\* The loop of _ksignal_vsendall_andunlock_c: one more ksignal_vsendone.
SendOn(t) ==
  /\ DdRuns(t)
  /\ ddjob[t] # NoData
  /\ IF ddsig.slots["poll"] = <<>>
     THEN ddjob' = [ddjob EXCEPT ![t] = NoData] /\ UNCHANGED ddsig
     ELSE ddsig' = VSendOne(ddsig, "poll", ddjob[t]) /\ UNCHANGED ddjob
  /\ UNCHANGED <<dd_ready, dd_users, member, ddcall, due, wrong, ddsent, ddleft, ddstop,
                 dduse>>

\* kddist_close: both signals die, and nobody is registered or ready any more.
DdClose(t) ==
  /\ DdStart(t, "close", dduse.bakers)
  /\ ~Closed
  /\ ddsig' = VClose(VClose(ddsig, "post"), "poll")
  /\ dd_ready' = 0 /\ dd_users' = 0
  /\ member' = [u \in DdTasks |-> "no"]
  /\ UNCHANGED <<ddcall, ddjob, due, wrong, ddsent, ddstop, dduse>>

\* kddist_reset.
DdReset(t) ==
  /\ DdStart(t, "reset", dduse.bakers)
  /\ Closed
  /\ IF dduse.debug /\ dd_users + dd_ready > 0 THEN Broken("users of a closed ddist")
     ELSE /\ ddsig' = VReset(VReset(ddsig, "poll"), "post")
          /\ UNCHANGED <<dd_ready, dd_users, member, ddcall, ddjob, due, wrong, ddsent,
                         ddstop, dduse>>

\* A timeout passes; a waiting task is interrupted.
Disturb(t) ==
  /\ ddsig.task[t].on # ""
  /\ \/ ddsig.task[t].asleep /\ ddsig.task[t].timed /\ ddsig' = VTimer(ddsig, t)
     \/ dduse.intr /\ ~ddsig.task[t].intr /\ ddsig' = VInterrupt(ddsig, t)
  /\ ddstop = ""
  /\ UNCHANGED <<dd_ready, dd_users, member, ddcall, ddjob, due, wrong, ddsent, ddleft,
                 ddstop, dduse>>

DdNext ==
  \E t \in DdTasks :
    \/ AddUser(t) \/ DelUser(t) \/ RecvCall(t) \/ RecvUnregistered(t) \/ RecvDone(t)
    \/ SendCall(t) \/ SendWoken(t) \/ TrySend(t) \/ AsyncSend(t) \/ SendOn(t)
    \/ DdClose(t) \/ DdReset(t) \/ Disturb(t)

DdSpec == DdInit /\ [][DdNext]_ddvars

----------------------------------------------------------------------------
\* Tasks that bake or consume but not both, consumers that are not disturbed while
\* they wait, and bakers that send with interrupts disabled.
Steady ==
  /\ {"timedrecv", "trysend"} \cap dduse.calls = {}
  /\ dduse.bakers \cap dduse.eaters = {}
  /\ dduse.noirq /\ ~dduse.intr

\* "loss-less, and direct transmissions between a ~baker~ and all of its consumers"
\* (ddist.h), if the bakers wait for all of them: from the moment it registers on, a
\* consumer receives every datum, once and in the order they were sent.
Lossless == Steady /\ "asyncsend" \notin dduse.calls => wrong = {}

\* dd_ready is the "Amount of registered+ready users": it counts the registered
\* consumers that sleep on dd_sigpoll, also while consumers come and go and bakers
\* race for the tickets.
ReadyCounted ==
  Steady => dd_ready = Cardinality({t \in DdTasks : /\ member[t] = "yes"
                                                    /\ ddsig.task[t].asleep
                                                    /\ ddsig.task[t].on = "poll"})

\* A baker sleeps on dd_sigpost only while a consumer is missing: the consumer that
\* completes the set, and the one that leaves it, wake the bakers.
NoStuckBaker ==
  Steady => \A t \in DdTasks : ddsig.task[t].asleep /\ ddsig.task[t].on = "post" =>
                                 dd_ready # dd_users /\ ~Closed

\* The distributor keeps its promise: nothing is lost, its counter is exact, and no
\* baker waits for consumers that are all there.
DdSound == Lossless /\ ReadyCounted /\ NoStuckBaker
=============================================================================
