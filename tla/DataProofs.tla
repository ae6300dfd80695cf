---------------------------- MODULE DataProofs ------------------------------
(***************************************************************************)
(* What DDist and RamInfo promise for every value of their constants.      *)
(*                                                                         *)
(* DDist: the counters decide who sleeps, so the invariant ties them to    *)
(* the tasks: dd_users counts the members, dd_ready those of them asleep   *)
(* on dd_sigpoll (DCounts).  When a baker commits the two are equal, so    *)
(* every member is asleep there, and each one is given the datum it is due *)
(* (DData); a baker that sleeps has seen them differ, and every step that  *)
(* makes them equal wakes it (DBakers).                                    *)
(*                                                                         *)
(* RamInfo: the alignments are multiples of the page size, and the parts   *)
(* of a region outside of the kernel image are made of them.               *)
(***************************************************************************)
EXTENDS DDist, RamInfo, FiniteSetTheorems, TLAPS

DSigs == {"poll", "post"}
VTask == [on : {"", "poll", "post"}, asleep : BOOLEAN, timed : BOOLEAN, intr : BOOLEAN,
          late : BOOLEAN, open : BOOLEAN, buf : Nat]
VType == [slots : [DSigs -> Seq(DdTasks)], dead : SUBSET DSigs, task : [DdTasks -> VTask]]

Members == {t \in DdTasks : member[t] # "no"}
Ready == {t \in DdTasks : /\ member[t] = "yes"
                          /\ ddsig.task[t].asleep
                          /\ ddsig.task[t].on = "poll"}

DType ==
  /\ ddsig \in VType
  /\ dd_ready \in Nat /\ dd_users \in Nat /\ ddsent \in Nat
  /\ member \in [DdTasks -> {"no", "yes", "unaware"}]
  /\ ddcall \in [DdTasks -> {"none", "recv", "unregistered", "send", "timedsend"}]
  /\ ddjob = [t \in DdTasks |-> NoData]
  /\ due \in [DdTasks -> Nat]
  /\ dduse \in DdUses
  /\ Steady

\* The slots of dd_sigpoll are those of the tasks asleep on it; the slots of
\* dd_sigpost belong to bakers, and a baker asleep on it has one.
DSlots ==
  /\ \A t \in DdTasks : t \in VSlots(ddsig, "poll") <=>
                          ddsig.task[t].asleep /\ ddsig.task[t].on = "poll"
  /\ \A t \in DdTasks : t \in VSlots(ddsig, "post") => t \in dduse.bakers
  /\ \A t \in DdTasks : ddsig.task[t].asleep /\ ddsig.task[t].on = "post" =>
                          t \in VSlots(ddsig, "post")
  /\ Closed => VSlots(ddsig, "poll") = {} /\ VSlots(ddsig, "post") = {}

\* What a task in a call waits for.
DCalls ==
  \A t \in DdTasks :
    LET k == ddsig.task[t]
    IN  /\ ddcall[t] = "none" => k.on = "" /\ ~k.asleep
        /\ ddcall[t] \in {"recv", "unregistered"} =>
             k.on = "poll" /\ t \in dduse.eaters /\ ~k.late /\ ~k.intr /\ ~k.timed
        /\ ddcall[t] \in {"send", "timedsend"} => k.on = "post" /\ t \in dduse.bakers
        /\ ddcall[t] = "unregistered" => member[t] = "no"
        /\ ddcall[t] = "recv" /\ k.asleep => member[t] = "yes" /\ k.open

DCounts ==
  /\ dd_users = Cardinality(Members)
  /\ dd_ready = Cardinality(Ready)

DBakers ==
  \A t \in DdTasks : ddsig.task[t].asleep /\ ddsig.task[t].on = "post" =>
                        dd_ready # dd_users

\* A registered consumer that holds no datum is due the next one; one that holds a
\* datum holds the one it is due, which is the last one sent.
DData ==
  "asyncsend" \notin dduse.calls =>
  /\ wrong = {}
  /\ \A t \in DdTasks :
       LET k == ddsig.task[t]
       IN  /\ member[t] = "yes" /\ (ddcall[t] # "recv" \/ k.asleep) => due[t] = ddsent + 1
           /\ ddcall[t] = "recv" /\ ~k.asleep /\ ~k.open =>
                k.buf = due[t] /\ (member[t] = "yes" => due[t] = ddsent)
           /\ ddcall[t] = "recv" /\ ~k.asleep /\ k.open => member[t] # "yes"

DInv == DType /\ DSlots /\ DCalls /\ DCounts /\ DBakers /\ DData

\* No task waits for both signals.
Apart(w) == VSlots(w, "poll") \cap VSlots(w, "post") = {}

\* A receive keeps the types.
LEMMA ReceiveType ==
  ASSUME NEW w \in VType, NEW t \in DdTasks, NEW s \in DSigs, NEW how
  PROVE  VReceive(w, t, s, how) \in VType
<1> DEFINE k == [on |-> s, asleep |-> TRUE, timed |-> how \in VTimed, intr |-> FALSE,
                 late |-> FALSE, open |-> how \in VData, buf |-> 0]
<1>1. (how \in VTimed) \in BOOLEAN /\ (how \in VData) \in BOOLEAN
  OBVIOUS
<1>2. k \in VTask
  BY <1>1, Zenon DEF VTask, DSigs
<1>3. [w.task EXCEPT ![t] = k] \in [DdTasks -> VTask]
  BY <1>2 DEF VType
<1>4. [w.slots EXCEPT ![s] = Append(w.slots[s], t)] \in [DSigs -> Seq(DdTasks)]
  BY DEF VType
<1> HIDE DEF k
<1>5. VReceive(w, t, s, how) = [slots |-> [w.slots EXCEPT ![s] = Append(w.slots[s], t)],
                                  dead |-> w.dead, task |-> [w.task EXCEPT ![t] = k]]
  BY DEF VReceive, NoData, k
<1>6. QED
  BY <1>3, <1>4, <1>5 DEF VType

\* What a receive that returns leaves of the signals.
LEMMA ReturnFields ==
  ASSUME NEW w \in VType, NEW t \in DdTasks
  PROVE  LET r == VReturn(w, t)
         IN  /\ r \in VType
             /\ r.dead = w.dead
             /\ r.task = [w.task EXCEPT ![t] = VAwake]
             /\ r.slots = w.slots
  BY Zenon DEF VReturn, VType, VTask, VAwake, NoData, DSigs

\* A send to all empties one queue and leaves the other alone.
LEMMA SendAllFields ==
  ASSUME NEW w \in VType, NEW s \in DSigs, NEW d \in Nat, Apart(w)
  PROVE  LET r == VSendAll(w, s, d)
         IN  /\ r \in VType
             /\ r.dead = w.dead
             /\ r.task = [u \in DdTasks |-> IF u \in VSlots(w, s) THEN VGiven(w.task[u], d)
                                            ELSE w.task[u]]
             /\ r.slots = [w.slots EXCEPT ![s] = <<>>]
<1> DEFINE woke == {u \in VSlots(w, s) : w.task[u].asleep}
<1>1. \A x \in DSigs : x # s => Without(w.slots[x], woke) = w.slots[x]
  BY DEF Without, Apart, VSlots, DSigs
<1>2. VSendAll(w, s, d) =
        [slots |-> [x \in DSigs |-> IF x = s THEN <<>> ELSE Without(w.slots[x], woke)],
         dead |-> w.dead,
         task |-> [u \in DdTasks |-> IF u \in VSlots(w, s) THEN VGiven(w.task[u], d)
                                     ELSE w.task[u]]]
  BY Zenon DEF VSendAll, VPopped, VType
<1>3. \A u \in DdTasks : VGiven(w.task[u], d) \in VTask
  BY ZenonT(30) DEF VGiven, VType, VTask, NoData
<1>4. [x \in DSigs |-> IF x = s THEN <<>> ELSE Without(w.slots[x], woke)]
        = [w.slots EXCEPT ![s] = <<>>]
  BY <1>1, Zenon DEF VType
<1> HIDE DEF woke
<1>5. [w.slots EXCEPT ![s] = <<>>] \in [DSigs -> Seq(DdTasks)]
  BY DEF VType
<1>6. [u \in DdTasks |-> IF u \in VSlots(w, s) THEN VGiven(w.task[u], d)
                         ELSE w.task[u]] \in [DdTasks -> VTask]
  BY <1>3 DEF VType
<1>7. QED
  BY <1>2, <1>4, <1>5, <1>6 DEF VType

\* What the slots of a signal hold after a receive and after a send.
LEMMA ReceiveSlots ==
  ASSUME NEW w \in VType, NEW t \in DdTasks, NEW s \in DSigs, NEW how
  PROVE  LET r == VReceive(w, t, s, how)
         IN  \A x \in DSigs : VSlots(r, x) = IF x = s THEN VSlots(w, x) \cup {t}
                                            ELSE VSlots(w, x)
<1> DEFINE r == VReceive(w, t, s, how)
<1>1. VReceive(w, t, s, how).slots = [w.slots EXCEPT ![s] = Append(w.slots[s], t)]
  BY DEF VReceive
<1>2. w.slots \in [DSigs -> Seq(DdTasks)]
  BY DEF VType
<1>3. \A q \in Seq(DdTasks) : {Append(q, t)[i] : i \in DOMAIN Append(q, t)}
                              = {q[i] : i \in DOMAIN q} \cup {t}
  <2> SUFFICES ASSUME NEW q \in Seq(DdTasks)
               PROVE  {Append(q, t)[i] : i \in DOMAIN Append(q, t)}
                        = {q[i] : i \in DOMAIN q} \cup {t}
    OBVIOUS
  <2>1. /\ DOMAIN Append(q, t) = 1 .. Len(q) + 1
        /\ DOMAIN q = 1 .. Len(q) /\ Len(q) \in Nat
        /\ Append(q, t)[Len(q) + 1] = t
        /\ \A i \in 1 .. Len(q) : Append(q, t)[i] = q[i]
    OBVIOUS
  <2>2. 1 .. Len(q) + 1 = (1 .. Len(q)) \cup {Len(q) + 1}
    BY <2>1
  <2>3. QED
    BY <2>1, <2>2, Zenon
<1> HIDE DEF r
<1>4. \A x \in DSigs : r.slots[x] = IF x = s THEN Append(w.slots[x], t) ELSE w.slots[x]
  BY <1>1, <1>2 DEF r
<1>5. ASSUME NEW x \in DSigs
      PROVE  VSlots(r, x) = IF x = s THEN VSlots(w, x) \cup {t} ELSE VSlots(w, x)
  <2>1. CASE x = s
    <3>1. r.slots[x] = Append(w.slots[x], t) /\ w.slots[x] \in Seq(DdTasks)
      BY <1>2, <1>4, <2>1, Zenon
    <3>2. VSlots(r, x) = {Append(w.slots[x], t)[i] : i \in DOMAIN Append(w.slots[x], t)}
      BY <3>1, Zenon DEF VSlots
    <3>3. QED
      BY <1>3, <2>1, <3>1, <3>2, Zenon DEF VSlots
  <2>2. CASE x # s
    <3>1. r.slots[x] = w.slots[x]
      BY <1>4, <2>2
    <3>2. QED
      BY <2>2, <3>1, Zenon DEF VSlots
  <2>3. QED
    BY <2>1, <2>2
<1>6. QED
  BY <1>5 DEF r

\* A receive that returns changes no queue.
LEMMA ReturnSlots ==
  ASSUME NEW w \in VType, NEW t \in DdTasks
  PROVE  \A x \in DSigs : VSlots(VReturn(w, t), x) = VSlots(w, x)
<1>1. VReturn(w, t).slots = w.slots
  BY ReturnFields, Zenon
<1>2. QED
  BY <1>1, Zenon DEF VSlots

\* A send to all leaves no slot of its signal.
LEMMA SendAllSlots ==
  ASSUME NEW w \in VType, NEW s \in DSigs, NEW d \in Nat, Apart(w)
  PROVE  LET r == VSendAll(w, s, d)
         IN  \A x \in DSigs : VSlots(r, x) = IF x = s THEN {} ELSE VSlots(w, x)
<1> DEFINE r == VSendAll(w, s, d)
<1>1. r.slots = [w.slots EXCEPT ![s] = <<>>]
  BY SendAllFields, Zenon
<1>2. w.slots \in [DSigs -> Seq(DdTasks)]
  BY DEF VType
<1> HIDE DEF r
<1>3. \A x \in DSigs : r.slots[x] = IF x = s THEN <<>> ELSE w.slots[x]
  BY <1>1, <1>2
<1>4. DOMAIN <<>> = {}
  OBVIOUS
<1>5. \A x \in DSigs : VSlots(r, x) = IF x = s THEN {} ELSE VSlots(w, x)
  BY <1>3, <1>4 DEF VSlots
<1>6. QED
  BY <1>5 DEF r

\* Closing a signal sends nothing to all and marks it.
LEMMA CloseFields ==
  ASSUME NEW w \in VType, NEW s \in DSigs, Apart(w)
  PROVE  LET r == VClose(w, s)
         IN  /\ r \in VType
             /\ r.dead = w.dead \cup {s}
             /\ r.task = [u \in DdTasks |-> IF u \in VSlots(w, s)
                                            THEN VGiven(w.task[u], NoData) ELSE w.task[u]]
             /\ \A x \in DSigs : VSlots(r, x) = IF x = s THEN {} ELSE VSlots(w, x)
<1> DEFINE a == VSendAll(w, s, NoData)
<1>1. NoData \in Nat
  BY DEF NoData
<1>2. /\ a \in VType /\ a.dead = w.dead
      /\ a.task = [u \in DdTasks |-> IF u \in VSlots(w, s) THEN VGiven(w.task[u], NoData)
                                     ELSE w.task[u]]
  BY <1>1, SendAllFields, Zenon
<1>3. \A x \in DSigs : VSlots(a, x) = IF x = s THEN {} ELSE VSlots(w, x)
  BY <1>1, SendAllSlots
<1> HIDE DEF a
<1>4. VClose(w, s) = [a EXCEPT !.dead = a.dead \cup {s}]
  BY DEF VClose, a
<1>5. /\ VClose(w, s).slots = a.slots /\ VClose(w, s).task = a.task
      /\ VClose(w, s).dead = a.dead \cup {s} /\ VClose(w, s) \in VType
  BY <1>2, <1>4 DEF VType
<1>6. \A x \in DSigs : VSlots(VClose(w, s), x) = VSlots(a, x)
  BY <1>5, Zenon DEF VSlots
<1>7. QED
  BY <1>2, <1>3, <1>5, <1>6

----------------------------------------------------------------------------
\* The operations once more, as the steps use them: what each task has afterwards.
LEMMA Receives ==
  ASSUME NEW w \in VType, NEW t \in DdTasks, NEW s \in DSigs, NEW how,
         NEW r, r = VReceive(w, t, s, how)
  PROVE  /\ r \in VType /\ r.dead = w.dead
         /\ r.task[t].on = s /\ r.task[t].asleep /\ ~r.task[t].intr /\ ~r.task[t].late
         /\ \A u \in DdTasks : u # t => r.task[u] = w.task[u]
         /\ \A x \in DSigs : VSlots(r, x) = IF x = s THEN VSlots(w, x) \cup {t}
                                            ELSE VSlots(w, x)
<1>1. r \in VType /\ r.dead = w.dead
  BY ReceiveType DEF VReceive
<1>2. w.task \in [DdTasks -> VTask]
  BY DEF VType
<1>3. r.task[t] = [on |-> s, asleep |-> TRUE, timed |-> how \in VTimed, intr |-> FALSE,
                   late |-> FALSE, open |-> how \in VData, buf |-> 0]
  BY <1>2 DEF VReceive, NoData
<1>4. \A u \in DdTasks : u # t => r.task[u] = w.task[u]
  BY <1>2 DEF VReceive
<1>5. \A x \in DSigs : VSlots(r, x) = IF x = s THEN VSlots(w, x) \cup {t} ELSE VSlots(w, x)
  BY ReceiveSlots
<1>6. r.task[t].on = s /\ r.task[t].asleep /\ ~r.task[t].intr /\ ~r.task[t].late
  BY <1>3
<1>7. QED
  BY <1>1, <1>4, <1>5, <1>6

\* The receive of a consumer: it provides a buffer and has no timeout.
LEMMA ReceivesData ==
  ASSUME NEW w \in VType, NEW t \in DdTasks, NEW r, r = VReceive(w, t, "poll", "vrecv")
  PROVE  /\ r \in VType /\ r.dead = w.dead
         /\ r.task[t].on = "poll" /\ r.task[t].asleep /\ ~r.task[t].timed
         /\ ~r.task[t].intr /\ ~r.task[t].late /\ r.task[t].open
         /\ \A u \in DdTasks : u # t => r.task[u] = w.task[u]
         /\ VSlots(r, "poll") = VSlots(w, "poll") \cup {t}
         /\ VSlots(r, "post") = VSlots(w, "post")
<1>1. "poll" \in DSigs /\ "post" \in DSigs
  BY DEF DSigs
<1>2. w.task \in [DdTasks -> VTask]
  BY DEF VType
<1>3. ("vrecv" \in VTimed) = FALSE /\ ("vrecv" \in VData) = TRUE
  BY DEF VTimed, VData
<1>4. r.task[t] = [on |-> "poll", asleep |-> TRUE, timed |-> "vrecv" \in VTimed,
                   intr |-> FALSE, late |-> FALSE, open |-> "vrecv" \in VData, buf |-> 0]
  BY <1>2 DEF VReceive, NoData
<1>5. ~r.task[t].timed /\ r.task[t].open
  <2>1. r.task[t] = [on |-> "poll", asleep |-> TRUE, timed |-> FALSE, intr |-> FALSE,
                     late |-> FALSE, open |-> TRUE, buf |-> 0]
    BY <1>3, <1>4, Zenon
  <2>2. QED
    BY <2>1
<1>6. QED
  BY <1>1, <1>5, Receives

\* The task whose receive returned waits for nothing.
LEMMA Returns ==
  ASSUME NEW w \in VType, NEW t \in DdTasks, NEW r, r = VReturn(w, t)
  PROVE  /\ r \in VType /\ r.dead = w.dead
         /\ r.task[t].on = "" /\ r.task[t].asleep = FALSE
         /\ \A u \in DdTasks : u # t => r.task[u] = w.task[u]
         /\ \A x \in DSigs : VSlots(r, x) = VSlots(w, x)
<1>1. r \in VType /\ r.dead = w.dead /\ r.task = [w.task EXCEPT ![t] = VAwake]
  BY ReturnFields
<1>2. \A x \in DSigs : VSlots(r, x) = VSlots(w, x)
  BY ReturnSlots
<1>3. w.task \in [DdTasks -> VTask]
  BY DEF VType
<1>4. r.task[t] = VAwake /\ \A u \in DdTasks : u # t => r.task[u] = w.task[u]
  BY <1>1, <1>3
<1>5. VAwake.on = "" /\ VAwake.asleep = FALSE
  BY DEF VAwake
<1>6. QED
  BY <1>1, <1>2, <1>4, <1>5, Zenon

\* A task that is given something wakes, and holds the first datum it was given.
LEMMA DGiven ==
  ASSUME NEW k \in VTask, NEW d \in Nat, NEW g, g = VGiven(k, d)
  PROVE  /\ g.on = k.on /\ ~g.asleep /\ (g.timed <=> k.timed) /\ (g.intr <=> k.intr)
         /\ (g.late <=> k.late)
         /\ d = NoData => (g.open <=> k.open) /\ g.buf = k.buf
         /\ d # NoData => ~g.open /\ (k.open => g.buf = d)
  BY Zenon DEF VGiven, VTask

\* All tasks with a slot are given the datum, the others nothing.
LEMMA SendsAll ==
  ASSUME NEW w \in VType, NEW s \in DSigs, NEW d \in Nat, Apart(w),
         NEW r, r = VSendAll(w, s, d)
  PROVE  /\ r \in VType /\ r.dead = w.dead
         /\ \A u \in DdTasks : u \notin VSlots(w, s) => r.task[u] = w.task[u]
         /\ \A u \in DdTasks : u \in VSlots(w, s) => r.task[u] = VGiven(w.task[u], d)
         /\ \A x \in DSigs : VSlots(r, x) = IF x = s THEN {} ELSE VSlots(w, x)
<1>1. r \in VType /\ r.dead = w.dead
      /\ r.task = [u \in DdTasks |-> IF u \in VSlots(w, s) THEN VGiven(w.task[u], d)
                                     ELSE w.task[u]]
  BY SendAllFields, Zenon
<1>2. \A x \in DSigs : VSlots(r, x) = IF x = s THEN {} ELSE VSlots(w, x)
  BY SendAllSlots
<1>3. QED
  BY <1>1, <1>2

----------------------------------------------------------------------------
\* Facts about the states of the invariant.

\* No task waits for both signals.
LEMMA InvApart ==
  ASSUME DInv
  PROVE  Apart(ddsig)
<1>1. \A t \in DdTasks : t \in VSlots(ddsig, "poll") => t \in dduse.eaters
  BY Zenon DEF DInv, DType, DSlots, DCalls
<1>2. \A x \in DSigs : VSlots(ddsig, x) \subseteq DdTasks
  BY DEF DInv, DType, VType, VSlots
<1>3. QED
  BY <1>1, <1>2 DEF Apart, DInv, DType, DSlots, Steady, DSigs

\* dd_ready never exceeds dd_users, and when they are equal all members are ready.
LEMMA CountsFinite ==
  ASSUME DType
  PROVE  /\ IsFiniteSet(Members) /\ IsFiniteSet(Ready) /\ Ready \subseteq Members
         /\ Cardinality(Members) \in Nat /\ Cardinality(Ready) \in Nat
         /\ Cardinality(Ready) <= Cardinality(Members)
         /\ Cardinality(Ready) = Cardinality(Members) => Ready = Members
<1>1. Ready \subseteq Members /\ Members \subseteq DdTasks
  BY DEF Ready, Members
<1>2. IsFiniteSet(Members)
  BY <1>1, DdAssumption, FS_Subset
<1>3. QED
  BY <1>1, <1>2, FS_Subset, FS_CardinalityType

----------------------------------------------------------------------------
\* One lemma for each action.

\* Only consumers wait for dd_sigpoll.
LEMMA OnPoll ==
  ASSUME DInv, NEW u \in DdTasks, ddsig.task[u].on = "poll"
  PROVE  ddcall[u] \in {"recv", "unregistered"} /\ u \notin dduse.bakers
<1>1. ddcall[u] \in {"recv", "unregistered"} /\ u \in dduse.eaters
  BY Zenon DEF DInv, DType, DCalls
<1>2. QED
  BY <1>1 DEF DInv, DType, Steady

\* Waking the bakers changes nothing for a task that waits for data.
LEMMA WakeBakers ==
  ASSUME DInv, NEW r, r = VSendAll(ddsig, "post", NoData)
  PROVE  /\ r \in VType /\ r.dead = ddsig.dead
         /\ VSlots(r, "poll") = VSlots(ddsig, "poll") /\ VSlots(r, "post") = {}
         /\ \A u \in DdTasks :
              /\ u \notin dduse.bakers => r.task[u] = ddsig.task[u]
              /\ r.task[u].on = ddsig.task[u].on
              /\ ~ddsig.task[u].asleep => ~r.task[u].asleep
              /\ ddsig.task[u].on = "post" => ~r.task[u].asleep
<1>1. NoData \in Nat /\ Apart(ddsig) /\ ddsig \in VType /\ "post" \in DSigs /\ "poll" \in DSigs
  BY InvApart DEF NoData, DInv, DType, DSigs
<1>2. /\ r \in VType /\ r.dead = ddsig.dead
      /\ \A u \in DdTasks : u \notin VSlots(ddsig, "post") => r.task[u] = ddsig.task[u]
      /\ \A u \in DdTasks : u \in VSlots(ddsig, "post") =>
                                r.task[u] = VGiven(ddsig.task[u], NoData)
      /\ \A x \in DSigs : VSlots(r, x) = IF x = "post" THEN {} ELSE VSlots(ddsig, x)
  BY <1>1, SendsAll
<1>3. \A u \in DdTasks : ddsig.task[u] \in VTask
  BY <1>1 DEF VType
<1>4. \A u \in DdTasks : LET g == VGiven(ddsig.task[u], NoData)
                         IN  g.on = ddsig.task[u].on /\ ~g.asleep
  BY <1>1, <1>3, DGiven
<1>5. ASSUME NEW u \in DdTasks
      PROVE  /\ u \notin dduse.bakers => r.task[u] = ddsig.task[u]
             /\ r.task[u].on = ddsig.task[u].on
             /\ ~ddsig.task[u].asleep => ~r.task[u].asleep
             /\ ddsig.task[u].on = "post" => ~r.task[u].asleep
  <2>1. CASE u \in VSlots(ddsig, "post")
    BY <1>2, <1>4, <2>1 DEF DInv, DSlots
  <2>2. CASE u \notin VSlots(ddsig, "post")
    BY <1>2, <2>2 DEF DInv, DSlots
  <2>3. QED
    BY <2>1, <2>2
<1>6. QED
  BY <1>1, <1>2, <1>5

\* DSlots depends on the signals only.
LEMMA SlotsSame ==
  ASSUME DSlots, UNCHANGED <<ddsig, dduse>>
  PROVE  DSlots'
  BY Zenon DEF DSlots, VSlots, Closed

\* A failed assertion, or no step.
LEMMA DStutter ==
  ASSUME DInv, UNCHANGED <<ddsig, dd_ready, dd_users, member, ddcall, ddjob, due, wrong,
                           ddsent, dduse>>
  PROVE  DInv'
<1>1. DType'
  BY DEF DInv, DType, Steady
<1>2. DSlots'
  BY SlotsSame DEF DInv
<1>3. DCalls'
  BY Zenon DEF DInv, DCalls
<1>4. DCounts' /\ DBakers'
  BY DEF DInv, DCounts, DBakers, Members, Ready
<1>5. DData'
  BY DEF DInv, DData
<1>6. QED
  BY <1>1, <1>2, <1>3, <1>4, <1>5 DEF DInv

\* kddist_adduser: one more member, who is not ready.
LEMMA DAddUser ==
  ASSUME DInv, NEW t \in DdTasks, AddUser(t)
  PROVE  DInv'
<1>1. CASE Broken("slot behind ddd_regv")
  BY <1>1, DStutter, Zenon DEF Broken
<1>2. CASE /\ dd_users' = dd_users + 1
           /\ \E told \in {"yes", "unaware"} : member' = [member EXCEPT ![t] = told]
           /\ due' = [due EXCEPT ![t] = ddsent + 1]
           /\ UNCHANGED <<ddsig, dd_ready, ddcall, ddjob, wrong, ddsent, ddstop, dduse>>
  <2> USE <1>2
  <2>1. DType'
    BY DEF DInv, DType, Steady
  <2>2. ddcall[t] = "none" /\ member[t] = "no" /\ ~ddsig.task[t].asleep
    BY Zenon DEF AddUser, DdStart, DInv, DCalls
  <2>3. DSlots'
    BY SlotsSame DEF DInv
  <2>4. DCalls'
    BY <2>2, Zenon DEF DInv, DType, DCalls
  <2>5. Ready' = Ready /\ Members' = Members \cup {t} /\ t \notin Members
    BY <2>2 DEF DInv, DType, Ready, Members
  <2>6. DCounts' /\ DBakers'
    <3>1. Cardinality(Members \cup {t}) = Cardinality(Members) + 1
      BY <2>5, CountsFinite, FS_AddElement, Zenon DEF DInv
    <3>2. DCounts'
      BY <2>5, <3>1 DEF DInv, DCounts
    <3>3. dd_ready' <= dd_users /\ dd_users' = dd_users + 1 /\ dd_users \in Nat
      BY CountsFinite DEF DInv, DType, DCounts
    <3>4. QED
      BY <3>2, <3>3 DEF DInv, DType, DBakers
  <2>7. DData'
    BY <2>2 DEF DInv, DType, DData
  <2>8. QED
    BY <2>1, <2>3, <2>4, <2>6, <2>7 DEF DInv
<1>3. QED
  BY <1>1, <1>2, Zenon DEF AddUser

\* kddist_deluser: one member less; the bakers are woken if the rest is ready.
LEMMA DDelUser ==
  ASSUME DInv, NEW t \in DdTasks, DelUser(t)
  PROVE  DInv'
<1>1. CASE Broken("caller not in ddd_regv")
  BY <1>1, DStutter, Zenon DEF Broken
<1>2. CASE /\ dd_users' = dd_users - 1
           /\ member' = [member EXCEPT ![t] = "no"]
           /\ ddsig' = IF dd_users' = dd_ready THEN VSendAll(ddsig, "post", NoData) ELSE ddsig
           /\ UNCHANGED <<dd_ready, ddcall, ddjob, due, wrong, ddsent, ddstop, dduse>>
  <2> USE <1>2
  <2>1. ddcall[t] = "none" /\ member[t] = "yes" /\ ~ddsig.task[t].asleep
    BY Zenon DEF DelUser, DdStart, DInv, DCalls
  <2>2. Members' = Members \ {t} /\ t \in Members
    BY <2>1 DEF DInv, DType, Members
  <2>3. dd_users' = Cardinality(Members') /\ dd_users' \in Nat
    <3>1. Cardinality(Members \ {t}) = Cardinality(Members) - 1
      BY <2>2, CountsFinite, FS_RemoveElement, Zenon DEF DInv
    <3>2. IsFiniteSet(Members \ {t})
      BY <2>2, CountsFinite, FS_RemoveElement DEF DInv
    <3>3. Cardinality(Members \ {t}) \in Nat
      BY <3>2, FS_CardinalityType
    <3>4. QED
      BY <2>2, <3>1, <3>3 DEF DInv, DCounts
  <2>4. CASE dd_users' # dd_ready
    <3>1. ddsig' = ddsig
      BY <2>4
    <3>2. DType'
      BY <2>3, <3>1 DEF DInv, DType, Steady
    <3>3. DSlots'
      BY <3>1, SlotsSame DEF DInv
    <3>4. DCalls'
      BY <2>1, <3>1, Zenon DEF DInv, DType, DCalls
    <3>5. Ready' = Ready
      BY <2>1, <3>1 DEF DInv, DType, Ready
    <3>6. DCounts' /\ DBakers'
      BY <2>3, <2>4, <3>5 DEF DInv, DCounts, DBakers
    <3>7. DData'
      BY <2>1, <3>1 DEF DInv, DType, DData
    <3>8. QED
      BY <3>2, <3>3, <3>4, <3>6, <3>7 DEF DInv
  <2>5. CASE dd_users' = dd_ready
    <3>1. ddsig' = VSendAll(ddsig, "post", NoData)
      BY <2>5
    <3>2. /\ ddsig' \in VType /\ ddsig'.dead = ddsig.dead
          /\ VSlots(ddsig', "poll") = VSlots(ddsig, "poll") /\ VSlots(ddsig', "post") = {}
          /\ \A u \in DdTasks :
               /\ u \notin dduse.bakers => ddsig'.task[u] = ddsig.task[u]
               /\ ddsig'.task[u].on = ddsig.task[u].on
               /\ ~ddsig.task[u].asleep => ~ddsig'.task[u].asleep
               /\ ddsig.task[u].on = "post" => ~ddsig'.task[u].asleep
      BY <3>1, WakeBakers
    <3>3. DType'
      BY <2>3, <3>2 DEF DInv, DType, Steady
    <3>4. \A u \in DdTasks : ddsig.task[u].on = "poll" => ddsig'.task[u] = ddsig.task[u]
      BY <3>2, OnPoll
    <3>5. DSlots'
      BY <3>2, <3>4 DEF DInv, DSlots, Closed
    <3>6. DCalls'
      BY <2>1, <3>2, <3>4, Zenon DEF DInv, DType, DCalls
    <3>7. Ready' = Ready
      BY <2>1, <3>2, <3>4 DEF DInv, DType, Ready
    <3>8. DCounts' /\ DBakers'
      BY <2>3, <3>2, <3>7 DEF DInv, DCounts, DBakers
    <3>9. DData'
      BY <2>1, <3>2, <3>4, Zenon DEF DInv, DType, DData, DCalls
    <3>10. QED
      BY <3>3, <3>5, <3>6, <3>8, <3>9 DEF DInv
  <2>6. QED
    BY <2>4, <2>5
<1>3. QED
  BY <1>1, <1>2, Zenon DEF DelUser

\* kddist_vrecv: one more ready member; the bakers are woken if it is the last.
LEMMA DRecvCall ==
  ASSUME DInv, NEW t \in DdTasks, RecvCall(t)
  PROVE  DInv'
<1>w. PICK w : w = IF dd_ready' = dd_users THEN VSendAll(ddsig, "post", NoData) ELSE ddsig
  OBVIOUS
<1>1. /\ ddcall[t] = "none" /\ member[t] = "yes" /\ t \in dduse.eaters /\ ~Closed
      /\ dd_ready' = dd_ready + 1
      /\ ddcall' = [ddcall EXCEPT ![t] = "recv"]
      /\ UNCHANGED <<dd_users, member, ddjob, due, wrong, ddsent, ddstop, dduse>>
  BY DEF RecvCall, DdStart
<1>r. ddsig' = VReceive(w, t, "poll", "vrecv")
  BY <1>w DEF RecvCall, DdStart, DInv, DType, Steady
<1>2. /\ w \in VType /\ w.dead = ddsig.dead
      /\ VSlots(w, "poll") = VSlots(ddsig, "poll")
      /\ VSlots(w, "post") \subseteq VSlots(ddsig, "post")
      /\ \A u \in DdTasks :
           /\ u \notin dduse.bakers => w.task[u] = ddsig.task[u]
           /\ w.task[u].on = ddsig.task[u].on
           /\ ~ddsig.task[u].asleep => ~w.task[u].asleep
           /\ ddsig.task[u].on = "post" /\ w.task[u].asleep =>
                u \in VSlots(w, "post") /\ dd_ready' # dd_users
  <2>1. CASE dd_ready' = dd_users
    <3>1. w = VSendAll(ddsig, "post", NoData)
      BY <1>w, <2>1
    <3>2. QED
      BY <3>1, WakeBakers
  <2>2. CASE dd_ready' # dd_users
    BY <1>w, <2>2 DEF DInv, DType, DSlots
  <2>3. QED
    BY <2>1, <2>2
<1>3. \A u \in DdTasks : ddsig.task[u].on = "poll" => w.task[u] = ddsig.task[u]
  BY <1>2, OnPoll
<1>4. /\ ddsig' \in VType /\ ddsig'.dead = ddsig.dead
      /\ ddsig'.task[t].on = "poll" /\ ddsig'.task[t].asleep /\ ~ddsig'.task[t].timed
      /\ ~ddsig'.task[t].intr /\ ~ddsig'.task[t].late /\ ddsig'.task[t].open
      /\ \A u \in DdTasks : u # t => ddsig'.task[u] = w.task[u]
      /\ VSlots(ddsig', "poll") = VSlots(ddsig, "poll") \cup {t}
      /\ VSlots(ddsig', "post") = VSlots(w, "post")
  BY <1>2, <1>r, ReceivesData
<1>5. t \notin dduse.bakers /\ ~ddsig.task[t].asleep
  BY <1>1, Zenon DEF DInv, DType, DCalls, Steady
<1>6. DType'
  BY <1>1, <1>4 DEF DInv, DType, Steady
<1>7. DSlots'
  BY <1>1, <1>2, <1>3, <1>4, <1>5 DEF DInv, DSlots, Closed
<1>8. DCalls'
  <2>1. ddcall'[t] = "recv" /\ \A u \in DdTasks : u # t => ddcall'[u] = ddcall[u]
    BY <1>1 DEF DInv, DType
  <2>2. \A u \in DdTasks : ddcall[u] \in {"recv", "unregistered"} => ddsig.task[u].on = "poll"
    BY Zenon DEF DInv, DCalls
  <2>3. ASSUME NEW u \in DdTasks, u # t
        PROVE  /\ ddsig'.task[u].on = ddsig.task[u].on
               /\ ~ddsig.task[u].asleep => ~ddsig'.task[u].asleep
               /\ ddsig.task[u].on = "poll" => ddsig'.task[u] = ddsig.task[u]
    BY <1>2, <1>3, <1>4, <2>3
  <2>4. SUFFICES ASSUME NEW u \in DdTasks
                 PROVE  LET k == ddsig'.task[u]
                        IN  /\ ddcall'[u] = "none" => k.on = "" /\ ~k.asleep
                            /\ ddcall'[u] \in {"recv", "unregistered"} =>
                                 /\ k.on = "poll" /\ u \in dduse.eaters
                                 /\ ~k.late /\ ~k.intr /\ ~k.timed
                            /\ ddcall'[u] \in {"send", "timedsend"} =>
                                 k.on = "post" /\ u \in dduse.bakers
                            /\ ddcall'[u] = "unregistered" => member[u] = "no"
                            /\ ddcall'[u] = "recv" /\ k.asleep =>
                                 member[u] = "yes" /\ k.open
    BY <1>1, Zenon DEF DCalls
  <2>5. CASE u = t
    BY <1>1, <1>4, <2>1, <2>5, Zenon
  <2>6. CASE u # t
    BY <2>1, <2>2, <2>3, <2>6, Zenon DEF DInv, DCalls
  <2>7. QED
    BY <2>5, <2>6, Zenon
<1>9. Members' = Members /\ Ready' = Ready \cup {t} /\ t \notin Ready
  BY <1>1, <1>2, <1>3, <1>4, <1>5 DEF DInv, Ready, Members
<1>10. DCounts'
  BY <1>1, <1>9, CountsFinite, FS_AddElement, Zenon DEF DInv, DCounts
<1>11. DBakers'
  BY <1>1, <1>2, <1>4 DEF DBakers
<1>12. DData'
  <2> SUFFICES ASSUME "asyncsend" \notin dduse.calls
               PROVE  DData'
    BY <1>1 DEF DData
  <2>1. ddcall'[t] = "recv" /\ \A u \in DdTasks : u # t => ddcall'[u] = ddcall[u]
    BY <1>1 DEF DInv, DType
  <2>2. due[t] = ddsent + 1
    BY <1>1 DEF DInv, DData
  <2>3. \A u \in DdTasks : ddcall[u] = "recv" => ddsig.task[u].on = "poll"
    BY Zenon DEF DInv, DCalls
  <2>4. QED
    BY <1>1, <1>2, <1>3, <1>4, <2>1, <2>2, <2>3 DEF DInv, DData
<1>13. QED
  BY <1>6, <1>7, <1>8, <1>10, <1>11, <1>12 DEF DInv

\* kddist_vrecv_unregistered: the counters do not know the task.
LEMMA DRecvUnregistered ==
  ASSUME DInv, NEW t \in DdTasks, RecvUnregistered(t)
  PROVE  DInv'
<1>1. /\ ddcall[t] = "none" /\ member[t] = "no" /\ t \in dduse.eaters /\ ~Closed
      /\ ddsig' = VReceive(ddsig, t, "poll", "vrecv")
      /\ ddcall' = [ddcall EXCEPT ![t] = "unregistered"]
      /\ UNCHANGED <<dd_ready, dd_users, member, ddjob, due, wrong, ddsent, ddstop, dduse>>
  BY DEF RecvUnregistered, DdStart
<1>2. /\ ddsig' \in VType /\ ddsig'.dead = ddsig.dead
      /\ ddsig'.task[t].on = "poll" /\ ddsig'.task[t].asleep /\ ~ddsig'.task[t].timed
      /\ ~ddsig'.task[t].intr /\ ~ddsig'.task[t].late /\ ddsig'.task[t].open
      /\ \A u \in DdTasks : u # t => ddsig'.task[u] = ddsig.task[u]
      /\ VSlots(ddsig', "poll") = VSlots(ddsig, "poll") \cup {t}
      /\ VSlots(ddsig', "post") = VSlots(ddsig, "post")
  BY <1>1, ReceivesData DEF DInv, DType
<1>3. t \notin dduse.bakers /\ ~ddsig.task[t].asleep
  BY <1>1, Zenon DEF DInv, DType, DCalls, Steady
<1>4. DType'
  BY <1>1, <1>2 DEF DInv, DType, Steady
<1>5. DSlots'
  BY <1>1, <1>2, <1>3 DEF DInv, DSlots, Closed
<1>6. DCalls'
  BY <1>1, <1>2, ZenonT(30) DEF DInv, DType, DCalls
<1>7. Members' = Members /\ Ready' = Ready
  BY <1>1, <1>2 DEF DInv, Ready, Members
<1>8. DCounts' /\ DBakers'
  BY <1>1, <1>2, <1>7 DEF DInv, DCounts, DBakers
<1>9. DData'
  BY <1>1, <1>2 DEF DInv, DType, DData
<1>10. QED
  BY <1>4, <1>5, <1>6, <1>8, <1>9 DEF DInv

\* The receive returns with the datum that was due, or closed.
LEMMA DRecvDone ==
  ASSUME DInv, NEW t \in DdTasks, RecvDone(t)
  PROVE  DInv'
<1>1. /\ ddcall[t] \in {"recv", "unregistered"} /\ ~ddsig.task[t].asleep
      /\ ddsig' = VReturn(ddsig, t)
      /\ ddcall' = [ddcall EXCEPT ![t] = "none"]
      /\ UNCHANGED <<dd_ready, dd_users, member, ddjob, ddsent, dduse>>
  BY Zenon DEF RecvDone, DdRuns, DdReturn
<1>2. /\ ddsig' \in VType /\ ddsig'.dead = ddsig.dead
      /\ ddsig'.task[t].on = "" /\ ddsig'.task[t].asleep = FALSE
      /\ \A u \in DdTasks : u # t => ddsig'.task[u] = ddsig.task[u]
      /\ VSlots(ddsig', "poll") = VSlots(ddsig, "poll")
      /\ VSlots(ddsig', "post") = VSlots(ddsig, "post")
  <2>1. "poll" \in DSigs /\ "post" \in DSigs /\ ddsig \in VType
    BY DEF DSigs, DInv, DType
  <2>2. QED
    BY <1>1, <2>1, Returns, ZenonT(30)
<1>3. VResult(ddsig, t) = "KE_OK" <=> ~ddsig.task[t].open
  BY <1>1, Zenon DEF DInv, DCalls, VResult
<1>4. /\ due' \in [DdTasks -> Nat]
      /\ \A u \in DdTasks : u # t => due'[u] = due[u]
      /\ ddcall[t] = "recv" /\ ~ddsig.task[t].open => due'[t] = ddsig.task[t].buf + 1
      /\ ~(ddcall[t] = "recv" /\ ~ddsig.task[t].open) => due' = due
  <2>1. ddsig.task[t].buf \in Nat /\ due \in [DdTasks -> Nat]
    BY Zenon DEF DInv, DType, VType, VTask
  <2>2. QED
    BY <1>3, <2>1 DEF RecvDone
<1>5. DType'
  BY <1>1, <1>2, <1>4, Zenon DEF DInv, DType, Steady
<1>6. DSlots'
  BY <1>1, <1>2, Zenon DEF DInv, DSlots, Closed
<1>7. DCalls'
  BY <1>1, <1>2, ZenonT(30) DEF DInv, DType, DCalls
<1>8. Members' = Members /\ Ready' = Ready
  BY <1>1, <1>2, Zenon DEF DInv, Ready, Members
<1>9. DCounts' /\ DBakers'
  BY <1>1, <1>2, <1>8, Zenon DEF DInv, DCounts, DBakers
<1>10. DData'
  <2> SUFFICES ASSUME "asyncsend" \notin dduse.calls
               PROVE  DData'
    BY <1>1 DEF DData
  <2>1. wrong' = {}
    BY <1>1, <1>3 DEF RecvDone, DInv, DData
  <2>2. ddcall'[t] = "none" /\ \A u \in DdTasks : u # t => ddcall'[u] = ddcall[u]
    BY <1>1 DEF DInv, DType
  <2>3. member[t] = "yes" => due'[t] = ddsent + 1
    BY <1>1, <1>4, Zenon DEF DInv, DType, DCalls, DData
  <2>4. QED
    BY <1>1, <1>2, <1>4, <2>1, <2>2, <2>3, ZenonT(30) DEF DInv, DData
<1>11. QED
  BY <1>5, <1>6, <1>7, <1>9, <1>10 DEF DInv

----------------------------------------------------------------------------
\* The state w of the signals in which a baker goes on: it waits for nothing.
Baking(t, w) ==
  /\ w \in VType /\ w.dead = ddsig.dead
  /\ w.task[t].on = "" /\ ~w.task[t].asleep
  /\ \A u \in DdTasks : u # t => w.task[u] = ddsig.task[u]
  /\ VSlots(w, "poll") = VSlots(ddsig, "poll")
  /\ VSlots(w, "post") = VSlots(ddsig, "post")
  /\ t \in dduse.bakers /\ t \notin dduse.eaters
  /\ ~ddsig.task[t].asleep /\ ddcall[t] \notin {"recv", "unregistered"}

\* A send that fails.
LEMMA DSendFails ==
  ASSUME DInv, NEW t \in DdTasks, NEW w, Baking(t, w), SendFails(t, w)
  PROVE  DInv'
<1>1. /\ ddsig' = w /\ ddcall' = [ddcall EXCEPT ![t] = "none"]
      /\ UNCHANGED <<dd_ready, dd_users, member, ddjob, due, wrong, ddsent, dduse>>
  BY Zenon DEF SendFails, DdReturn
<1>2. /\ ddsig' \in VType /\ ddsig'.dead = ddsig.dead
      /\ ddsig'.task[t].on = "" /\ ~ddsig'.task[t].asleep
      /\ \A u \in DdTasks : u # t => ddsig'.task[u] = ddsig.task[u]
      /\ VSlots(ddsig', "poll") = VSlots(ddsig, "poll")
      /\ VSlots(ddsig', "post") = VSlots(ddsig, "post")
  BY <1>1, Zenon DEF Baking
<1>3. /\ ddcall'[t] = "none" /\ \A u \in DdTasks : u # t => ddcall'[u] = ddcall[u]
  BY <1>1 DEF DInv, DType
<1>4. DType'
  BY <1>1, <1>2, Zenon DEF DInv, DType, Steady
<1>5. DSlots'
  BY <1>1, <1>2, Zenon DEF DInv, DSlots, Closed, Baking
<1>6. DCalls'
  BY <1>1, <1>2, <1>3, ZenonT(30) DEF DInv, DCalls
<1>7. Members' = Members /\ Ready' = Ready
  BY <1>1, <1>2, Zenon DEF Ready, Members, Baking
<1>8. DCounts' /\ DBakers'
  BY <1>1, <1>2, <1>7, Zenon DEF DInv, DCounts, DBakers
<1>9. DData'
  BY <1>1, <1>2, <1>3, ZenonT(30) DEF DInv, DData, Baking
<1>10. QED
  BY <1>4, <1>5, <1>6, <1>8, <1>9 DEF DInv

\* A baker finds a consumer missing and sleeps.
LEMMA DSendWaits ==
  ASSUME DInv, NEW t \in DdTasks, NEW w, Baking(t, w), ~Closed, dd_ready # dd_users,
         NEW how, NEW c \in {"send", "timedsend"}, ddsig' = VReceive(w, t, "post", how),
         ddcall' = [ddcall EXCEPT ![t] = c],
         UNCHANGED <<dd_ready, dd_users, member, ddjob, due, wrong, ddsent, ddstop, dduse>>
  PROVE  DInv'
<1>1. "post" \in DSigs /\ "poll" \in DSigs /\ w \in VType
  BY Zenon DEF DSigs, Baking
<1>2. /\ ddsig' \in VType /\ ddsig'.dead = ddsig.dead
      /\ ddsig'.task[t].on = "post" /\ ddsig'.task[t].asleep
      /\ \A u \in DdTasks : u # t => ddsig'.task[u] = ddsig.task[u]
      /\ VSlots(ddsig', "poll") = VSlots(ddsig, "poll")
      /\ VSlots(ddsig', "post") = VSlots(ddsig, "post") \cup {t}
  <2>1. /\ ddsig' \in VType /\ ddsig'.dead = w.dead
        /\ ddsig'.task[t].on = "post" /\ ddsig'.task[t].asleep
        /\ \A u \in DdTasks : u # t => ddsig'.task[u] = w.task[u]
        /\ \A x \in DSigs : VSlots(ddsig', x) = IF x = "post" THEN VSlots(w, x) \cup {t}
                                                ELSE VSlots(w, x)
    BY <1>1, Receives
  <2>2. QED
    BY <1>1, <2>1, Zenon DEF Baking
<1>3. /\ ddcall'[t] = c /\ \A u \in DdTasks : u # t => ddcall'[u] = ddcall[u]
  BY DEF DInv, DType
<1>4. DType'
  BY <1>2 DEF DInv, DType, Steady
<1>5. DSlots'
  BY <1>2, Zenon DEF DInv, DSlots, Closed, Baking
<1>6. DCalls'
  BY <1>2, <1>3, ZenonT(30) DEF DInv, DCalls, Baking
<1>7. Members' = Members /\ Ready' = Ready
  BY <1>2, Zenon DEF Ready, Members, Baking
<1>8. DCounts' /\ DBakers'
  BY <1>2, <1>7 DEF DInv, DCounts, DBakers
<1>9. DData'
  <2>1. ddcall'[t] # "recv" /\ ddcall[t] # "recv"
    BY <1>3, Zenon DEF Baking
  <2>2. \A u \in DdTasks : u # t => ddsig'.task[u] = ddsig.task[u] /\ ddcall'[u] = ddcall[u]
    BY <1>2, <1>3
  <2>3. QED
    BY <2>1, <2>2 DEF DInv, DData
<1>10. QED
  BY <1>4, <1>5, <1>6, <1>8, <1>9 DEF DInv

\* The commit, by a baker that waited for all consumers or did not care to.
LEMMA DCommits ==
  ASSUME DInv, NEW t \in DdTasks, NEW w, Baking(t, w), ~Closed, dd_ready' = 0, DdCommit(t, w),
         dd_ready = dd_users \/ "asyncsend" \in dduse.calls
  PROVE  DInv'
<1>d. PICK d \in Nat : d = ddsent + 1
  BY DEF DInv, DType
<1>1. d \in Nat /\ d # NoData /\ "poll" \in DSigs /\ "post" \in DSigs
  BY <1>d DEF DInv, DType, NoData, DSigs
<1>2. /\ ddsent' = d /\ ddsig' = VSendAll(w, "poll", d)
      /\ ddjob' = [ddjob EXCEPT ![t] = NoData]
      /\ ddcall' = [ddcall EXCEPT ![t] = "none"]
      /\ UNCHANGED <<dd_users, member, due, wrong, ddstop, dduse>>
  BY <1>d DEF DdCommit, DdReturn, DInv, DType, Steady
<1>3. Apart(w) /\ w \in VType /\ \A u \in DdTasks : w.task[u] \in VTask
  BY InvApart, Zenon DEF Baking, Apart, VType
<1>4. /\ ddsig' \in VType /\ ddsig'.dead = ddsig.dead
      /\ \A u \in DdTasks : u \notin VSlots(w, "poll") => ddsig'.task[u] = w.task[u]
      /\ \A u \in DdTasks : u \in VSlots(w, "poll") => ddsig'.task[u] = VGiven(w.task[u], d)
      /\ VSlots(ddsig', "poll") = {}
      /\ VSlots(ddsig', "post") = VSlots(ddsig, "post")
  <2>1. /\ ddsig' \in VType /\ ddsig'.dead = w.dead
        /\ \A u \in DdTasks : u \notin VSlots(w, "poll") => ddsig'.task[u] = w.task[u]
        /\ \A u \in DdTasks : u \in VSlots(w, "poll") =>
                                 ddsig'.task[u] = VGiven(w.task[u], d)
        /\ \A x \in DSigs : VSlots(ddsig', x) = IF x = "poll" THEN {} ELSE VSlots(w, x)
    BY <1>1, <1>2, <1>3, SendsAll
  <2>2. QED
    BY <1>1, <2>1, Zenon DEF Baking
<1>5. t \notin VSlots(ddsig, "poll")
  BY Zenon DEF Baking, DInv, DSlots
<1>6. /\ ddsig'.task[t].on = "" /\ ~ddsig'.task[t].asleep
      /\ \A u \in DdTasks : u # t /\ u \notin VSlots(ddsig, "poll") =>
                               ddsig'.task[u] = ddsig.task[u]
      /\ \A u \in DdTasks : u \in VSlots(ddsig, "poll") =>
                               ddsig'.task[u] = VGiven(ddsig.task[u], d)
  BY <1>4, <1>5, Zenon DEF Baking
<1>7. ASSUME NEW u \in DdTasks, u \in VSlots(ddsig, "poll")
      PROVE  /\ ddsig'.task[u].on = ddsig.task[u].on /\ ~ddsig'.task[u].asleep
             /\ (ddsig'.task[u].timed <=> ddsig.task[u].timed)
             /\ (ddsig'.task[u].intr <=> ddsig.task[u].intr)
             /\ (ddsig'.task[u].late <=> ddsig.task[u].late)
             /\ ~ddsig'.task[u].open
             /\ ddsig.task[u].open => ddsig'.task[u].buf = d
  <2>1. ddsig.task[u] \in VTask
    BY DEF DInv, DType, VType
  <2>2. ddsig'.task[u] = VGiven(ddsig.task[u], d)
    BY <1>6, <1>7, Zenon
  <2>3. QED
    BY <1>1, <2>1, <2>2, DGiven
<1>8. /\ ddcall'[t] = "none" /\ \A u \in DdTasks : u # t => ddcall'[u] = ddcall[u]
  BY <1>2, Zenon DEF DInv, DType
<1>9. DType'
  BY <1>1, <1>2, <1>4, Zenon DEF DInv, DType, Steady, NoData
<1>10. DSlots'
  BY <1>2, <1>4, <1>6, <1>7, ZenonT(30) DEF DInv, DSlots, Closed, Baking
<1>11. DCalls'
  <2>1. ASSUME NEW u \in DdTasks, u # t
        PROVE  /\ ddcall'[u] = ddcall[u] /\ ddsig'.task[u].on = ddsig.task[u].on
               /\ (ddsig'.task[u].timed <=> ddsig.task[u].timed)
               /\ (ddsig'.task[u].intr <=> ddsig.task[u].intr)
               /\ (ddsig'.task[u].late <=> ddsig.task[u].late)
               /\ ddsig'.task[u].asleep =>
                    ddsig.task[u].asleep /\ (ddsig'.task[u].open <=> ddsig.task[u].open)
    BY <1>6, <1>7, <1>8, <2>1, Zenon
  <2>2. SUFFICES ASSUME NEW u \in DdTasks
                 PROVE  LET k == ddsig'.task[u]
                        IN  /\ ddcall'[u] = "none" => k.on = "" /\ ~k.asleep
                            /\ ddcall'[u] \in {"recv", "unregistered"} =>
                                 /\ k.on = "poll" /\ u \in dduse.eaters
                                 /\ ~k.late /\ ~k.intr /\ ~k.timed
                            /\ ddcall'[u] \in {"send", "timedsend"} =>
                                 k.on = "post" /\ u \in dduse.bakers
                            /\ ddcall'[u] = "unregistered" => member[u] = "no"
                            /\ ddcall'[u] = "recv" /\ k.asleep =>
                                 member[u] = "yes" /\ k.open
    BY <1>2, Zenon DEF DCalls
  <2>3. CASE u = t
    BY <1>6, <1>8, <2>3, Zenon
  <2>4. CASE u # t
    <3>1. ddcall[u] = "none" => ~ddsig'.task[u].asleep
      BY <2>1, <2>4, Zenon DEF DInv, DCalls
    <3>2. QED
      BY <2>1, <2>4, <3>1, ZenonT(30) DEF DInv, DCalls
  <2>5. QED
    BY <2>3, <2>4, Zenon
<1>12. Members' = Members /\ Ready' = {}
  <2>1. \A u \in DdTasks : ~(ddsig'.task[u].asleep /\ ddsig'.task[u].on = "poll")
    BY <1>6, <1>7, Zenon DEF DInv, DSlots
  <2>2. QED
    BY <1>2, <2>1 DEF Ready, Members
<1>13. DCounts'
  BY <1>2, <1>12, FS_EmptySet DEF DInv, DCounts
<1>14. DBakers'
  <2>1. dd_ready <= dd_users /\ dd_ready \in Nat /\ dd_users \in Nat
    BY CountsFinite DEF DInv, DType, DCounts
  <2>2. \A u \in DdTasks : ddsig'.task[u].asleep /\ ddsig'.task[u].on = "post" =>
                             dd_ready # dd_users
    BY <1>6, <1>7, Zenon DEF DInv, DBakers
  <2>3. QED
    BY <1>2, <2>1, <2>2 DEF DBakers
<1>15. DData'
  <2> SUFFICES ASSUME "asyncsend" \notin dduse.calls
               PROVE  DData'
    BY <1>2 DEF DData
  <2>1. Ready = Members
    BY CountsFinite DEF DInv, DCounts
  <2>2. \A u \in DdTasks : member[u] = "yes" => u \in VSlots(ddsig, "poll")
    BY <2>1, Zenon DEF Ready, Members, DInv, DSlots
  <2>3. \A u \in DdTasks : u \in VSlots(ddsig, "poll") /\ ddcall[u] = "recv" =>
          due[u] = d /\ ddsig'.task[u].buf = d /\ ~ddsig'.task[u].asleep
    BY <1>d, <1>7, Zenon DEF DInv, DSlots, DCalls, DData
  <2>4. \A u \in DdTasks : member[u] = "yes" => ddcall[u] = "recv"
    BY <2>2, OnPoll, Zenon DEF DInv, DSlots, DCalls
  <2>5. ASSUME NEW u \in DdTasks
        PROVE  /\ member[u] = "yes" => ddcall'[u] = "recv" /\ ~ddsig'.task[u].asleep
               /\ ddcall'[u] = "recv" /\ ~ddsig'.task[u].asleep /\ ~ddsig'.task[u].open =>
                    ddsig'.task[u].buf = due[u] /\ (member[u] = "yes" => due[u] = d)
               /\ ddcall'[u] = "recv" /\ ~ddsig'.task[u].asleep /\ ddsig'.task[u].open =>
                    member[u] # "yes"
    <3>1. CASE u \in VSlots(ddsig, "poll")
      BY <1>5, <1>7, <1>8, <2>3, <2>4, <3>1, Zenon
    <3>2. CASE u \notin VSlots(ddsig, "poll")
      BY <1>6, <1>8, <2>2, <3>2, Zenon DEF DInv, DData
    <3>3. QED
      BY <3>1, <3>2, Zenon
  <2>6. QED
    BY <1>2, <2>5 DEF DInv, DData
<1>16. QED
  BY <1>9, <1>10, <1>11, <1>13, <1>14, <1>15 DEF DInv

\* The loop of a send, from 'again:' on.
LEMMA DBegin ==
  ASSUME DInv, NEW t \in DdTasks, NEW w, Baking(t, w), NEW tm \in BOOLEAN, Begin(t, w, tm)
  PROVE  DInv'
<1>1. CASE Closed /\ SendFails(t, w)
  BY <1>1, DSendFails
<1>2. CASE Broken("dd_ready <= dd_users")
  BY <1>2, DStutter, Zenon DEF Broken
<1>3. CASE /\ ~Closed /\ dd_ready # dd_users
           /\ ddsig' = VReceive(w, t, "post", IF tm THEN "timedrecv" ELSE "recv")
           /\ ddcall' = [ddcall EXCEPT ![t] = IF tm THEN "timedsend" ELSE "send"]
           /\ UNCHANGED <<dd_ready, dd_users, member, ddjob, due, wrong, ddsent, ddstop,
                          dduse>>
  <2>1. CASE tm
    <3>1. ddcall' = [ddcall EXCEPT ![t] = "timedsend"]
      BY <1>3, <2>1
    <3>2. ddsig' = VReceive(w, t, "post", "timedrecv")
      BY <1>3, <2>1
    <3>3. QED
      BY <1>3, <3>1, <3>2, DSendWaits, Zenon
  <2>2. CASE ~tm
    <3>1. ddcall' = [ddcall EXCEPT ![t] = "send"]
      BY <1>3, <2>2
    <3>2. ddsig' = VReceive(w, t, "post", "recv")
      BY <1>3, <2>2
    <3>3. QED
      BY <1>3, <3>1, <3>2, DSendWaits, Zenon
  <2>3. QED
    BY <2>1, <2>2
<1>4. CASE ~Closed /\ dd_ready = dd_users /\ dd_ready' = 0 /\ DdCommit(t, w)
  BY <1>4, DCommits
<1>5. QED
  BY <1>1, <1>2, <1>3, <1>4, Zenon DEF Begin

\* A baker that starts a call; one that was woken.
LEMMA StartBaking ==
  ASSUME DInv, NEW t \in DdTasks, t \in dduse.bakers, ddcall[t] = "none"
  PROVE  Baking(t, ddsig)
<1>1. t \notin dduse.eaters
  BY DEF DInv, DType, Steady
<1>2. QED
  BY <1>1, Zenon DEF DInv, DType, DCalls, Baking

\* kddist_vsend and kddist_vtimedsend.
LEMMA DSendCall ==
  ASSUME DInv, NEW t \in DdTasks, SendCall(t)
  PROVE  DInv'
<1>1. PICK tm \in BOOLEAN : t \in dduse.bakers /\ ddcall[t] = "none" /\ Begin(t, ddsig, tm)
  BY DEF SendCall, DdStart
<1>2. QED
  BY <1>1, StartBaking, DBegin

\* The wait of a baker is over.
LEMMA DSendWoken ==
  ASSUME DInv, NEW t \in DdTasks, SendWoken(t)
  PROVE  DInv'
<1>1. ddcall[t] \in {"send", "timedsend"} /\ ~ddsig.task[t].asleep
  BY Zenon DEF SendWoken, DdRuns
<1>2. t \in dduse.bakers /\ t \notin dduse.eaters
  BY <1>1, Zenon DEF DInv, DType, DCalls, Steady
<1>3. PICK w : w = VReturn(ddsig, t)
  OBVIOUS
<1>4. /\ w \in VType /\ w.dead = ddsig.dead
      /\ w.task[t].on = "" /\ w.task[t].asleep = FALSE
      /\ \A u \in DdTasks : u # t => w.task[u] = ddsig.task[u]
      /\ VSlots(w, "poll") = VSlots(ddsig, "poll")
      /\ VSlots(w, "post") = VSlots(ddsig, "post")
  <2>1. "poll" \in DSigs /\ "post" \in DSigs /\ ddsig \in VType
    BY DEF DSigs, DInv, DType
  <2>2. QED
    BY <1>3, <2>1, Returns, ZenonT(30)
<1>5. Baking(t, w)
  BY <1>1, <1>2, <1>4, Zenon DEF Baking
<1>6. CASE SendFails(t, w)
  BY <1>5, <1>6, DSendFails
<1>7. CASE Begin(t, w, ddcall[t] = "timedsend")
  <2>1. PICK tm \in BOOLEAN : tm = (ddcall[t] = "timedsend")
    BY Zenon
  <2>2. Begin(t, w, tm)
    BY <1>7, <2>1, Zenon
  <2>3. QED
    BY <1>5, <2>2, DBegin
<1>8. QED
  BY <1>3, <1>6, <1>7 DEF SendWoken

\* kddist_vasyncsend.
LEMMA DAsyncSend ==
  ASSUME DInv, NEW t \in DdTasks, AsyncSend(t)
  PROVE  DInv'
<1>1. Baking(t, ddsig) /\ "asyncsend" \in dduse.calls
  BY StartBaking DEF AsyncSend, DdStart
<1>2. CASE Closed /\ SendFails(t, ddsig)
  BY <1>1, <1>2, DSendFails
<1>3. CASE ~Closed /\ dd_ready' = 0 /\ DdCommit(t, ddsig)
  BY <1>1, <1>3, DCommits
<1>4. QED
  BY <1>2, <1>3 DEF AsyncSend

----------------------------------------------------------------------------
\* kddist_close: everybody wakes and nobody is a member.
LEMMA DDdClose ==
  ASSUME DInv, NEW t \in DdTasks, DdClose(t)
  PROVE  DInv'
<1>1. /\ dd_ready' = 0 /\ dd_users' = 0
      /\ member' = [u \in DdTasks |-> "no"]
      /\ UNCHANGED <<ddcall, ddjob, due, wrong, ddsent, ddstop, dduse>>
  BY DEF DdClose
<1>2. PICK a : a = VClose(ddsig, "post")
  OBVIOUS
<1>3. ddsig' = VClose(a, "poll")
  BY <1>2 DEF DdClose
<1>4. "poll" \in DSigs /\ "post" \in DSigs /\ ddsig \in VType /\ Apart(ddsig) /\ NoData \in Nat
  BY InvApart DEF DSigs, DInv, DType, NoData
<1>5. /\ a \in VType /\ a.dead = ddsig.dead \cup {"post"}
      /\ a.task = [u \in DdTasks |-> IF u \in VSlots(ddsig, "post")
                                     THEN VGiven(ddsig.task[u], NoData) ELSE ddsig.task[u]]
      /\ \A x \in DSigs : VSlots(a, x) = IF x = "post" THEN {} ELSE VSlots(ddsig, x)
  BY <1>2, <1>4, CloseFields
<1>6. Apart(a)
  BY <1>4, <1>5 DEF Apart
<1>7. /\ ddsig' \in VType /\ ddsig'.dead = a.dead \cup {"poll"}
      /\ ddsig'.task = [u \in DdTasks |-> IF u \in VSlots(a, "poll")
                                          THEN VGiven(a.task[u], NoData) ELSE a.task[u]]
      /\ \A x \in DSigs : VSlots(ddsig', x) = IF x = "poll" THEN {} ELSE VSlots(a, x)
  BY <1>3, <1>4, <1>5, <1>6, CloseFields
<1>8. VSlots(ddsig', "poll") = {} /\ VSlots(ddsig', "post") = {}
  BY <1>4, <1>5, <1>7, Zenon
<1>9. ASSUME NEW u \in DdTasks
      PROVE  /\ ddsig'.task[u].on = ddsig.task[u].on
             /\ (ddsig'.task[u].timed <=> ddsig.task[u].timed)
             /\ (ddsig'.task[u].intr <=> ddsig.task[u].intr)
             /\ (ddsig'.task[u].late <=> ddsig.task[u].late)
             /\ (ddsig'.task[u].open <=> ddsig.task[u].open)
             /\ ddsig'.task[u].buf = ddsig.task[u].buf
             /\ ~ddsig'.task[u].asleep
  <2>1. ddsig.task[u] \in VTask /\ a.task[u] \in VTask
    BY <1>4, <1>5 DEF VType
  <2>2. CASE u \in VSlots(ddsig, "poll")
    <3>1. u \notin VSlots(ddsig, "post") /\ u \in VSlots(a, "poll")
      BY <1>4, <1>5, <2>2 DEF Apart
    <3>2. ddsig'.task[u] = VGiven(ddsig.task[u], NoData)
      BY <1>5, <1>7, <3>1
    <3>3. QED
      BY <1>4, <2>1, <3>2, DGiven
  <2>3. CASE u \in VSlots(ddsig, "post")
    <3>1. u \notin VSlots(a, "poll")
      BY <1>4, <1>5, <2>3 DEF Apart
    <3>2. ddsig'.task[u] = VGiven(ddsig.task[u], NoData)
      BY <1>5, <1>7, <2>3, <3>1
    <3>3. QED
      BY <1>4, <2>1, <3>2, DGiven
  <2>4. CASE u \notin VSlots(ddsig, "poll") /\ u \notin VSlots(ddsig, "post")
    <3>1. ddsig'.task[u] = ddsig.task[u]
      BY <1>4, <1>5, <1>7, <2>4
    <3>2. ~ddsig.task[u].asleep
      BY <2>4, Zenon DEF DInv, DType, DSlots, DCalls
    <3>3. QED
      BY <3>1, <3>2
  <2>5. QED
    BY <2>2, <2>3, <2>4, Zenon
<1>10. DType'
  BY <1>1, <1>7 DEF DInv, DType, Steady
<1>11. DSlots'
  BY <1>1, <1>8, <1>9 DEF DSlots
<1>12. DCalls'
  <2>1. SUFFICES ASSUME NEW u \in DdTasks
                 PROVE  LET k == ddsig'.task[u]
                        IN  /\ ddcall[u] = "none" => k.on = ""
                            /\ ddcall[u] \in {"recv", "unregistered"} =>
                                 /\ k.on = "poll" /\ u \in dduse.eaters
                                 /\ ~k.late /\ ~k.intr /\ ~k.timed
                            /\ ddcall[u] \in {"send", "timedsend"} =>
                                 k.on = "post" /\ u \in dduse.bakers
    BY <1>1, <1>9, Zenon DEF DCalls
  <2>2. QED
    BY <1>9, Zenon DEF DInv, DCalls
<1>13. Members' = {} /\ Ready' = {}
  BY <1>1 DEF Members, Ready
<1>14. DCounts' /\ DBakers'
  BY <1>1, <1>9, <1>13, FS_EmptySet DEF DCounts, DBakers
<1>15. DData'
  <2>1. ASSUME "asyncsend" \notin dduse.calls, NEW u \in DdTasks, ddcall[u] = "recv",
               ~ddsig'.task[u].open
        PROVE  ddsig'.task[u].buf = due[u]
    <3>1. ~ddsig.task[u].open
      BY <1>9, <2>1
    <3>2. ~ddsig.task[u].asleep
      BY <2>1, <3>1, Zenon DEF DInv, DCalls
    <3>3. QED
      BY <1>9, <2>1, <3>1, <3>2 DEF DInv, DData
  <2>2. "asyncsend" \notin dduse.calls => wrong = {}
    BY DEF DInv, DData
  <2>3. \A u \in DdTasks : member'[u] = "no"
    BY <1>1
  <2>4. QED
    BY <1>1, <2>1, <2>2, <2>3 DEF DData
<1>16. QED
  BY <1>10, <1>11, <1>12, <1>14, <1>15 DEF DInv

\* kddist_reset.
LEMMA DDdReset ==
  ASSUME DInv, NEW t \in DdTasks, DdReset(t)
  PROVE  DInv'
<1>1. CASE Broken("users of a closed ddist")
  BY <1>1, DStutter, Zenon DEF Broken
<1>2. CASE /\ ddsig' = VReset(VReset(ddsig, "poll"), "post")
           /\ UNCHANGED <<dd_ready, dd_users, member, ddcall, ddjob, due, wrong, ddsent,
                          ddstop, dduse>>
  <2>1. /\ ddsig'.task = ddsig.task /\ ddsig'.slots = ddsig.slots
        /\ "poll" \notin ddsig'.dead /\ ddsig' \in VType
    <3>1. PICK a : a = VReset(ddsig, "poll")
      OBVIOUS
    <3>2. a \in VType /\ a.task = ddsig.task /\ a.slots = ddsig.slots /\ "poll" \notin a.dead
      BY <3>1, Zenon DEF VReset, VType, DInv, DType
    <3>3. ddsig' = VReset(a, "post")
      BY <1>2, <3>1
    <3>4. QED
      BY <3>2, <3>3 DEF VReset, VType
  <2>2. \A x : VSlots(ddsig', x) = VSlots(ddsig, x)
    BY <2>1, Zenon DEF VSlots
  <2>3. DType'
    BY <1>2, <2>1 DEF DInv, DType, Steady
  <2>4. DSlots'
    BY <1>2, <2>1, <2>2 DEF DInv, DSlots, Closed
  <2>5. DCalls'
    BY <1>2, <2>1, Zenon DEF DInv, DCalls
  <2>6. DCounts' /\ DBakers'
    BY <1>2, <2>1, Zenon DEF DInv, DCounts, DBakers, Members, Ready
  <2>7. DData'
    BY <1>2, <2>1 DEF DInv, DData
  <2>8. QED
    BY <2>3, <2>4, <2>5, <2>6, <2>7 DEF DInv
<1>3. QED
  BY <1>1, <1>2, Zenon DEF DdReset

\* Only a baker's wait can time out, and nobody is interrupted.
LEMMA DDisturb ==
  ASSUME DInv, NEW t \in DdTasks, Disturb(t)
  PROVE  DInv'
<1>1. /\ ddsig.task[t].asleep /\ ddsig.task[t].timed /\ ddsig' = VTimer(ddsig, t)
      /\ UNCHANGED <<dd_ready, dd_users, member, ddcall, ddjob, due, wrong, ddsent, dduse>>
  BY Zenon DEF Disturb, DInv, DType, Steady
<1>2. ddcall[t] \in {"send", "timedsend"} /\ ddsig.task[t].on = "post"
  BY <1>1, Zenon DEF DInv, DType, DCalls
<1>3. ddsig \in VType /\ ddsig.task \in [DdTasks -> VTask]
  BY DEF DInv, DType, VType
<1>4. /\ ddsig' \in VType /\ ddsig'.dead = ddsig.dead /\ ddsig'.slots = ddsig.slots
      /\ ddsig'.task[t].on = "post" /\ ~ddsig'.task[t].asleep
      /\ \A u \in DdTasks : u # t => ddsig'.task[u] = ddsig.task[u]
  <2>1. PICK k : k = [ddsig.task[t] EXCEPT !.asleep = FALSE, !.late = TRUE]
    OBVIOUS
  <2>2. k \in VTask /\ k.on = "post" /\ ~k.asleep
    BY <1>2, <1>3, <2>1, Zenon DEF VTask
  <2>3. ddsig' = [ddsig EXCEPT !.task[t] = k]
    BY <1>1, <2>1 DEF VTimer
  <2>4. ddsig'.task = [ddsig.task EXCEPT ![t] = k]
    BY <1>3, <2>3 DEF VType
  <2>5. ddsig' \in VType /\ ddsig'.dead = ddsig.dead /\ ddsig'.slots = ddsig.slots
    BY <1>3, <2>2, <2>3, Zenon DEF VType
  <2>6. QED
    BY <1>3, <2>2, <2>4, <2>5
<1>5. \A x : VSlots(ddsig', x) = VSlots(ddsig, x)
  BY <1>4, Zenon DEF VSlots
<1>6. DType'
  BY <1>1, <1>4 DEF DInv, DType, Steady
<1>7. DSlots'
  BY <1>1, <1>2, <1>4, <1>5, Zenon DEF DInv, DSlots, Closed
<1>8. DCalls'
  BY <1>1, <1>2, <1>4, ZenonT(30) DEF DInv, DCalls
<1>9. Members' = Members /\ Ready' = Ready
  BY <1>1, <1>2, <1>4 DEF Members, Ready
<1>10. DCounts' /\ DBakers'
  BY <1>1, <1>4, <1>9, Zenon DEF DInv, DCounts, DBakers
<1>11. DData'
  BY <1>1, <1>2, <1>4 DEF DInv, DData
<1>12. QED
  BY <1>6, <1>7, <1>8, <1>10, <1>11 DEF DInv

----------------------------------------------------------------------------
\* The invariant holds at the start.
LEMMA DInitInv ==
  ASSUME DdInit, Steady
  PROVE  DInv
<1>1. ddsig = [slots |-> [s \in DSigs |-> <<>>], dead |-> {},
               task |-> [t \in DdTasks |-> VAwake]]
  BY Zenon DEF DdInit, VInit, DSigs
<1>2. VAwake \in VTask /\ VAwake.on = "" /\ ~VAwake.asleep
  BY DEF VAwake, VTask, NoData
<1>3. /\ ddsig \in VType /\ ddsig.dead = {} /\ \A x \in DSigs : ddsig.slots[x] = <<>>
      /\ \A t \in DdTasks : ddsig.task[t] = VAwake
  <2>1. [s \in DSigs |-> <<>>] \in [DSigs -> Seq(DdTasks)]
    OBVIOUS
  <2>2. [t \in DdTasks |-> VAwake] \in [DdTasks -> VTask]
    BY <1>2, Zenon
  <2>3. ddsig.slots = [s \in DSigs |-> <<>>] /\ ddsig.task = [t \in DdTasks |-> VAwake]
    BY <1>1
  <2>4. ddsig \in VType /\ ddsig.dead = {}
    BY <1>1, <2>1, <2>2 DEF VType
  <2>5. QED
    BY <2>3, <2>4
<1>4. VSlots(ddsig, "poll") = {} /\ VSlots(ddsig, "post") = {}
  BY <1>3 DEF VSlots, DSigs
<1>5. DType
  BY <1>3, Zenon DEF DdInit, DType, NoData
<1>6. DSlots
  BY <1>2, <1>3, <1>4, Zenon DEF DSlots
<1>7. DCalls
  BY <1>2, <1>3, Zenon DEF DCalls, DdInit
<1>8. Members = {} /\ Ready = {}
  BY Zenon DEF Members, Ready, DdInit
<1>9. DCounts /\ DBakers
  BY <1>2, <1>3, <1>8, FS_EmptySet, Zenon DEF DCounts, DBakers, DdInit
<1>10. DData
  BY Zenon DEF DData, DdInit
<1>11. QED
  BY <1>5, <1>6, <1>7, <1>9, <1>10 DEF DInv

\* The invariant is inductive.
LEMMA DStep ==
  ASSUME DInv, [DdNext]_ddvars
  PROVE  DInv'
<1>1. CASE UNCHANGED ddvars
  BY <1>1, DStutter DEF ddvars
<1>2. ASSUME NEW t \in DdTasks, TrySend(t)
      PROVE  FALSE
  BY <1>2, Zenon DEF TrySend, DdStart, DInv, DType, Steady
<1>3. ASSUME NEW t \in DdTasks, SendOn(t)
      PROVE  FALSE
  BY <1>3 DEF SendOn, DInv, DType
<1>4. QED
  BY <1>1, <1>2, <1>3, DAddUser, DDelUser, DRecvCall, DRecvUnregistered, DRecvDone,
     DSendCall, DSendWoken, DAsyncSend, DDdClose, DDdReset, DDisturb DEF DdNext

\* The use does not change, so that what holds of the steady ones follows from the
\* invariant.
LEMMA DSafe ==
  DdSpec => [](Steady => DInv)
<1>1. DdInit => (Steady => DInv)
  BY DInitInv
<1>2. (Steady => DInv) /\ [DdNext]_ddvars => (Steady => DInv)'
  <2> SUFFICES ASSUME Steady => DInv, [DdNext]_ddvars, Steady'
               PROVE  DInv'
    BY Zenon
  <2>1. dduse' = dduse
    BY Zenon DEF DdNext, ddvars, AddUser, DelUser, RecvCall, RecvUnregistered, RecvDone, SendCall,
           SendWoken, TrySend, AsyncSend, SendOn, DdClose, DdReset, Disturb, Broken, Begin,
           SendFails, DdCommit
  <2>2. Steady
    BY <2>1 DEF Steady
  <2>3. QED
    BY <2>2, DStep
<1>3. QED
  BY <1>1, <1>2, PTL DEF DdSpec

\* ddist.h promises loss-less transmissions to all consumers: however many bakers and
\* consumers there are, and however they come and go, each registered consumer receives
\* every datum once and in order.
THEOREM DdLossless ==
  DdSpec => []Lossless
<1>1. (Steady => DInv) => Lossless
  BY DEF DInv, DData, Lossless
<1>2. QED
  BY <1>1, DSafe, PTL

\* dd_ready counts the registered consumers that sleep, for any number of tasks.
THEOREM DdReadyCounted ==
  DdSpec => []ReadyCounted
<1>1. (Steady => DInv) => ReadyCounted
  BY DEF DInv, DCounts, Ready, ReadyCounted
<1>2. QED
  BY <1>1, DSafe, PTL

\* No baker sleeps while all consumers are ready, or in a distributor that was closed.
THEOREM DdNoStuckBaker ==
  DdSpec => []NoStuckBaker
<1>1. DInv => \A t \in DdTasks : ddsig.task[t].asleep /\ ddsig.task[t].on = "post" =>
                                   dd_ready # dd_users /\ ~Closed
  BY DEF DInv, DSlots, DBakers
<1>2. (Steady => DInv) => NoStuckBaker
  BY <1>1 DEF NoStuckBaker
<1>3. QED
  BY <1>2, DSafe, PTL

\* The promises of the distributor together, for any number of bakers and consumers.
THEOREM DdIsSound == DdSpec => []DdSound
<1>1. Lossless /\ ReadyCounted /\ NoStuckBaker => DdSound
  BY DEF DdSound
<1>. QED  BY <1>1, DdLossless, DdReadyCounted, DdNoStuckBaker, PTL

----------------------------------------------------------------------------
(* Pages *)

\* Division by the size of a page.
LEMMA DivMod ==
  ASSUME NEW x \in Int
  PROVE  /\ x \div PAGESIZE \in Int /\ x % PAGESIZE \in 0 .. PAGESIZE - 1
         /\ x = (x \div PAGESIZE) * PAGESIZE + (x % PAGESIZE)
BY RamAssumption

\* Multiples of it are ordered as their factors are,
LEMMA MulMono ==
  ASSUME NEW a \in Int, NEW b \in Int
  PROVE  /\ a * PAGESIZE \in Int
         /\ a <= b => a * PAGESIZE <= b * PAGESIZE
         /\ (a + 1) * PAGESIZE = a * PAGESIZE + PAGESIZE
         /\ (a - 1) * PAGESIZE = a * PAGESIZE - PAGESIZE
BY RamAssumption

\* and two different ones are at least a page apart.
LEMMA MulStrict ==
  ASSUME NEW a \in Int, NEW b \in Int, a * PAGESIZE < b * PAGESIZE
  PROVE  a * PAGESIZE + PAGESIZE <= b * PAGESIZE
<1>1. a < b
  BY MulMono
<1>. QED  BY <1>1, MulMono

\* The sum of two multiples.
LEMMA MulAdd ==
  ASSUME NEW a \in Int, NEW b \in Int
  PROVE  (a + b) * PAGESIZE = a * PAGESIZE + b * PAGESIZE
BY RamAssumption

\* A multiple is aligned.
LEMMA MulMod ==
  ASSUME NEW a \in Int
  PROVE  (a * PAGESIZE) % PAGESIZE = 0
BY RamAssumption

\* An aligned number is a multiple.
LEMMA Multiple ==
  ASSUME NEW x \in Int, x % PAGESIZE = 0
  PROVE  \E d \in Int : x = d * PAGESIZE
<1>1. PICK d \in Int : x = d * PAGESIZE + 0
  BY DivMod
<1>2. d * PAGESIZE \in Int
  BY MulMono
<1>. QED  BY <1>1, <1>2

\* The address space is a number of whole pages.
LEMMA Space ==
  \E e \in Nat \ {0} : AddrEnd = e * PAGESIZE
<1>1. PICK e \in Int : AddrEnd = e * PAGESIZE
  <2>1. AddrEnd \in Int /\ AddrEnd % PAGESIZE = 0
    BY RamAssumption
  <2>2. PICK d \in Int : AddrEnd = d * PAGESIZE + 0
    BY <2>1, DivMod
  <2>3. AddrEnd = d * PAGESIZE
    BY <2>2, MulMono
  <2>. QED  BY <2>3
<1>2. AddrEnd > 0
  BY RamAssumption
<1>3. ~(e <= 0)
  <2>1. e <= 0 => e * PAGESIZE <= 0 * PAGESIZE
    BY MulMono
  <2>. QED  BY <1>1, <1>2, <2>1, RamAssumption
<1>. QED  BY <1>1, <1>3

\* ALIGND: the page boundary at or below x.
LEMMA AlignDown ==
  ASSUME NEW x \in Nat
  PROVE  \E q \in Nat : /\ Alignd(x) = q * PAGESIZE
                        /\ q * PAGESIZE <= x
                        /\ x < q * PAGESIZE + PAGESIZE
<1>1. x \div PAGESIZE \in Nat
  BY RamAssumption
<1>2. PICK q \in Nat : q = x \div PAGESIZE
  BY <1>1
<1>3. PICK r \in 0 .. PAGESIZE - 1 : x = q * PAGESIZE + r
  BY <1>2, DivMod
<1>4. Alignd(x) = q * PAGESIZE
  BY <1>2 DEF Alignd
<1>5. q * PAGESIZE <= x /\ x < q * PAGESIZE + PAGESIZE
  BY <1>3, MulMono, RamAssumption
<1>. QED  BY <1>4, <1>5, Zenon

\* ALIGN: the page boundary at or above x, 0 behind the last address.
LEMMA AlignUp ==
  ASSUME NEW x \in 0 .. AddrEnd - 1
  PROVE  \E q \in Nat : /\ x <= q * PAGESIZE
                        /\ q * PAGESIZE < x + PAGESIZE
                        /\ q * PAGESIZE <= AddrEnd
                        /\ Align(x) = IF q * PAGESIZE = AddrEnd THEN 0 ELSE q * PAGESIZE
<1>1. x + PAGESIZE - 1 \in Nat
  BY RamAssumption
<1>2. PICK q \in Nat : /\ Alignd(x + PAGESIZE - 1) = q * PAGESIZE
                       /\ q * PAGESIZE <= x + PAGESIZE - 1
                       /\ x + PAGESIZE - 1 < q * PAGESIZE + PAGESIZE
  BY <1>1, AlignDown
<1>3. PICK e \in Nat \ {0} : AddrEnd = e * PAGESIZE
  BY Space
<1>4. q * PAGESIZE \in Nat
  BY RamAssumption
<1>5. q * PAGESIZE <= AddrEnd
  BY <1>2, <1>3, <1>4, MulStrict, RamAssumption
<1>6. Align(x) = Wrap(q * PAGESIZE)
  BY <1>2 DEF Align
<1>7. Wrap(q * PAGESIZE) = IF q * PAGESIZE = AddrEnd THEN 0 ELSE q * PAGESIZE
  BY <1>4, <1>5, RamAssumption DEF Wrap
<1>8. x <= q * PAGESIZE /\ q * PAGESIZE < x + PAGESIZE
  BY <1>2, <1>4, RamAssumption
<1>9. Align(x) = IF q * PAGESIZE = AddrEnd THEN 0 ELSE q * PAGESIZE
  BY <1>6, <1>7, Zenon
<1>. QED  BY <1>5, <1>8, <1>9, Zenon

----------------------------------------------------------------------------
(* The part of a region that is used *)

\* What Usable computes: whole pages, with nothing left out, and the assertions of
\* kpageframe_free fail only for a part that is not aligned.
LEMMA UsableFacts ==
  ASSUME NEW a \in Nat, NEW n \in Nat \ {0}, a + n < AddrEnd
  PROVE  /\ Usable(a, n).ok => \A r \in Usable(a, n).runs :
              /\ r.start % PAGESIZE = 0 /\ r.size % PAGESIZE = 0
              /\ r.start >= PAGESIZE
              /\ r.start \in Nat /\ r.size \in Nat
              /\ a <= r.start /\ r.start + r.size <= a + n
         /\ Usable(a, n).ok => \A p \in Nat \ {0} :
              a <= p * PAGESIZE /\ p * PAGESIZE + PAGESIZE <= a + n =>
                \E r \in Usable(a, n).runs :
                  r.start <= p * PAGESIZE /\ p * PAGESIZE + PAGESIZE <= r.start + r.size
         /\ a % PAGESIZE = 0 /\ n >= PAGESIZE => Usable(a, n).ok
<1>1. PICK q \in Nat : /\ a <= q * PAGESIZE
                       /\ q * PAGESIZE < a + PAGESIZE
                       /\ q * PAGESIZE <= AddrEnd
                       /\ Align(a) = IF q * PAGESIZE = AddrEnd THEN 0 ELSE q * PAGESIZE
  <2>1. a \in 0 .. AddrEnd - 1
    BY RamAssumption
  <2>. QED  BY <2>1, AlignUp
<1>2. PICK A \in Nat : A = q * PAGESIZE
  BY RamAssumption
<1>3. PICK e \in Nat \ {0} : AddrEnd = e * PAGESIZE
  BY Space
<1>4. PAGESIZE \in Nat \ {0} /\ AddrEnd \in Nat
  BY RamAssumption
<1>5. CASE A = AddrEnd
  <2>1. a % PAGESIZE # 0
    <3>1. SUFFICES ASSUME a % PAGESIZE = 0 PROVE FALSE
      OBVIOUS
    <3>2. PICK d \in Int : a = d * PAGESIZE
      <4>1. PICK d \in Int : a = d * PAGESIZE + 0
        BY <3>1, DivMod
      <4>2. a = d * PAGESIZE
        BY <4>1, MulMono
      <4>. QED  BY <4>2
    <3>3. a + PAGESIZE <= AddrEnd
      BY <1>2, <1>3, <1>4, <1>5, <3>2, MulStrict
    <3>. QED  BY <1>1, <1>2, <1>4, <1>5, <3>3
  <2>2. Align(a) = 0 /\ Wrap(n - (0 - a)) = a + n
    BY <1>1, <1>2, <1>4, <1>5 DEF Wrap
  <2>3. PICK w \in Nat : /\ Alignd(a + n) = w * PAGESIZE
                         /\ w * PAGESIZE <= a + n
                         /\ a + n < w * PAGESIZE + PAGESIZE
    BY AlignDown
  <2>4. PICK R \in Nat : R = w * PAGESIZE
    BY <1>4
  <2>5. R = AddrEnd - PAGESIZE
    <3>1. R + PAGESIZE <= AddrEnd
      BY <1>3, <1>4, <2>3, <2>4, MulStrict
    <3>2. (e - 1) * PAGESIZE < (w + 1) * PAGESIZE
      BY <1>1, <1>2, <1>3, <1>4, <1>5, <2>3, <2>4, MulMono
    <3>3. AddrEnd <= R + PAGESIZE
      BY <1>3, <1>4, <2>4, <3>2, MulMono, MulStrict
    <3>. QED  BY <1>4, <3>1, <3>3
  <2>6. CASE R <= PAGESIZE
    <3>1. Usable(a, n) = Nothing
      BY <2>2, <2>3, <2>4, <2>6 DEF Usable
    <3>2. ASSUME NEW p \in Nat \ {0}, a <= p * PAGESIZE, p * PAGESIZE + PAGESIZE <= a + n
          PROVE  FALSE
      BY <1>1, <1>2, <1>4, <1>5, <3>2, MulMono
    <3>. QED  BY <2>1, <3>1, <3>2 DEF Nothing
  <2>7. CASE ~(R <= PAGESIZE)
    <3>1. Usable(a, n).ok = (PAGESIZE >= a /\ R - PAGESIZE <= n /\ R - PAGESIZE # 0)
      BY <2>2, <2>3, <2>4, <2>7 DEF Usable
    <3>2. ~(PAGESIZE >= a)
      BY <1>1, <1>2, <1>4, <1>5, <2>5, <2>7
    <3>. QED  BY <2>1, <3>1, <3>2, Zenon
  <2>. QED  BY <2>6, <2>7
<1>6. CASE A # AddrEnd /\ A = 0
  <2>1. a = 0 /\ Align(a) = 0 /\ Wrap(n - (0 - a)) = n
    BY <1>1, <1>2, <1>4, <1>6 DEF Wrap
  <2>2. PICK w \in Nat : /\ Alignd(n) = w * PAGESIZE
                         /\ w * PAGESIZE <= n
                         /\ n < w * PAGESIZE + PAGESIZE
    BY AlignDown
  <2>3. PICK R \in Nat : R = w * PAGESIZE
    BY <1>4
  <2>4. CASE R <= PAGESIZE
    <3>1. Usable(a, n) = Nothing
      BY <2>1, <2>2, <2>3, <2>4 DEF Usable
    <3>2. ASSUME NEW p \in Nat \ {0}, p * PAGESIZE + PAGESIZE <= a + n
          PROVE  FALSE
      <4>1. 1 * PAGESIZE <= p * PAGESIZE
        BY MulMono
      <4>. QED  BY <1>4, <2>1, <2>2, <2>3, <2>4, <3>2, <4>1, MulMono
    <3>. QED  BY <3>1, <3>2 DEF Nothing
  <2>5. CASE ~(R <= PAGESIZE)
    <3>1. /\ Usable(a, n).ok
          /\ Usable(a, n).runs = {[start |-> PAGESIZE, size |-> R - PAGESIZE]}
      <4>1. PICK b \in BOOLEAN : b = (PAGESIZE >= a /\ R - PAGESIZE <= n /\ R - PAGESIZE # 0)
        BY Zenon
      <4>2. PICK rs : rs = {[start |-> PAGESIZE, size |-> R - PAGESIZE]}
        BY Zenon
      <4>3. Usable(a, n) = [ok |-> b, runs |-> rs]
        BY <2>1, <2>2, <2>3, <2>5, <4>1, <4>2 DEF Usable
      <4>4. PAGESIZE >= a /\ R - PAGESIZE <= n /\ R - PAGESIZE # 0
        BY <1>4, <2>1, <2>2, <2>3, <2>5
      <4>5. b = TRUE
        BY <4>1, <4>4, Zenon
      <4>6. Usable(a, n) = [ok |-> TRUE, runs |-> rs]
        BY <4>3, <4>5, Zenon
      <4>. QED  BY <4>2, <4>6
    <3>2. PAGESIZE % PAGESIZE = 0 /\ (R - PAGESIZE) % PAGESIZE = 0
      <4>1. R - PAGESIZE = (w - 1) * PAGESIZE /\ PAGESIZE = 1 * PAGESIZE
        BY <1>4, <2>3, MulMono
      <4>2. ((w - 1) * PAGESIZE) % PAGESIZE = 0 /\ (1 * PAGESIZE) % PAGESIZE = 0
        BY MulMod
      <4>. QED  BY <4>1, <4>2
    <3>3. ASSUME NEW p \in Nat \ {0}, p * PAGESIZE + PAGESIZE <= a + n
          PROVE  PAGESIZE <= p * PAGESIZE /\ p * PAGESIZE + PAGESIZE <= R
      <4>1. 1 * PAGESIZE <= p * PAGESIZE
        BY MulMono
      <4>2. (p + 1) * PAGESIZE < (w + 1) * PAGESIZE
        BY <1>4, <2>1, <2>2, <2>3, <3>3, MulMono
      <4>3. (p + 1) * PAGESIZE + PAGESIZE <= (w + 1) * PAGESIZE
        BY <4>2, MulStrict
      <4>. QED  BY <1>4, <2>3, <4>1, <4>3, MulMono
    <3>4. /\ PAGESIZE + (R - PAGESIZE) = R /\ R - PAGESIZE \in Nat
          /\ a <= PAGESIZE /\ R <= a + n
      BY <1>4, <2>1, <2>2, <2>3, <2>5
    <3>5. PICK r : /\ r = [start |-> PAGESIZE, size |-> R - PAGESIZE]
                   /\ r.start = PAGESIZE /\ r.size = R - PAGESIZE
      <4>1. PICK r : r = [start |-> PAGESIZE, size |-> R - PAGESIZE]
        BY Zenon
      <4>2. r.start = PAGESIZE /\ r.size = R - PAGESIZE
        BY <4>1
      <4>. QED  BY <4>1, <4>2, Zenon
    <3>6. Usable(a, n).runs = {r} /\ Usable(a, n).ok
      BY <3>1, <3>5, Zenon
    <3>7. /\ r.start % PAGESIZE = 0 /\ r.size % PAGESIZE = 0
          /\ r.start >= PAGESIZE
          /\ r.start \in Nat /\ r.size \in Nat
          /\ a <= r.start /\ r.start + r.size <= a + n
      BY <1>4, <3>2, <3>4, <3>5
    <3>8. \A p \in Nat \ {0} :
            p * PAGESIZE + PAGESIZE <= a + n =>
              r.start <= p * PAGESIZE /\ p * PAGESIZE + PAGESIZE <= r.start + r.size
      BY <3>3, <3>4, <3>5
    <3>. QED  BY <3>6, <3>7, <3>8, Zenon
  <2>. QED  BY <2>4, <2>5
<1>7. CASE A # AddrEnd /\ A # 0
  <2>1. Align(a) = A
    BY <1>1, <1>2, <1>7
  <2>2. PAGESIZE <= A /\ A % PAGESIZE = 0
    <3>1. 0 * PAGESIZE < q * PAGESIZE
      BY <1>2, <1>4, <1>7
    <3>2. 0 * PAGESIZE + PAGESIZE <= q * PAGESIZE
      BY <3>1, MulStrict
    <3>. QED  BY <1>2, <1>4, <3>2, MulMod
  <2>3. a % PAGESIZE = 0 => A = a
    <3>1. SUFFICES ASSUME a % PAGESIZE = 0, a < A PROVE FALSE
      BY <1>1, <1>2
    <3>2. PICK d \in Int : a = d * PAGESIZE + 0
      BY <3>1, DivMod
    <3>3. a = d * PAGESIZE
      BY <3>2, MulMono
    <3>4. a + PAGESIZE <= A
      BY <1>2, <3>1, <3>3, MulStrict
    <3>. QED  BY <1>1, <1>2, <1>4, <3>4
  <2>4. CASE A <= a + n
    <3>1. Wrap(n - (A - a)) = a + n - A /\ a + n - A \in Nat
      BY <1>4, <2>4 DEF Wrap
    <3>2. PICK w \in Nat : /\ Alignd(a + n - A) = w * PAGESIZE
                           /\ w * PAGESIZE <= a + n - A
                           /\ a + n - A < w * PAGESIZE + PAGESIZE
      BY <3>1, AlignDown
    <3>3. PICK R \in Nat : R = w * PAGESIZE
      BY <1>4
    <3>4. /\ Usable(a, n).ok = (A >= a /\ R <= n /\ R # 0)
          /\ Usable(a, n).runs = {[start |-> A, size |-> R]}
      <4>1. PICK b \in BOOLEAN : b = (A >= a /\ R <= n /\ R # 0)
        BY Zenon
      <4>2. PICK rs : rs = {[start |-> A, size |-> R]}
        BY Zenon
      <4>3. Usable(a, n) = [ok |-> b, runs |-> rs]
        BY <1>7, <2>1, <3>1, <3>2, <3>3, <4>1, <4>2, Zenon DEF Usable
      <4>. QED  BY <4>1, <4>2, <4>3
    <3>5. R % PAGESIZE = 0 /\ a <= A /\ A + R <= a + n
      BY <1>1, <1>2, <1>4, <3>2, <3>3, MulMod
    <3>6. ASSUME NEW p \in Nat \ {0}, a <= p * PAGESIZE, p * PAGESIZE + PAGESIZE <= a + n
          PROVE  A <= p * PAGESIZE /\ p * PAGESIZE + PAGESIZE <= A + R
      <4>1. (q - 1) * PAGESIZE < p * PAGESIZE
        BY <1>1, <1>2, <1>4, <3>6, MulMono
      <4>2. A <= p * PAGESIZE
        <5>1. (q - 1) * PAGESIZE + PAGESIZE <= p * PAGESIZE
          BY <4>1, MulStrict
        <5>. QED  BY <1>2, <1>4, <5>1, MulMono
      <4>3. (q + w + 1) * PAGESIZE = A + R + PAGESIZE
        <5>1. (q + w) * PAGESIZE = A + R
          BY <1>2, <3>3, MulAdd
        <5>. QED  BY <5>1, MulMono
      <4>4. (p + 1) * PAGESIZE < (q + w + 1) * PAGESIZE
        BY <1>4, <3>2, <3>3, <3>6, <4>3, MulMono
      <4>5. (p + 1) * PAGESIZE + PAGESIZE <= (q + w + 1) * PAGESIZE
        BY <4>4, MulStrict
      <4>. QED  BY <1>4, <4>2, <4>3, <4>5, MulMono
    <3>7. a % PAGESIZE = 0 /\ n >= PAGESIZE => A >= a /\ R <= n /\ R # 0
      BY <1>4, <2>3, <3>2, <3>3
    <3>8. \A r \in Usable(a, n).runs :
            /\ r.start % PAGESIZE = 0 /\ r.size % PAGESIZE = 0
            /\ r.start >= PAGESIZE
            /\ r.start \in Nat /\ r.size \in Nat
            /\ a <= r.start /\ r.start + r.size <= a + n
      BY <2>2, <3>4, <3>5
    <3>9. \A p \in Nat \ {0} :
            a <= p * PAGESIZE /\ p * PAGESIZE + PAGESIZE <= a + n =>
              \E r \in Usable(a, n).runs :
                r.start <= p * PAGESIZE /\ p * PAGESIZE + PAGESIZE <= r.start + r.size
      BY <3>4, <3>6
    <3>. QED  BY <3>4, <3>7, <3>8, <3>9, Zenon
  <2>5. CASE ~(A <= a + n)
    <3>1. Wrap(n - (A - a)) = AddrEnd - (A - a - n) /\ AddrEnd - (A - a - n) \in Nat
      BY <1>1, <1>2, <1>4, <2>5 DEF Wrap
    <3>2. PICK w \in Nat : /\ Alignd(AddrEnd - (A - a - n)) = w * PAGESIZE
                           /\ w * PAGESIZE <= AddrEnd - (A - a - n)
                           /\ AddrEnd - (A - a - n) < w * PAGESIZE + PAGESIZE
      BY <3>1, AlignDown
    <3>3. PICK R \in Nat : R = w * PAGESIZE
      BY <1>4
    <3>4. Usable(a, n).ok = (A >= a /\ R <= n /\ R # 0)
      BY <1>7, <2>1, <3>1, <3>2, <3>3 DEF Usable
    <3>5. AddrEnd - PAGESIZE <= R
      <4>1. (e - 1) * PAGESIZE < (w + 1) * PAGESIZE
        BY <1>1, <1>2, <1>3, <1>4, <2>5, <3>2, <3>3, MulMono
      <4>2. (e - 1) * PAGESIZE + PAGESIZE <= (w + 1) * PAGESIZE
        BY <4>1, MulStrict
      <4>. QED  BY <1>3, <1>4, <3>3, <4>2, MulMono
    <3>6. A + PAGESIZE <= AddrEnd
      BY <1>1, <1>2, <1>3, <1>7, MulStrict
    <3>7. ~(R <= n)
      BY <1>1, <1>2, <1>4, <2>2, <2>5, <3>5, <3>6
    <3>8. ~(a % PAGESIZE = 0)
      BY <1>4, <2>3, <2>5, SMTT(20)
    <3>. QED  BY <3>4, <3>7, <3>8, Zenon
  <2>. QED  BY <2>4, <2>5
<1>. QED  BY <1>5, <1>6, <1>7

----------------------------------------------------------------------------
(* raminfo_addregion *)

\* What the parts passed to kpageframe_free for one region are.
LEMMA RegionsFacts ==
  ASSUME NEW a \in 0 .. AddrEnd - 1, NEW n \in 1 .. AddrEnd, a + n < AddrEnd,
         kernel_end \in kernel_begin + 1 .. AddrEnd - 1
  PROVE  /\ Regions(a, n).ok => \A r \in Regions(a, n).runs :
              /\ r.start % PAGESIZE = 0 /\ r.size % PAGESIZE = 0
              /\ r.start >= PAGESIZE
              /\ r.start \in Nat /\ r.size \in Nat
              /\ a <= r.start /\ r.start + r.size <= a + n
              /\ r.start + r.size <= kernel_begin \/ r.start >= kernel_end
         /\ Regions(a, n).ok => \A p \in Nat \ {0} :
              /\ a <= p * PAGESIZE /\ p * PAGESIZE + PAGESIZE <= a + n
              /\ p * PAGESIZE + PAGESIZE <= kernel_begin \/ p * PAGESIZE >= kernel_end
              => \E r \in Regions(a, n).runs :
                   r.start <= p * PAGESIZE /\ p * PAGESIZE + PAGESIZE <= r.start + r.size
         /\ a % PAGESIZE = 0 /\ n % PAGESIZE = 0 /\ kernel_end % PAGESIZE = 0
              => Regions(a, n).ok
<1>. DEFINE over == a < kernel_end /\ a + n > kernel_begin
            below == IF over /\ kernel_begin - a >= PAGESIZE
                     THEN Usable(a, kernel_begin - a) ELSE Nothing
<1>1. /\ PAGESIZE \in Nat \ {0} /\ AddrEnd \in Nat /\ kernel_begin \in Nat
      /\ kernel_end \in Nat /\ kernel_begin <= kernel_end /\ kernel_end < AddrEnd
      /\ a \in Nat /\ n \in Nat \ {0}
  BY RamAssumption
<1>2. Regions(a, n) = IF n < PAGESIZE THEN Nothing
                      ELSE IF ~over THEN Usable(a, n)
                      ELSE IF kernel_end - a >= n THEN below
                      ELSE Both(below, Usable(kernel_end, n - (kernel_end - a)))
  <2>1. Wrap(a + n) = a + n /\ ~(a + (n - 1) >= AddrEnd)
    BY <1>1 DEF Wrap
  <2>. QED  BY <2>1, Zenon DEF Regions
<1>3. ASSUME NEW p \in Nat \ {0} PROVE p * PAGESIZE \in Nat
  BY <1>1
<1>. HIDE DEF over, below
<1>4. CASE n < PAGESIZE
  <2>1. Regions(a, n) = Nothing
    BY <1>2, <1>4, Zenon
  <2>2. ASSUME NEW p \in Nat \ {0}, a <= p * PAGESIZE, p * PAGESIZE + PAGESIZE <= a + n
        PROVE  FALSE
    BY <1>1, <1>3, <1>4, <2>2
  <2>. QED  BY <2>1, <2>2 DEF Nothing
<1>5. CASE n >= PAGESIZE /\ ~over
  <2>1. Regions(a, n) = Usable(a, n)
    BY <1>1, <1>2, <1>5
  <2>2. a >= kernel_end \/ a + n <= kernel_begin
    BY <1>1, <1>5 DEF over
  <2>3. ASSUME NEW r, r.start \in Nat, r.size \in Nat, a <= r.start, r.start + r.size <= a + n
        PROVE  r.start + r.size <= kernel_begin \/ r.start >= kernel_end
    BY <1>1, <2>2, <2>3
  <2>4. Usable(a, n).ok => \A r \in Usable(a, n).runs :
              /\ r.start % PAGESIZE = 0 /\ r.size % PAGESIZE = 0
              /\ r.start >= PAGESIZE
              /\ r.start \in Nat /\ r.size \in Nat
              /\ a <= r.start /\ r.start + r.size <= a + n
    BY <1>1, UsableFacts
  <2>5. Usable(a, n).ok => \A p \in Nat \ {0} :
              a <= p * PAGESIZE /\ p * PAGESIZE + PAGESIZE <= a + n =>
                \E r \in Usable(a, n).runs :
                  r.start <= p * PAGESIZE /\ p * PAGESIZE + PAGESIZE <= r.start + r.size
    BY <1>1, UsableFacts
  <2>6. a % PAGESIZE = 0 => Usable(a, n).ok
    BY <1>1, <1>5, UsableFacts, SMTT(20)
  <2>. QED  BY <2>1, <2>3, <2>4, <2>5, <2>6, Zenon
<1>6. CASE n >= PAGESIZE /\ over
  <2>1. a < kernel_end /\ a + n > kernel_begin
    BY <1>6 DEF over
  <2>2. below = IF kernel_begin - a >= PAGESIZE THEN Usable(a, kernel_begin - a) ELSE Nothing
    BY <1>6 DEF below
  <2>3. /\ below.ok => \A r \in below.runs :
              /\ r.start % PAGESIZE = 0 /\ r.size % PAGESIZE = 0
              /\ r.start >= PAGESIZE
              /\ r.start \in Nat /\ r.size \in Nat
              /\ a <= r.start /\ r.start + r.size <= kernel_begin
        /\ below.ok => \A p \in Nat \ {0} :
              a <= p * PAGESIZE /\ p * PAGESIZE + PAGESIZE <= kernel_begin =>
                \E r \in below.runs :
                  r.start <= p * PAGESIZE /\ p * PAGESIZE + PAGESIZE <= r.start + r.size
        /\ a % PAGESIZE = 0 => below.ok
    <3>1. CASE kernel_begin - a >= PAGESIZE
      <4>1. PICK m \in Nat \ {0} : m = kernel_begin - a
        BY <1>1, <3>1
      <4>2. a + m < AddrEnd /\ a + m = kernel_begin /\ m >= PAGESIZE
        BY <1>1, <3>1, <4>1
      <4>3. below = Usable(a, m)
        BY <2>2, <3>1, <4>1
      <4>. QED  BY <1>1, <4>2, <4>3, UsableFacts, SMTT(20)
    <3>2. CASE ~(kernel_begin - a >= PAGESIZE)
      <4>1. below = Nothing
        BY <2>2, <3>2, Zenon
      <4>2. ASSUME NEW p \in Nat \ {0}, a <= p * PAGESIZE, p * PAGESIZE + PAGESIZE <= kernel_begin
            PROVE  FALSE
        BY <1>1, <1>3, <3>2, <4>2
      <4>. QED  BY <4>1, <4>2 DEF Nothing
    <3>. QED  BY <3>1, <3>2, Zenon
  <2>4. CASE kernel_end - a >= n
    <3>1. Regions(a, n) = below
      BY <1>1, <1>2, <1>6, <2>4
    <3>2. a + n <= kernel_end
      BY <1>1, <2>4
    <3>3. ASSUME NEW r, r.start \in Nat, r.size \in Nat, r.start + r.size <= kernel_begin
          PROVE  r.start + r.size <= a + n
      BY <1>1, <2>1, <3>3
    <3>4. ASSUME NEW p \in Nat \ {0}, p * PAGESIZE + PAGESIZE <= a + n, p * PAGESIZE >= kernel_end
          PROVE  FALSE
      BY <1>1, <1>3, <3>2, <3>4
    <3>. QED  BY <2>3, <3>1, <3>3, <3>4, Zenon
  <2>5. CASE ~(kernel_end - a >= n)
    <3>1. PICK m \in Nat \ {0} : m = n - (kernel_end - a)
      BY <1>1, <2>5
    <3>2. kernel_end + m = a + n
      BY <1>1, <3>1
    <3>3. PICK U : U = Usable(kernel_end, m)
      OBVIOUS
    <3>4. Regions(a, n) = Both(below, U)
      BY <1>1, <1>2, <1>6, <2>5, <3>1, <3>3
    <3>5. Regions(a, n).ok = (below.ok /\ U.ok) /\ Regions(a, n).runs = below.runs \cup U.runs
      BY <3>4 DEF Both
    <3>6. /\ U.ok => \A r \in U.runs :
              /\ r.start % PAGESIZE = 0 /\ r.size % PAGESIZE = 0
              /\ r.start >= PAGESIZE
              /\ r.start \in Nat /\ r.size \in Nat
              /\ kernel_end <= r.start /\ r.start + r.size <= a + n
          /\ U.ok => \A p \in Nat \ {0} :
              kernel_end <= p * PAGESIZE /\ p * PAGESIZE + PAGESIZE <= a + n =>
                \E r \in U.runs :
                  r.start <= p * PAGESIZE /\ p * PAGESIZE + PAGESIZE <= r.start + r.size
          /\ kernel_end % PAGESIZE = 0 /\ m >= PAGESIZE => U.ok
      BY <1>1, <3>2, <3>3, UsableFacts, Zenon
    <3>7. ASSUME a % PAGESIZE = 0, n % PAGESIZE = 0, kernel_end % PAGESIZE = 0
          PROVE  m >= PAGESIZE
      <4>1. PICK d1 \in Int : a = d1 * PAGESIZE
        BY <1>1, <3>7, Multiple
      <4>2. PICK d2 \in Int : n = d2 * PAGESIZE
        BY <1>1, <3>7, Multiple, SMTT(20)
      <4>3. PICK d3 \in Int : kernel_end = d3 * PAGESIZE
        BY <1>1, <3>7, Multiple
      <4>4. a + n = (d1 + d2) * PAGESIZE
        BY <1>1, <4>1, <4>2, MulAdd
      <4>5. d3 * PAGESIZE < (d1 + d2) * PAGESIZE
        BY <1>1, <3>2, <4>3, <4>4
      <4>6. d3 * PAGESIZE + PAGESIZE <= (d1 + d2) * PAGESIZE
        BY <4>5, MulStrict
      <4>. QED  BY <1>1, <3>2, <4>3, <4>4, <4>6
    <3>8. ASSUME NEW r, r.start \in Nat, r.size \in Nat
          PROVE  /\ r.start + r.size <= kernel_begin => r.start + r.size <= a + n
                 /\ kernel_end <= r.start => a <= r.start /\ r.start >= kernel_end
      BY <1>1, <2>1, <3>8
    <3>9. ASSUME NEW p \in Nat \ {0}, p * PAGESIZE >= kernel_end
          PROVE  kernel_end <= p * PAGESIZE
      BY <1>1, <1>3, <3>9
    <3>. QED
      <4>1. ASSUME below.ok, U.ok, NEW r \in below.runs \cup U.runs
            PROVE  /\ r.start % PAGESIZE = 0 /\ r.size % PAGESIZE = 0
                   /\ r.start >= PAGESIZE
                   /\ r.start \in Nat /\ r.size \in Nat
                   /\ a <= r.start /\ r.start + r.size <= a + n
                   /\ r.start + r.size <= kernel_begin \/ r.start >= kernel_end
        BY <2>3, <3>6, <3>8, <4>1, Zenon
      <4>2. ASSUME below.ok, U.ok, NEW p \in Nat \ {0},
                   a <= p * PAGESIZE, p * PAGESIZE + PAGESIZE <= a + n,
                   p * PAGESIZE + PAGESIZE <= kernel_begin \/ p * PAGESIZE >= kernel_end
            PROVE  \E r \in below.runs \cup U.runs :
                     r.start <= p * PAGESIZE /\ p * PAGESIZE + PAGESIZE <= r.start + r.size
        BY <2>3, <3>6, <3>9, <4>2, Zenon
      <4>3. a % PAGESIZE = 0 /\ n % PAGESIZE = 0 /\ kernel_end % PAGESIZE = 0
              => below.ok /\ U.ok
        BY <2>3, <3>6, <3>7, Zenon
      <4>. QED  BY <3>5, <4>1, <4>2, <4>3, Zenon
  <2>. QED  BY <2>4, <2>5
<1>. QED  BY <1>1, <1>4, <1>5, <1>6

----------------------------------------------------------------------------
(* RamSound *)

\* What has been handed over is what the region and the kernel determine.
RamInv ==
  /\ kernel_end \in KernelEnds
  /\ \/ region = [start |-> 0, size |-> 0] /\ ram = {} /\ rmfault = FALSE
     \/ \E a \in 0 .. AddrEnd - 1, n \in 1 .. AddrEnd :
          /\ region = [start |-> a, size |-> n]
          /\ ram = Regions(a, n).runs
          /\ rmfault = ~Regions(a, n).ok

\* A call of raminfo_addregion keeps RamInv.
LEMMA RamStep == RamInv /\ [RmNext]_rmvars => RamInv'
<1>. SUFFICES ASSUME RamInv, [RmNext]_rmvars PROVE RamInv'
  OBVIOUS
<1>1. CASE RmNext
  <2>1. PICK a \in 0 .. AddrEnd - 1, n \in 1 .. AddrEnd : raminfo_addregion(a, n)
    BY <1>1 DEF RmNext
  <2>2. Regions(a, n) = Regions(a, n)'
    BY <2>1, SMTT(20) DEF raminfo_addregion, Regions
  <2>. QED  BY <2>1, <2>2, Zenon DEF RamInv, raminfo_addregion
<1>2. CASE UNCHANGED rmvars
  BY <1>2 DEF RamInv, rmvars, Regions
<1>. QED  BY <1>1, <1>2

\* RamInv gives RamSound.
LEMMA RamInvSound == RamInv => RamSound
<1>. SUFFICES ASSUME RamInv PROVE RamSound
  OBVIOUS
<1>1. /\ PAGESIZE \in Nat \ {0} /\ AddrEnd \in Nat /\ kernel_begin \in Nat
      /\ kernel_end \in kernel_begin + 1 .. AddrEnd - 1
  BY RamAssumption DEF RamInv
<1>2. CASE region = [start |-> 0, size |-> 0] /\ ram = {} /\ rmfault = FALSE
  <2>1. ASSUME NEW p \in 1 .. (AddrEnd \div PAGESIZE) - 1
        PROVE  ~(p * PAGESIZE .. p * PAGESIZE + PAGESIZE - 1 \subseteq 0 .. 0 + 0 - 1)
    <3>1. PICK x \in Int : x = p * PAGESIZE
      BY <1>1, MulMono
    <3>. QED  BY <1>1, <3>1
  <2>2. RamComplete
    BY <1>2, <2>1 DEF RamComplete, Bytes
  <2>. QED  BY <1>2, <2>2 DEF RamSound, KernelNotFree, RamNoAssert
<1>3. ASSUME NEW a \in 0 .. AddrEnd - 1, NEW n \in 1 .. AddrEnd,
             region = [start |-> a, size |-> n],
             ram = Regions(a, n).runs, rmfault = ~Regions(a, n).ok
      PROVE  RamSound
  <2>1. region.start = a /\ region.size = n
    BY <1>3
  <2>2. PICK ok \in BOOLEAN : ok = ~rmfault
    BY Zenon
  <2>3. KernelNotFree
    <3>1. SUFFICES ASSUME ~rmfault, a + n < AddrEnd, NEW r \in ram
                   PROVE  /\ r.start % PAGESIZE = 0 /\ r.size % PAGESIZE = 0
                          /\ r.start >= PAGESIZE
                          /\ Bytes(r) \subseteq Bytes(region) \ (kernel_begin .. kernel_end - 1)
      BY <2>1 DEF KernelNotFree
    <3>2. Regions(a, n).ok
      BY <1>3, <3>1, Zenon
    <3>3. /\ r.start % PAGESIZE = 0 /\ r.size % PAGESIZE = 0
          /\ r.start >= PAGESIZE
          /\ r.start \in Nat /\ r.size \in Nat
          /\ a <= r.start /\ r.start + r.size <= a + n
          /\ r.start + r.size <= kernel_begin \/ r.start >= kernel_end
      BY <1>1, <1>3, <3>1, <3>2, RegionsFacts
    <3>4. Bytes(r) \subseteq Bytes(region) \ (kernel_begin .. kernel_end - 1)
      BY <1>1, <2>1, <3>3 DEF Bytes
    <3>. QED  BY <3>3, <3>4
  <2>4. RamComplete
    <3>1. SUFFICES ASSUME ~rmfault, a + n < AddrEnd, NEW p \in 1 .. (AddrEnd \div PAGESIZE) - 1,
                          Bytes([start |-> p * PAGESIZE, size |-> PAGESIZE])
                            \subseteq Bytes(region) \ (kernel_begin .. kernel_end - 1)
                   PROVE  \E r \in ram : Bytes([start |-> p * PAGESIZE, size |-> PAGESIZE])
                                           \subseteq Bytes(r)
      BY <2>1 DEF RamComplete
    <3>2. Regions(a, n).ok
      BY <1>3, <3>1, Zenon
    <3>3. p \in Nat \ {0}
      <4>1. AddrEnd \div PAGESIZE \in Int
        BY <1>1, DivMod
      <4>. QED  BY <4>1
    <3>4. PICK x \in Nat : x = p * PAGESIZE
      BY <1>1, <3>3
    <3>5. x .. x + PAGESIZE - 1 \subseteq (a .. a + n - 1) \ (kernel_begin .. kernel_end - 1)
      BY <2>1, <3>1, <3>4 DEF Bytes
    <3>6. x \in x .. x + PAGESIZE - 1 /\ x + PAGESIZE - 1 \in x .. x + PAGESIZE - 1
      BY <1>1
    <3>7. a <= x /\ x + PAGESIZE - 1 <= a + n - 1
      BY <3>5, <3>6
    <3>8. x + PAGESIZE <= kernel_begin \/ x >= kernel_end
      <4>1. SUFFICES ASSUME x + PAGESIZE > kernel_begin, x < kernel_end PROVE FALSE
        BY <1>1
      <4>2. CASE x >= kernel_begin
        BY <1>1, <3>5, <3>6, <4>1, <4>2
      <4>3. CASE x < kernel_begin
        <5>1. kernel_begin \in x .. x + PAGESIZE - 1
          BY <1>1, <4>1, <4>3
        <5>. QED  BY <1>1, <3>5, <5>1
      <4>. QED  BY <1>1, <4>2, <4>3
    <3>9. a <= p * PAGESIZE /\ p * PAGESIZE + PAGESIZE <= a + n
      BY <1>1, <3>4, <3>7
    <3>10. PICK r \in Regions(a, n).runs :
             r.start <= p * PAGESIZE /\ p * PAGESIZE + PAGESIZE <= r.start + r.size
      BY <1>1, <3>1, <3>2, <3>3, <3>4, <3>8, <3>9, RegionsFacts, Zenon
    <3>11. r.start \in Nat /\ r.size \in Nat
      BY <1>1, <3>1, <3>2, RegionsFacts
    <3>12. x .. x + PAGESIZE - 1 \subseteq r.start .. (r.start + r.size - 1)
      BY <1>1, <3>4, <3>10, <3>11
    <3>13. Bytes([start |-> p * PAGESIZE, size |-> PAGESIZE]) \subseteq Bytes(r)
      BY <3>4, <3>12 DEF Bytes
    <3>. QED  BY <1>3, <3>13
  <2>5. RamNoAssert
    <3>1. SUFFICES ASSUME rmfault, a % PAGESIZE = 0, n % PAGESIZE = 0, kernel_end % PAGESIZE = 0,
                          ~(a + n > AddrEnd - PAGESIZE)
                   PROVE  FALSE
      BY <2>1 DEF RamNoAssert
    <3>2. a + n < AddrEnd
      BY <1>1, <3>1
    <3>3. Regions(a, n).ok
      BY <1>1, <3>1, <3>2, RegionsFacts
    <3>. QED  BY <1>3, <3>1, <3>3, Zenon
  <2>. QED  BY <2>3, <2>4, <2>5 DEF RamSound
<1>. QED  BY <1>2, <1>3, Zenon DEF RamInv

\* raminfo_addregion hands over exactly the whole pages of a region outside of the
\* kernel image, for every page size, address space, kernel image and region.
THEOREM RamCorrect == RmSpec => []RamSound
<1>1. RmInit => RamInv
  BY DEF RmInit, RamInv
<1>. QED  BY <1>1, RamStep, RamInvSound, PTL DEF RmSpec
=============================================================================
