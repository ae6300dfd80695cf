--------------------------- MODULE KSignalProofs ---------------------------
(***************************************************************************)
(* What the operations of KSignal do: the facts that the proofs about the  *)
(* primitives built on a signal need.                                      *)
(*                                                                         *)
(* The first part is about queues of tasks.  The provers cannot use an     *)
(* induction theorem, whose parameter is an operator, so the induction of  *)
(* this part looks at the least counterexample, a set, instead.            *)
(***************************************************************************)
EXTENDS KSignal, TLAPS, FiniteSetTheorems

----------------------------------------------------------------------------
(* Queues *)

\* A set of numbers that is not empty has a least element.
LEMMA LeastNat ==
  ASSUME NEW T, T \subseteq Nat, T # {}
  PROVE  \E x \in T : \A y \in T : x <= y
<1>1. \A x, y \in Nat : <<y, x>> \in OpToRel(<, Nat) <=> y < x
  BY Zenon DEF OpToRel
<1>2. PICK x \in T : \A y \in T : ~(<<y, x>> \in OpToRel(<, Nat))
  BY NatLessThanWellFounded, WFMin, Zenon
<1>3. \A y \in T : ~(y < x)
  BY <1>1, <1>2, Zenon
<1>. QED  BY <1>3

\* The elements of a queue after one was appended,
LEMMA AppendRange ==
  ASSUME NEW S, NEW p \in Seq(S), NEW e \in S
  PROVE  \A x : x \in Range(Append(p, e)) <=> x = e \/ x \in Range(p)
<1>1. /\ DOMAIN p = 1 .. Len(p)
      /\ DOMAIN Append(p, e) = 1 .. Len(p) + 1
      /\ Len(p) \in Nat
      /\ Append(p, e)[Len(p) + 1] = e
      /\ \A j \in 1 .. Len(p) : Append(p, e)[j] = p[j]
  OBVIOUS
<1>. TAKE x
<1>2. ASSUME NEW j \in DOMAIN Append(p, e), Append(p, e)[j] = x
      PROVE  x = e \/ \E i \in DOMAIN p : p[i] = x
  <2>1. CASE j = Len(p) + 1
    BY <1>1, <1>2, <2>1
  <2>2. CASE j # Len(p) + 1
    <3>1. j \in 1 .. Len(p)
      BY <1>1, <2>2
    <3>. QED  BY <1>1, <1>2, <3>1
  <2>. QED  BY <2>1, <2>2
<1>3. ASSUME NEW j \in DOMAIN p, p[j] = x
      PROVE  \E i \in DOMAIN Append(p, e) : Append(p, e)[i] = x
  <2>1. j \in 1 .. Len(p) + 1 /\ Append(p, e)[j] = x
    BY <1>1, <1>3
  <2>. QED  BY <1>1, <2>1
<1>4. Len(p) + 1 \in DOMAIN Append(p, e)
  BY <1>1
<1>. QED  BY <1>1, <1>2, <1>3, <1>4 DEF Range

\* and of one whose head is taken away.
LEMMA TailRange ==
  ASSUME NEW S, NEW p \in Seq(S), p # <<>>
  PROVE  /\ Head(p) \in S
         /\ Tail(p) \in Seq(S)
         /\ \A x : x \in Range(p) <=> x = Head(p) \/ x \in Range(Tail(p))
<1>1. /\ Head(p) \in S /\ Head(p) = p[1]
      /\ Tail(p) \in Seq(S)
      /\ Len(p) \in Nat \ {0}
      /\ DOMAIN p = 1 .. Len(p)
      /\ DOMAIN Tail(p) = 1 .. Len(p) - 1
      /\ \A i \in 1 .. Len(p) - 1 : Tail(p)[i] = p[i + 1]
  OBVIOUS
<1>2. ASSUME NEW x, NEW j \in DOMAIN p, p[j] = x
      PROVE  x = Head(p) \/ \E i \in DOMAIN Tail(p) : Tail(p)[i] = x
  <2>1. CASE j = 1
    BY <1>1, <1>2, <2>1
  <2>2. CASE j # 1
    <3>1. j - 1 \in 1 .. Len(p) - 1 /\ (j - 1) + 1 = j
      BY <1>1, <2>2
    <3>2. Tail(p)[j - 1] = x
      BY <1>1, <1>2, <3>1
    <3>. QED  BY <1>1, <3>1, <3>2
  <2>. QED  BY <2>1, <2>2
<1>3. ASSUME NEW x, NEW j \in DOMAIN Tail(p), Tail(p)[j] = x
      PROVE  \E i \in DOMAIN p : p[i] = x
  <2>1. j + 1 \in 1 .. Len(p) /\ p[j + 1] = x
    BY <1>1, <1>3
  <2>. QED  BY <1>1, <2>1
<1>4. 1 \in DOMAIN p
  BY <1>1
<1>. QED  BY <1>1, <1>2, <1>3, <1>4 DEF Range

\* One step of Without: what is kept of the first i elements of q.
KeptTo(k, q, t, i) ==
  IF i = 0 THEN <<>>
  ELSE IF q[i] = t THEN k[i - 1] ELSE Append(k[i - 1], q[i])

\* The recursion of Without has a solution: if it had none for the first n
\* elements but had one for fewer, that one could be extended.
LEMMA KeptExists ==
  ASSUME NEW S, NEW q \in Seq(S), NEW t
  PROVE  \A n \in 0 .. Len(q) : \E k : k = [i \in 0 .. n |-> KeptTo(k, q, t, i)]
<1>. DEFINE Bad == {n \in 0 .. Len(q) : ~ \E k : k = [i \in 0 .. n |-> KeptTo(k, q, t, i)]}
<1>. SUFFICES ASSUME Bad # {} PROVE FALSE
  OBVIOUS
<1>1. PICK n \in Bad : \A m \in Bad : n <= m
  <2>. Bad \subseteq Nat
    OBVIOUS
  <2>. QED  BY LeastNat, Zenon
<1>2. n # 0
  <2>1. [i \in 0 .. 0 |-> <<>>] = [i \in 0 .. 0 |-> KeptTo([i_1 \in 0 .. 0 |-> <<>>], q, t, i)]
    BY DEF KeptTo
  <2>. QED  BY <2>1, Zenon
<1>3. PICK k : k = [i \in 0 .. n - 1 |-> KeptTo(k, q, t, i)]
  BY <1>1, <1>2
<1>. DEFINE h == [i \in 0 .. n |-> IF i = n THEN KeptTo(k, q, t, n) ELSE k[i]]
<1>4. ASSUME NEW i \in 0 .. n PROVE h[i] = KeptTo(h, q, t, i)
  <2>1. CASE i = 0
    BY <1>2, <1>3, <2>1 DEF KeptTo
  <2>2. CASE i # 0
    <3>1. h[i-1] = k[i-1]
      BY <2>2
    <3>2. KeptTo(h, q, t, i) = KeptTo(k, q, t, i)
      BY <3>1, <2>2 DEF KeptTo
    <3>. QED  BY <1>3, <3>2
  <2>. QED  BY <2>1, <2>2
<1>5. h = [i \in 0 .. n |-> KeptTo(h, q, t, i)]
  BY <1>4
<1>. QED  BY <1>5, Zenon

\* So Without goes through its queue and keeps what is not t's.
LEMMA WithoutSteps ==
  ASSUME NEW S, NEW q \in Seq(S), NEW t
  PROVE  \E k : /\ Without(q, t) = k[Len(q)]
                /\ k[0] = <<>>
                /\ \A n \in 1 .. Len(q) :
                     /\ q[n] = t => k[n] = k[n - 1]
                     /\ q[n] # t => k[n] = Append(k[n - 1], q[n])
<1>. DEFINE k == CHOOSE k : k = [i \in 0 .. Len(q) |-> KeptTo(k, q, t, i)]
<1>1. k = [i \in 0 .. Len(q) |-> KeptTo(k, q, t, i)]
  BY KeptExists
<1>2. Without(q, t) = k[Len(q)]
  BY DEF Without, KeptTo
<1>. HIDE DEF k
<1>3. k[0] = <<>>
  BY <1>1 DEF KeptTo
<1>4. ASSUME NEW n \in 1 .. Len(q)
      PROVE  k[n] = IF q[n] = t THEN k[n - 1] ELSE Append(k[n - 1], q[n])
  <2>1. n \in 0 .. Len(q) /\ n # 0
    OBVIOUS
  <2>2. k[n] = KeptTo(k, q, t, n)
    BY <1>1, <2>1
  <2>. QED  BY <2>1, <2>2 DEF KeptTo
<1>. QED  BY <1>2, <1>3, <1>4, Zenon

\* Without keeps exactly the other tasks,
LEMMA WithoutRange ==
  ASSUME NEW S, NEW q \in Seq(S), NEW t
  PROVE  /\ Without(q, t) \in Seq(S)
         /\ \A x : x \in Range(Without(q, t)) <=> x # t /\ x \in Range(q)
<1>1. PICK k : /\ Without(q, t) = k[Len(q)]
               /\ k[0] = <<>>
               /\ \A n \in 1 .. Len(q) :
                    /\ q[n] = t => k[n] = k[n - 1]
                    /\ q[n] # t => k[n] = Append(k[n - 1], q[n])
  BY WithoutSteps
<1>. DEFINE Good(n) == /\ k[n] \in Seq(S)
                       /\ \A x : x \in Range(k[n]) <=> x # t /\ \E j \in 1 .. n : q[j] = x
<1>2. Good(0)
  <2>1. \A x : x \notin Range(<<>>)
    BY DEF Range
  <2>. QED  BY <1>1, <2>1
<1>3. ASSUME NEW n \in 1 .. Len(q), Good(n - 1) PROVE Good(n)
  <2>1. q[n] \in S
    OBVIOUS
  <2>2. \A x : (\E j \in 1 .. n : q[j] = x) <=> x = q[n] \/ \E j \in 1 .. n - 1 : q[j] = x
    OBVIOUS
  <2>3. CASE q[n] = t
    BY <1>1, <1>3, <2>2, <2>3
  <2>4. CASE q[n] # t
    <3>1. k[n] = Append(k[n - 1], q[n])
      BY <1>1, <2>4
    <3>2. k[n - 1] \in Seq(S)
      BY <1>3
    <3>3. k[n] \in Seq(S)
      BY <2>1, <3>1, <3>2
    <3>4. \A x : x \in Range(Append(k[n - 1], q[n])) <=> x = q[n] \/ x \in Range(k[n - 1])
      BY <2>1, <3>2, AppendRange, Zenon
    <3>. QED  BY <1>3, <2>2, <2>4, <3>1, <3>3, <3>4
  <2>. QED  BY <2>3, <2>4
<1>. HIDE DEF Good
<1>4. Good(Len(q))
  <2>. DEFINE Bad == {n \in 0 .. Len(q) : ~Good(n)}
  <2>. SUFFICES ASSUME Bad # {} PROVE FALSE
    OBVIOUS
  <2>1. PICK n \in Bad : \A m \in Bad : n <= m
    <3>. Bad \subseteq Nat
      OBVIOUS
    <3>. QED  BY LeastNat, Zenon
  <2>. QED  BY <1>2, <1>3, <2>1
<1>5. \A x : x \in Range(q) <=> \E j \in 1 .. Len(q) : q[j] = x
  BY DEF Range
<1>. QED  BY <1>1, <1>4, <1>5 DEF Good

\* Every slot of q is another task's.
Distinct(q) == \A i, j \in DOMAIN q : q[i] = q[j] => i = j

\* A task that is not in a queue can be appended to it without a duplicate.
LEMMA AppendDistinct ==
  ASSUME NEW S, NEW p \in Seq(S), NEW e \in S, Distinct(p), e \notin Range(p)
  PROVE  Distinct(Append(p, e))
<1>1. /\ DOMAIN p = 1 .. Len(p)
      /\ DOMAIN Append(p, e) = 1 .. Len(p) + 1
      /\ Len(p) \in Nat
      /\ Append(p, e)[Len(p) + 1] = e
      /\ \A j \in 1 .. Len(p) : Append(p, e)[j] = p[j]
  OBVIOUS
<1>2. \A j \in 1 .. Len(p) : p[j] # e
  BY <1>1 DEF Range
<1>3. ASSUME NEW i \in 1 .. Len(p) + 1, NEW j \in 1 .. Len(p) + 1,
             Append(p, e)[i] = Append(p, e)[j]
      PROVE  i = j
  <2>1. CASE i \in 1 .. Len(p) /\ j \in 1 .. Len(p)
    BY <1>1, <1>3, <2>1 DEF Distinct
  <2>2. CASE i = Len(p) + 1 /\ j \in 1 .. Len(p)
    BY <1>1, <1>2, <1>3, <2>2
  <2>3. CASE j = Len(p) + 1 /\ i \in 1 .. Len(p)
    BY <1>1, <1>2, <1>3, <2>3
  <2>4. CASE i = Len(p) + 1 /\ j = Len(p) + 1
    BY <2>4
  <2>. QED  BY <1>1, <2>1, <2>2, <2>3, <2>4
<1>. QED  BY <1>1, <1>3 DEF Distinct

\* Taking the head of such a queue takes the task out of it.
LEMMA TailDistinct ==
  ASSUME NEW S, NEW p \in Seq(S), p # <<>>, Distinct(p)
  PROVE  Distinct(Tail(p)) /\ Head(p) \notin Range(Tail(p))
<1>1. /\ Head(p) = p[1]
      /\ Len(p) \in Nat \ {0}
      /\ DOMAIN p = 1 .. Len(p)
      /\ DOMAIN Tail(p) = 1 .. Len(p) - 1
      /\ \A i \in 1 .. Len(p) - 1 : Tail(p)[i] = p[i + 1]
  OBVIOUS
<1>2. Distinct(Tail(p))
  BY <1>1 DEF Distinct
<1>3. \A i \in 1 .. Len(p) - 1 : Tail(p)[i] # Head(p)
  BY <1>1 DEF Distinct
<1>. QED  BY <1>1, <1>2, <1>3 DEF Range

\* Without makes no duplicates.
LEMMA WithoutDistinct ==
  ASSUME NEW S, NEW q \in Seq(S), NEW t, Distinct(q)
  PROVE  Distinct(Without(q, t))
<1>1. PICK k : /\ Without(q, t) = k[Len(q)]
               /\ k[0] = <<>>
               /\ \A n \in 1 .. Len(q) :
                    /\ q[n] = t => k[n] = k[n - 1]
                    /\ q[n] # t => k[n] = Append(k[n - 1], q[n])
  BY WithoutSteps
<1>. DEFINE Good(n) == /\ k[n] \in Seq(S)
                       /\ Distinct(k[n])
                       /\ \A x : x \in Range(k[n]) => \E j \in 1 .. n : q[j] = x
<1>2. Good(0)
  <2>1. \A x : x \notin Range(<<>>)
    BY DEF Range
  <2>2. Distinct(<<>>)
    BY DEF Distinct
  <2>. QED  BY <1>1, <2>1, <2>2
<1>3. ASSUME NEW n \in 1 .. Len(q), Good(n - 1) PROVE Good(n)
  <2>1. q[n] \in S
    OBVIOUS
  <2>2. CASE q[n] = t
    BY <1>1, <1>3, <2>2
  <2>3. CASE q[n] # t
    <3>1. k[n] = Append(k[n - 1], q[n])
      BY <1>1, <2>3
    <3>2. k[n - 1] \in Seq(S) /\ Distinct(k[n - 1])
      BY <1>3
    <3>3. k[n] \in Seq(S)
      BY <2>1, <3>1, <3>2
    <3>4. \A x : x \in Range(Append(k[n - 1], q[n])) <=> x = q[n] \/ x \in Range(k[n - 1])
      BY <2>1, <3>2, AppendRange, Zenon
    <3>5. q[n] \notin Range(k[n - 1])
      <4>1. \A j \in 1 .. n - 1 : q[j] # q[n]
        BY DEF Distinct
      <4>. QED  BY <1>3, <4>1
    <3>6. Distinct(Append(k[n - 1], q[n]))
      BY <2>1, <3>2, <3>5, AppendDistinct, Zenon
    <3>7. \A x : x \in Range(k[n]) => \E j \in 1 .. n : q[j] = x
      BY <1>3, <3>1, <3>4
    <3>. QED  BY <3>1, <3>3, <3>6, <3>7
  <2>. QED  BY <2>2, <2>3
<1>. HIDE DEF Good
<1>4. Good(Len(q))
  <2>. DEFINE Bad == {n \in 0 .. Len(q) : ~Good(n)}
  <2>. SUFFICES ASSUME Bad # {} PROVE FALSE
    OBVIOUS
  <2>1. PICK n \in Bad : \A m \in Bad : n <= m
    <3>. Bad \subseteq Nat
      OBVIOUS
    <3>. QED  BY LeastNat, Zenon
  <2>. QED  BY <1>2, <1>3, <2>1
<1>. QED  BY <1>1, <1>4 DEF Good

----------------------------------------------------------------------------
(* Operations *)

\* Nothing is closed, nothing is reset, and the clients' use is what it was.
Undisturbed == dead' = dead /\ use' = use

\* A receive, whether it blocks or fails, closes and resets nothing,
LEMMA RecvUndisturbed ==
  ASSUME NEW s, NEW t, NEW tm, NEW r, Recv(s, t, tm, r)
  PROVE  Undisturbed
BY DEF Recv, RecvSet, sigvars, Undisturbed

\* neither does the return from it,
LEMMA WokenUndisturbed ==
  ASSUME NEW t, NEW r, Woken(t, r)
  PROVE  Undisturbed
BY DEF Woken, Undisturbed

\* the start of a send and each step of it,
LEMMA SendUndisturbed ==
  ASSUME NEW t, NEW mode, NEW s, NEW n,
         BeginSend(t, mode, s, n) \/ BeginSendLocked(t, mode, s) \/ SendStep(t)
  PROVE  Undisturbed
BY DEF BeginSend, BeginSendLocked, SendStep, SendPop, SendReschedule, Undisturbed

\* or the timer and an interrupt.
LEMMA OutsideUndisturbed ==
  ASSUME NEW t, Tick(t) \/ Interrupt(t)
  PROVE  Undisturbed
BY DEF Tick, Interrupt, Undisturbed

----------------------------------------------------------------------------
(* The state of the sends *)

\* A task in a send has a signal to send to, any other task has no send set up.
SendsSound ==
  \A t \in Tasks : /\ Sending(t) => snd[t].sig \in Sigs
                   /\ ~Sending(t) => snd[t] = NoSend

\* What holds of the signals whatever is built on them.
SigInv == SigTypeOK /\ SendsSound /\ DeadDrained

\* The record of a new send,
LEMMA JobFacts ==
  ASSUME NEW mode \in SendModes, NEW s \in Sigs, NEW n \in Nat
  PROVE  /\ Job(mode, s, n) \in Sends
         /\ Job(mode, s, n).mode = mode /\ mode # "none"
         /\ Job(mode, s, n).sig = s
         /\ Job(mode, s, n).left = n
         /\ Job(mode, s, n).task = NULL
BY DEF Job, Sends, SendModes

\* of no send,
LEMMA NoSendFacts ==
  /\ NoSend \in Sends
  /\ NoSend.mode = "none" /\ NoSend.sig = NULL
  /\ NoSend.left = 0 /\ NoSend.task = NULL
BY DEF NoSend, Sends

\* of a send that has popped task u,
LEMMA PoppedFacts ==
  ASSUME NEW j \in Sends, NEW u \in Tasks \cup {NULL}
  PROVE  /\ [j EXCEPT !.task = u] \in Sends
         /\ [j EXCEPT !.task = u].mode = j.mode
         /\ [j EXCEPT !.task = u].sig = j.sig
         /\ [j EXCEPT !.task = u].left = j.left
         /\ [j EXCEPT !.task = u].task = u
BY DEF Sends

\* and of a send that goes on after ksignal_sendone returned e: a ksignal_sendall
\* stops only when the queue is empty, and the loop around ksignal_sendone goes on
\* while the task it popped was already running.
LEMMA AfterFacts ==
  ASSUME NEW j \in Sends, NEW e, j.mode # "none"
  PROVE  /\ After(j, e) \in Sends
         /\ After(j, e).task = NULL
         /\ After(j, e).mode = "none" => After(j, e) = NoSend
         /\ After(j, e).mode # "none" => After(j, e).mode = j.mode /\ After(j, e).sig = j.sig
         /\ j.mode = "all" /\ e # "KS_EMPTY" => After(j, e).mode = "all"
         /\ j.mode = "one" /\ e = "KS_UNCHANGED" => After(j, e).mode = "one"
         /\ j.mode = "n" /\ j.left > 1 => /\ After(j, e).mode = "n"
                                          /\ After(j, e).left = j.left - 1
         /\ j.mode = "n" /\ j.left <= 1 => After(j, e) = NoSend
<1>1. j.mode \in {"one", "n", "all"}
  BY DEF Sends, SendModes
<1>2. CASE j.mode = "one"
  <2>1. After(j, e) = IF e = "KS_UNCHANGED" THEN [j EXCEPT !.task = NULL] ELSE NoSend
    BY <1>2 DEF After
  <2>. QED  BY <1>2, <2>1, NoSendFacts, PoppedFacts
<1>3. CASE j.mode = "all"
  <2>1. After(j, e) = IF e = "KS_EMPTY" THEN NoSend ELSE [j EXCEPT !.task = NULL]
    BY <1>3 DEF After
  <2>. QED  BY <1>3, <2>1, NoSendFacts, PoppedFacts
<1>4. CASE j.mode = "n"
  <2>1. After(j, e) = IF j.left <= 1 THEN NoSend
                      ELSE [j EXCEPT !.left = @ - 1, !.task = NULL]
    BY <1>4 DEF After
  <2>2. j.left \in Nat
    BY DEF Sends
  <2>3. CASE j.left <= 1
    BY <1>4, <2>1, <2>2, <2>3, NoSendFacts
  <2>4. CASE ~(j.left <= 1)
    <3>1. After(j, e) = [j EXCEPT !.left = @ - 1, !.task = NULL]
      BY <2>1, <2>4
    <3>2. /\ After(j, e) \in Sends
          /\ After(j, e).task = NULL
          /\ After(j, e).mode = j.mode
          /\ After(j, e).sig = j.sig
          /\ After(j, e).left = j.left - 1
      <4>. DEFINE k == [j EXCEPT !.left = j.left - 1]
      <4>1. j.left - 1 \in Nat
        BY <2>2, <2>4
      <4>2. k \in Sends /\ k.mode = j.mode /\ k.sig = j.sig /\ k.left = j.left - 1
        BY <4>1 DEF Sends
      <4>3. [j EXCEPT !.left = @ - 1, !.task = NULL] = [k EXCEPT !.task = NULL]
        OBVIOUS
      <4>. HIDE DEF k
      <4>. QED  BY <3>1, <4>2, <4>3, PoppedFacts
    <3>. QED  BY <1>4, <2>2, <2>4, <3>2
  <2>. QED  BY <2>3, <2>4
<1>. QED  BY <1>1, <1>2, <1>3, <1>4

----------------------------------------------------------------------------
(* The queues after an operation *)

\* A receive of the signals S puts one slot of the task on each,
LEMMA EnqueuedFacts ==
  ASSUME SigTypeOK, NEW S, NEW t \in Tasks
  PROVE  /\ Enqueued(S, t) \in [Sigs -> Seq(Tasks)]
         /\ \A s \in Sigs : \A x : x \in Range(Enqueued(S, t)[s]) <=>
                                 x \in Range(waiters[s]) \/ (s \in S /\ x = t)
<1>1. ASSUME NEW s \in Sigs
      PROVE  /\ Append(waiters[s], t) \in Seq(Tasks)
             /\ \A x : x \in Range(Append(waiters[s], t)) <=> x = t \/ x \in Range(waiters[s])
  <2>1. waiters[s] \in Seq(Tasks)
    BY DEF SigTypeOK
  <2>. QED  BY <2>1, AppendRange
<1>. QED  BY <1>1 DEF Enqueued, SigTypeOK

\* a task that is woken or interrupted leaves every queue,
LEMMA UnlinkedFacts ==
  ASSUME SigTypeOK, NEW u
  PROVE  /\ Unlinked(u) \in [Sigs -> Seq(Tasks)]
         /\ \A s \in Sigs : \A x : x \in Range(Unlinked(u)[s]) <=> x # u /\ x \in Range(waiters[s])
<1>1. ASSUME NEW s \in Sigs
      PROVE  /\ Without(waiters[s], u) \in Seq(Tasks)
             /\ \A x : x \in Range(Without(waiters[s], u)) <=> x # u /\ x \in Range(waiters[s])
  <2>1. waiters[s] \in Seq(Tasks)
    BY DEF SigTypeOK
  <2>. QED  BY <2>1, WithoutRange
<1>. QED  BY <1>1 DEF Unlinked, SigTypeOK

\* and a pop takes the head of one queue and gives it to the sender.
LEMMA PopFacts ==
  ASSUME SigTypeOK, NEW t \in Tasks, NEW j \in Sends, Pop(t, j),
         j.mode # "none", j.sig \in Sigs
  PROVE  /\ waiters' \in [Sigs -> Seq(Tasks)]
         /\ snd' \in [Tasks -> Sends]
         /\ \A u \in Tasks : u # t => snd'[u] = snd[u]
         /\ \A s \in Sigs : \A x : x \in Range(waiters'[s]) => x \in Range(waiters[s])
         /\ \/ /\ waiters[j.sig] = <<>>
               /\ waiters' = waiters
               /\ snd'[t] = After(j, "KS_EMPTY")
            \/ /\ waiters[j.sig] # <<>>
               /\ waiters' = [waiters EXCEPT ![j.sig] = Tail(@)]
               /\ snd'[t].task \in Tasks
               /\ snd'[t].task = Head(waiters[j.sig])
               /\ snd'[t].mode = j.mode
               /\ snd'[t].sig = j.sig
               /\ snd'[t].left = j.left
               /\ snd'[t].task \in Range(waiters[j.sig])
               /\ \A s \in Sigs : \A x : x \in Range(waiters[s]) =>
                                        x \in Range(waiters'[s]) \/ x = snd'[t].task
<1>1. waiters[j.sig] \in Seq(Tasks)
  BY DEF SigTypeOK
<1>2. CASE waiters[j.sig] = <<>>
  <2>1. snd' = [snd EXCEPT ![t] = After(j, "KS_EMPTY")] /\ waiters' = waiters
    BY <1>2 DEF Pop
  <2>2. After(j, "KS_EMPTY") \in Sends
    BY AfterFacts
  <2>. QED  BY <1>2, <2>1, <2>2 DEF SigTypeOK
<1>3. CASE waiters[j.sig] # <<>>
  <2>. DEFINE h == Head(waiters[j.sig])
  <2>1. /\ snd' = [snd EXCEPT ![t] = [j EXCEPT !.task = h]]
        /\ waiters' = [waiters EXCEPT ![j.sig] = Tail(@)]
    BY <1>3 DEF Pop
  <2>2. /\ h \in Tasks
        /\ Tail(waiters[j.sig]) \in Seq(Tasks)
        /\ \A x : x \in Range(waiters[j.sig]) <=> x = h \/ x \in Range(Tail(waiters[j.sig]))
    BY <1>1, <1>3, TailRange
  <2>. HIDE DEF h
  <2>3. /\ [j EXCEPT !.task = h] \in Sends
        /\ [j EXCEPT !.task = h].mode = j.mode
        /\ [j EXCEPT !.task = h].sig = j.sig
        /\ [j EXCEPT !.task = h].left = j.left
        /\ [j EXCEPT !.task = h].task = h
    BY <2>2, PoppedFacts
  <2>4. snd' \in [Tasks -> Sends] /\ snd'[t] = [j EXCEPT !.task = h]
    BY <2>1, <2>3 DEF SigTypeOK
  <2>5. /\ waiters' \in [Sigs -> Seq(Tasks)]
        /\ waiters'[j.sig] = Tail(waiters[j.sig])
        /\ \A s \in Sigs : s # j.sig => waiters'[s] = waiters[s]
    BY <2>1, <2>2 DEF SigTypeOK
  <2>6. \A u \in Tasks : u # t => snd'[u] = snd[u]
    BY <2>1 DEF SigTypeOK
  <2>7. /\ \A s \in Sigs : \A x : x \in Range(waiters'[s]) => x \in Range(waiters[s])
        /\ \A s \in Sigs : \A x : x \in Range(waiters[s]) => x \in Range(waiters'[s]) \/ x = h
    BY <2>2, <2>5
  <2>. QED  BY <1>3, <2>1, <2>2, <2>3, <2>4, <2>5, <2>6, <2>7 DEF h
<1>. QED  BY <1>2, <1>3, Zenon

----------------------------------------------------------------------------
(* What every operation keeps *)

\* Whoever still sleeps after a step can still be woken: a task that was popped
\* still is, and one that had a slot has it still or was popped.
KeepsReach ==
  \A x \in Tasks : tstate'[x] # "RUNNING" =>
     /\ x \in Popped => x \in Popped'
     /\ \A s \in Sigs : x \in Range(waiters[s]) => x \in Range(waiters'[s]) \/ x \in Popped'

\* A step wakes tasks, or does not, but puts none to sleep.
WakesOnly == \A x \in Tasks : tstate'[x] # "RUNNING" => tstate[x] # "RUNNING"

\* A popped task is one that some send holds.
LEMMA PoppedHolds ==
  ASSUME NEW x \in Tasks
  PROVE  /\ x \in Popped <=> \E u \in Tasks : snd[u].task = x
         /\ x \in Popped' <=> \E u \in Tasks : snd'[u].task = x
BY TasksAssumption DEF Popped

\* A dead signal stays drained if nothing is queued on it and a ksignal_sendall
\* ends only when its queue is empty.
LEMMA DrainedKept ==
  ASSUME DeadDrained, dead' \subseteq dead,
         \A s \in dead' : \A t \in Range(waiters'[s]) : t \in Range(waiters[s]),
         \A s \in dead', u \in Tasks : SendTo(u, s) /\ snd[u].mode = "all" =>
            \/ SendTo(u, s)' /\ snd'[u].mode = "all"
            \/ Range(waiters'[s]) = {}
  PROVE  DeadDrained'
<1>. SUFFICES ASSUME NEW s \in dead', NEW t \in Range(waiters'[s])
              PROVE  \E u \in Tasks : SendTo(u, s)' /\ snd'[u].mode = "all"
  BY DEF DeadDrained
<1>1. s \in dead /\ t \in Range(waiters[s])
  OBVIOUS
<1>2. PICK u \in Tasks : SendTo(u, s) /\ snd[u].mode = "all"
  BY <1>1 DEF DeadDrained
<1>. QED  BY <1>2

\* A receive.
LEMMA RecvKeeps ==
  ASSUME SigInv, NEW S \in SUBSET Sigs, NEW t \in Tasks, NEW tm, NEW r,
         RecvSet(S, t, tm, r)
  PROVE  /\ SigInv' /\ KeepsReach
         /\ snd' = snd
         /\ \A x \in Tasks : x # t => tstate'[x] = tstate[x]
         /\ r # "blocked" => waiters' = waiters /\ tstate' = tstate
         /\ r = "blocked" => /\ S \cap dead = {}
                             /\ tstate'[t] # "RUNNING"
                             /\ \A s \in S : t \in Range(waiters'[s])
<1>1. CASE r # "blocked"
  <2>1. /\ UNCHANGED <<waiters, dead, tstate, tmo, timedout, termreq, snd, use>>
        /\ siglock' \in SUBSET Sigs
        /\ cpulock' \in Tasks \cup {NULL}
        /\ wasintr' \in SUBSET Tasks
    BY <1>1 DEF RecvSet, sigvars, SigInv, SigTypeOK
  <2>2. SigTypeOK' /\ SendsSound' /\ DeadDrained'
    BY <2>1, Zenon DEF SigInv, SigTypeOK, SendsSound, DeadDrained, SendTo, Sending
  <2>3. KeepsReach
    BY <2>1 DEF KeepsReach, Popped
  <2>. QED  BY <1>1, <2>1, <2>2, <2>3 DEF SigInv
<1>2. CASE r = "blocked"
  <2>1. /\ S \cap dead = {}
        /\ waiters' = Enqueued(S, t)
        /\ UNCHANGED <<dead, siglock, cpulock, timedout, wasintr, termreq, snd, use>>
    BY <1>2 DEF RecvSet
  <2>2. /\ tstate' = [tstate EXCEPT ![t] = IF tm THEN "WAITINGTMO" ELSE "WAITING"]
        /\ tmo' = IF tm THEN tmo \cup {t} ELSE tmo
    BY <1>2 DEF RecvSet
  <2>3. /\ waiters' \in [Sigs -> Seq(Tasks)]
        /\ \A s \in Sigs : \A x : x \in Range(waiters'[s]) <=>
                                x \in Range(waiters[s]) \/ (s \in S /\ x = t)
    BY <2>1, EnqueuedFacts, Zenon DEF SigInv
  <2>4. /\ tstate' \in [Tasks -> TaskStates]
        /\ tstate'[t] # "RUNNING"
        /\ \A x \in Tasks : x # t => tstate'[x] = tstate[x]
        /\ tmo' \subseteq Tasks
    BY <2>2 DEF SigInv, SigTypeOK, TaskStates
  <2>5. SigTypeOK' /\ SendsSound'
    BY <2>1, <2>3, <2>4 DEF SigInv, SigTypeOK, SendsSound, Sending
  <2>6. DeadDrained'
    <3>1. ASSUME NEW s \in dead', NEW x \in Range(waiters'[s]) PROVE x \in Range(waiters[s])
      <4>1. s \in Sigs /\ s \notin S
        BY <2>1 DEF SigInv, SigTypeOK
      <4>. QED  BY <2>3, <3>1, <4>1
    <3>. QED  BY <2>1, <3>1, DrainedKept DEF SigInv, SendTo, Sending
  <2>7. KeepsReach
    BY <2>1, <2>3 DEF KeepsReach, Popped
  <2>. QED  BY <1>2, <2>1, <2>3, <2>4, <2>5, <2>6, <2>7 DEF SigInv
<1>. QED  BY <1>1, <1>2

\* The return from a receive, a timeout and an interrupt.
LEMMA WokenKeeps ==
  ASSUME SigInv, NEW t \in Tasks, NEW r, Woken(t, r)
  PROVE  /\ SigInv' /\ KeepsReach /\ WakesOnly
         /\ snd' = snd /\ waiters' = waiters /\ tstate' = tstate
<1>1. /\ UNCHANGED <<waiters, dead, siglock, cpulock, tstate, termreq, snd, use>>
      /\ wasintr' \subseteq Tasks /\ timedout' \subseteq Tasks /\ tmo' \subseteq Tasks
  BY DEF Woken, SigInv, SigTypeOK
<1>2. SigTypeOK' /\ SendsSound' /\ DeadDrained'
  BY <1>1, Zenon DEF SigInv, SigTypeOK, SendsSound, DeadDrained, SendTo, Sending
<1>3. KeepsReach /\ WakesOnly
  BY <1>1 DEF KeepsReach, WakesOnly, Popped
<1>. QED  BY <1>1, <1>2, <1>3 DEF SigInv

\* A timeout wakes a task and leaves its slots queued.
LEMMA TickKeeps ==
  ASSUME SigInv, NEW t \in Tasks, Tick(t)
  PROVE  /\ SigInv' /\ KeepsReach /\ WakesOnly
         /\ snd' = snd /\ waiters' = waiters
<1>1. /\ UNCHANGED <<waiters, dead, siglock, cpulock, tmo, wasintr, termreq, snd, use>>
      /\ tstate' \in [Tasks -> TaskStates] /\ timedout' \subseteq Tasks
      /\ \A x \in Tasks : tstate'[x] # "RUNNING" => tstate[x] # "RUNNING"
  BY DEF Tick, SigInv, SigTypeOK, TaskStates
<1>2. SigTypeOK' /\ SendsSound' /\ DeadDrained'
  BY <1>1, Zenon DEF SigInv, SigTypeOK, SendsSound, DeadDrained, SendTo, Sending
<1>3. KeepsReach /\ WakesOnly
  BY <1>1 DEF KeepsReach, WakesOnly, Popped
<1>. QED  BY <1>1, <1>2, <1>3 DEF SigInv

\* An interrupt wakes a task and takes its slots from every queue.
LEMMA InterruptKeeps ==
  ASSUME SigInv, NEW t \in Tasks, Interrupt(t)
  PROVE  /\ SigInv' /\ KeepsReach /\ WakesOnly
         /\ snd' = snd
         /\ tstate'[t] = "RUNNING"
         /\ \A x \in Tasks : x # t => tstate'[x] = tstate[x]
         /\ \A s \in Sigs : \A x : x \in Range(waiters'[s]) => x \in Range(waiters[s])
         /\ tstate[t] # "RUNNING" => \A s \in Sigs : t \notin Range(waiters'[s])
<1>1. /\ UNCHANGED <<dead, siglock, cpulock, tmo, timedout, snd, use>>
      /\ termreq' \subseteq Tasks /\ wasintr' \subseteq Tasks
      /\ tstate' \in [Tasks -> TaskStates]
      /\ tstate'[t] = "RUNNING"
      /\ \A x \in Tasks : x # t => tstate'[x] = tstate[x]
  BY DEF Interrupt, SigInv, SigTypeOK, TaskStates
<1>2. /\ waiters' \in [Sigs -> Seq(Tasks)]
      /\ \A s \in Sigs : \A x : x \in Range(waiters'[s]) => x \in Range(waiters[s])
      /\ \A s \in Sigs : \A x : x \in Range(waiters[s]) => x = t \/ x \in Range(waiters'[s])
      /\ tstate[t] # "RUNNING" => \A s \in Sigs : t \notin Range(waiters'[s])
  <2>1. CASE tstate[t] = "RUNNING"
    <3>1. waiters' = waiters
      BY <2>1 DEF Interrupt
    <3>. QED  BY <2>1, <3>1 DEF SigInv, SigTypeOK
  <2>2. CASE tstate[t] # "RUNNING"
    <3>1. waiters' = Unlinked(t)
      BY <2>2 DEF Interrupt
    <3>2. /\ waiters' \in [Sigs -> Seq(Tasks)]
          /\ \A s \in Sigs : \A x : x \in Range(waiters'[s]) <=> x # t /\ x \in Range(waiters[s])
      BY <3>1, UnlinkedFacts, Zenon DEF SigInv
    <3>. QED  BY <2>2, <3>2
  <2>. QED  BY <2>1, <2>2, Zenon
<1>3. SigTypeOK' /\ SendsSound'
  BY <1>1, <1>2 DEF SigInv, SigTypeOK, SendsSound, Sending
<1>4. DeadDrained'
  <2>1. \A s \in dead' : \A x \in Range(waiters'[s]) : x \in Range(waiters[s])
    BY <1>1, <1>2 DEF SigInv, SigTypeOK
  <2>. QED  BY <1>1, <2>1, DrainedKept DEF SigInv, SendTo, Sending
<1>5. KeepsReach /\ WakesOnly
  BY <1>1, <1>2 DEF KeepsReach, WakesOnly, Popped
<1>. QED  BY <1>1, <1>2, <1>3, <1>4, <1>5 DEF SigInv

\* The pop of a send: the task that is popped was queued; a send ends here only if
\* nobody is queued.
LEMMA SendPopKeeps ==
  ASSUME SigInv, NEW t \in Tasks, SendPop(t)
  PROVE  /\ SigInv' /\ KeepsReach /\ WakesOnly
         /\ tstate' = tstate
         /\ snd[t].sig \in Sigs /\ snd[t].task = NULL
         /\ \A u \in Tasks : u # t => snd'[u] = snd[u]
         /\ \A s \in Sigs : \A x : x \in Range(waiters'[s]) => x \in Range(waiters[s])
         /\ \/ Range(waiters[snd[t].sig]) = {} /\ snd'[t] = After(snd[t], "KS_EMPTY")
               /\ waiters' = waiters
            \/ /\ snd'[t].task \in Range(waiters[snd[t].sig])
               /\ waiters[snd[t].sig] # <<>>
               /\ snd'[t].task = Head(waiters[snd[t].sig])
               /\ waiters' = [waiters EXCEPT ![snd[t].sig] = Tail(@)]
               /\ snd'[t].mode = snd[t].mode
               /\ snd'[t].sig = snd[t].sig
               /\ snd'[t].left = snd[t].left
<1>1. /\ snd[t].mode # "none" /\ snd[t].task = NULL /\ snd[t].sig \in Sigs
      /\ snd[t] \in Sends
      /\ Pop(t, snd[t])
      /\ UNCHANGED <<dead, siglock, cpulock, tstate, tmo, timedout, wasintr, termreq, use>>
  BY DEF SendPop, Sending, SigInv, SendsSound, SigTypeOK
<1>2. /\ waiters' \in [Sigs -> Seq(Tasks)]
      /\ snd' \in [Tasks -> Sends]
      /\ \A u \in Tasks : u # t => snd'[u] = snd[u]
      /\ \A s \in Sigs : \A x : x \in Range(waiters'[s]) => x \in Range(waiters[s])
  BY <1>1, PopFacts, Zenon DEF SigInv
<1>3. SigTypeOK'
  BY <1>1, <1>2 DEF SigInv, SigTypeOK
<1>4. \A s \in dead' : \A x \in Range(waiters'[s]) : x \in Range(waiters[s])
  BY <1>1, <1>2 DEF SigInv, SigTypeOK
<1>5. CASE waiters[snd[t].sig] = <<>> /\ waiters' = waiters
           /\ snd'[t] = After(snd[t], "KS_EMPTY")
  <2>1. Range(waiters[snd[t].sig]) = {}
    BY <1>5 DEF Range
  <2>2. /\ snd'[t].mode = "none" => snd'[t] = NoSend
        /\ snd'[t].mode # "none" => snd'[t].sig = snd[t].sig
    BY <1>1, <1>5, AfterFacts
  <2>3. SendsSound'
    BY <1>1, <1>2, <2>2 DEF SigInv, SendsSound, Sending
  <2>4. DeadDrained'
    BY <1>1, <1>2, <1>4, <1>5, <2>1, DrainedKept DEF SigInv, SendTo, Sending
  <2>5. KeepsReach /\ WakesOnly
    BY <1>1, <1>2, <1>5, PoppedHolds, TasksAssumption DEF KeepsReach, WakesOnly
  <2>. QED  BY <1>1, <1>2, <1>3, <1>5, <2>1, <2>3, <2>4, <2>5 DEF SigInv
<1>6. CASE /\ snd'[t].task \in Tasks
           /\ snd'[t].task = Head(waiters[snd[t].sig])
           /\ waiters[snd[t].sig] # <<>>
           /\ waiters' = [waiters EXCEPT ![snd[t].sig] = Tail(@)]
           /\ snd'[t].mode = snd[t].mode
           /\ snd'[t].sig = snd[t].sig
           /\ snd'[t].left = snd[t].left
           /\ snd'[t].task \in Range(waiters[snd[t].sig])
           /\ \A s \in Sigs : \A x : x \in Range(waiters[s]) =>
                                    x \in Range(waiters'[s]) \/ x = snd'[t].task
  <2>1. SendsSound'
    BY <1>1, <1>2, <1>6 DEF SigInv, SendsSound, Sending
  <2>2. DeadDrained'
    BY <1>1, <1>2, <1>4, <1>6, DrainedKept DEF SigInv, SendTo, Sending
  <2>3. KeepsReach /\ WakesOnly
    BY <1>1, <1>2, <1>6, PoppedHolds, TasksAssumption DEF KeepsReach, WakesOnly
  <2>. QED  BY <1>1, <1>2, <1>3, <1>6, <2>1, <2>2, <2>3 DEF SigInv
<1>. QED  BY <1>1, <1>5, <1>6, PopFacts, Zenon DEF SigInv

\* The reschedule of a send: the popped task leaves every queue, or runs already.
LEMMA SendRescheduleKeeps ==
  ASSUME SigInv, NEW t \in Tasks, SendReschedule(t)
  PROVE  /\ SigInv' /\ KeepsReach /\ WakesOnly
         /\ snd[t].task \in Tasks
         /\ \A u \in Tasks : u # t => snd'[u] = snd[u]
         /\ \A s \in Sigs : \A x : x \in Range(waiters'[s]) => x \in Range(waiters[s])
         /\ \A x \in Tasks : x # snd[t].task => tstate'[x] = tstate[x]
         /\ tstate'[snd[t].task] = "RUNNING"
         /\ \/ /\ tstate[snd[t].task] = "RUNNING"
               /\ snd'[t] = After(snd[t], "KS_UNCHANGED")
               /\ waiters' = waiters
            \/ /\ tstate[snd[t].task] # "RUNNING"
               /\ snd'[t] = After(snd[t], "KE_OK")
               /\ waiters' = Unlinked(snd[t].task)
<1>1. /\ snd[t].mode # "none" /\ snd[t].sig \in Sigs
      /\ snd[t] \in Sends
      /\ snd[t].task \in Tasks
      /\ UNCHANGED <<dead, siglock, cpulock, tmo, timedout, wasintr, termreq, use>>
  BY DEF SendReschedule, Sending, SigInv, SendsSound, SigTypeOK, Sends
<1>2. PICK e \in {"KS_UNCHANGED", "KE_OK"} :
        /\ snd' = [snd EXCEPT ![t] = After(snd[t], e)]
        /\ tstate[snd[t].task] = "RUNNING" => /\ e = "KS_UNCHANGED"
                                              /\ waiters' = waiters /\ tstate' = tstate
        /\ tstate[snd[t].task] # "RUNNING" =>
             /\ e = "KE_OK"
             /\ waiters' = Unlinked(snd[t].task)
             /\ tstate' = [tstate EXCEPT ![snd[t].task] = "RUNNING"]
  BY DEF SendReschedule
<1>3. /\ After(snd[t], e) \in Sends
      /\ After(snd[t], e).task = NULL
      /\ After(snd[t], e).mode = "none" => After(snd[t], e) = NoSend
      /\ After(snd[t], e).mode # "none" => /\ After(snd[t], e).mode = snd[t].mode
                                           /\ After(snd[t], e).sig = snd[t].sig
      /\ snd[t].mode = "all" => After(snd[t], e).mode = "all"
  BY <1>1, AfterFacts
<1>4. /\ snd' \in [Tasks -> Sends]
      /\ snd'[t] = After(snd[t], e)
      /\ \A u \in Tasks : u # t => snd'[u] = snd[u]
  BY <1>2, <1>3 DEF SigInv, SigTypeOK
<1>5. /\ waiters' \in [Sigs -> Seq(Tasks)]
      /\ \A s \in Sigs : \A x : x \in Range(waiters'[s]) => x \in Range(waiters[s])
      /\ \A s \in Sigs : \A x : x \in Range(waiters[s]) =>
                              x = snd[t].task \/ x \in Range(waiters'[s])
  <2>1. CASE tstate[snd[t].task] = "RUNNING"
    BY <1>2, <2>1 DEF SigInv, SigTypeOK
  <2>2. CASE tstate[snd[t].task] # "RUNNING"
    <3>1. waiters' = Unlinked(snd[t].task)
      BY <1>2, <2>2
    <3>2. /\ waiters' \in [Sigs -> Seq(Tasks)]
          /\ \A s \in Sigs : \A x : x \in Range(waiters'[s]) <=>
                                  x # snd[t].task /\ x \in Range(waiters[s])
      BY <3>1, UnlinkedFacts, Zenon DEF SigInv
    <3>. QED  BY <3>2
  <2>. QED  BY <2>1, <2>2, Zenon
<1>6. /\ tstate' \in [Tasks -> TaskStates]
      /\ tstate'[snd[t].task] = "RUNNING"
      /\ \A x \in Tasks : x # snd[t].task => tstate'[x] = tstate[x]
  <2>1. CASE tstate[snd[t].task] = "RUNNING"
    BY <1>2, <2>1 DEF SigInv, SigTypeOK
  <2>2. CASE tstate[snd[t].task] # "RUNNING"
    BY <1>1, <1>2, <2>2, SMTT(20) DEF SigInv, SigTypeOK, TaskStates
  <2>. QED  BY <2>1, <2>2
<1>7. SigTypeOK'
  BY <1>1, <1>4, <1>5, <1>6 DEF SigInv, SigTypeOK
<1>8. SendsSound'
  BY <1>1, <1>3, <1>4 DEF SigInv, SendsSound, Sending
<1>9. DeadDrained'
  <2>1. \A s \in dead' : \A x \in Range(waiters'[s]) : x \in Range(waiters[s])
    BY <1>1, <1>5 DEF SigInv, SigTypeOK
  <2>2. \A s \in dead', u \in Tasks : SendTo(u, s) /\ snd[u].mode = "all" =>
           SendTo(u, s)' /\ snd'[u].mode = "all"
    BY <1>1, <1>3, <1>4 DEF SendTo, Sending
  <2>. QED  BY <1>1, <2>1, <2>2, DrainedKept DEF SigInv
<1>10. KeepsReach /\ WakesOnly
  BY <1>1, <1>4, <1>5, <1>6, PoppedHolds DEF KeepsReach, WakesOnly
<1>. QED  BY <1>1, <1>2, <1>4, <1>5, <1>6, <1>7, <1>8, <1>9, <1>10 DEF SigInv

\* The start of a send by a task that is in none.
LEMMA BeginSendKeeps ==
  ASSUME SigInv, NEW t \in Tasks, ~Sending(t), NEW mode \in SendModes, NEW s \in Sigs,
         NEW n \in Nat, BeginSend(t, mode, s, n)
  PROVE  /\ SigInv' /\ KeepsReach /\ WakesOnly
         /\ waiters' = waiters /\ tstate' = tstate
         /\ \A u \in Tasks : u # t => snd'[u] = snd[u]
         /\ snd'[t].task = NULL
         /\ mode = "n" /\ n = 0 => snd'[t] = NoSend
         /\ ~(mode = "n" /\ n = 0) => /\ snd'[t].mode = mode
                                      /\ snd'[t].sig = s
                                      /\ snd'[t].left = n
<1>. DEFINE j == IF mode = "n" /\ n = 0 THEN NoSend ELSE Job(mode, s, n)
<1>1. /\ UNCHANGED <<waiters, dead, siglock, cpulock, tstate, tmo, timedout, wasintr,
                     termreq, use>>
      /\ snd' = [snd EXCEPT ![t] = j]
  BY DEF BeginSend
<1>2. /\ j \in Sends
      /\ j.task = NULL
      /\ mode = "n" /\ n = 0 => j = NoSend
      /\ ~(mode = "n" /\ n = 0) => j.mode = mode /\ j.mode # "none" /\ j.sig = s /\ j.left = n
      /\ j.mode = "none" => j = NoSend
      /\ j.mode # "none" => j.sig \in Sigs
  BY JobFacts, NoSendFacts
<1>. HIDE DEF j
<1>3. /\ snd' \in [Tasks -> Sends] /\ snd'[t] = j
      /\ \A u \in Tasks : u # t => snd'[u] = snd[u]
  BY <1>1, <1>2 DEF SigInv, SigTypeOK
<1>4. SigTypeOK' /\ SendsSound'
  BY <1>1, <1>2, <1>3 DEF SigInv, SigTypeOK, SendsSound, Sending
<1>5. DeadDrained'
  <2>1. \A x \in dead', u \in Tasks : SendTo(u, x) /\ snd[u].mode = "all" =>
           SendTo(u, x)' /\ snd'[u].mode = "all"
    BY <1>3 DEF SendTo, Sending
  <2>. QED  BY <1>1, <2>1, DrainedKept DEF SigInv
<1>6. KeepsReach /\ WakesOnly
  BY <1>1, <1>3, PoppedHolds, NoSendFacts, TasksAssumption
     DEF KeepsReach, WakesOnly, SigInv, SendsSound
<1>. QED  BY <1>1, <1>2, <1>3, <1>4, <1>5, <1>6 DEF SigInv

\* The start of a send whose first pop is under the lock the caller holds.
LEMMA BeginSendLockedKeeps ==
  ASSUME SigInv, NEW t \in Tasks, ~Sending(t), NEW mode \in SendModes, NEW s \in Sigs,
         BeginSendLocked(t, mode, s)
  PROVE  /\ SigInv' /\ KeepsReach /\ WakesOnly
         /\ tstate' = tstate
         /\ \A u \in Tasks : u # t => snd'[u] = snd[u]
         /\ \A i \in Sigs : \A x : x \in Range(waiters'[i]) => x \in Range(waiters[i])
         /\ \/ /\ Range(waiters[s]) = {}
               /\ waiters' = waiters
            \/ /\ snd'[t].mode = mode
               /\ snd'[t].sig = s
               /\ snd'[t].task \in Range(waiters[s])
<1>. DEFINE j == Job(mode, s, 0)
<1>1. /\ UNCHANGED <<dead, siglock, cpulock, tstate, tmo, timedout, wasintr, termreq, use>>
      /\ Pop(t, j)
  BY DEF BeginSendLocked
<1>2. j \in Sends /\ j.mode = mode /\ j.mode # "none" /\ j.sig = s /\ j.task = NULL
  BY JobFacts
<1>. HIDE DEF j
<1>3. /\ waiters' \in [Sigs -> Seq(Tasks)]
      /\ snd' \in [Tasks -> Sends]
      /\ \A u \in Tasks : u # t => snd'[u] = snd[u]
      /\ \A i \in Sigs : \A x : x \in Range(waiters'[i]) => x \in Range(waiters[i])
      /\ \/ /\ waiters[s] = <<>>
            /\ waiters' = waiters
            /\ snd'[t] = After(j, "KS_EMPTY")
         \/ /\ snd'[t].task \in Tasks
            /\ snd'[t].mode = mode
            /\ snd'[t].sig = s
            /\ snd'[t].task \in Range(waiters[s])
            /\ \A i \in Sigs : \A x : x \in Range(waiters[i]) =>
                                    x \in Range(waiters'[i]) \/ x = snd'[t].task
  BY <1>1, <1>2, PopFacts, Zenon DEF SigInv
<1>4. SigTypeOK'
  BY <1>1, <1>3 DEF SigInv, SigTypeOK
<1>5. /\ snd'[t].mode = "none" => snd'[t] = NoSend
      /\ snd'[t].mode # "none" => snd'[t].sig = s
  BY <1>2, <1>3, AfterFacts
<1>6. SendsSound'
  BY <1>3, <1>5 DEF SigInv, SendsSound, Sending
<1>7. DeadDrained'
  <2>1. \A x \in dead', u \in Tasks : SendTo(u, x) /\ snd[u].mode = "all" =>
           SendTo(u, x)' /\ snd'[u].mode = "all"
    BY <1>3 DEF SendTo, Sending
  <2>2. \A i \in dead' : \A x \in Range(waiters'[i]) : x \in Range(waiters[i])
    BY <1>1, <1>3 DEF SigInv, SigTypeOK
  <2>. QED  BY <1>1, <2>1, <2>2, DrainedKept DEF SigInv
<1>8. snd[t].task = NULL
  BY NoSendFacts DEF SigInv, SendsSound
<1>9. KeepsReach /\ WakesOnly
  BY <1>1, <1>3, <1>8, PoppedHolds, TasksAssumption DEF KeepsReach, WakesOnly
<1>10. waiters[s] = <<>> => Range(waiters[s]) = {}
  BY DEF Range
<1>. QED  BY <1>1, <1>3, <1>4, <1>6, <1>7, <1>9, <1>10 DEF SigInv

\* A close,
LEMMA CloseSigKeeps ==
  ASSUME SigInv, NEW t \in Tasks, ~Sending(t), NEW s \in Sigs, CloseSig(t, s)
  PROVE  /\ SigInv' /\ KeepsReach /\ WakesOnly
         /\ waiters' = waiters /\ tstate' = tstate
         /\ \A u \in Tasks : u # t => snd'[u] = snd[u]
         /\ snd'[t].mode = "all" /\ snd'[t].sig = s /\ snd'[t].task = NULL
<1>. DEFINE j == Job("all", s, 0)
<1>1. /\ UNCHANGED <<waiters, siglock, cpulock, tstate, tmo, timedout, wasintr, termreq, use>>
      /\ dead' = dead \cup {s}
      /\ snd' = [snd EXCEPT ![t] = j]
  BY DEF CloseSig
<1>2. j \in Sends /\ j.mode = "all" /\ j.sig = s /\ j.task = NULL
  BY JobFacts DEF SendModes
<1>. HIDE DEF j
<1>3. /\ snd' \in [Tasks -> Sends] /\ snd'[t] = j
      /\ \A u \in Tasks : u # t => snd'[u] = snd[u]
  BY <1>1, <1>2 DEF SigInv, SigTypeOK
<1>4. SigTypeOK' /\ SendsSound'
  BY <1>1, <1>2, <1>3 DEF SigInv, SigTypeOK, SendsSound, Sending
<1>5. DeadDrained'
  <2>. SUFFICES ASSUME NEW i \in dead', NEW x \in Range(waiters'[i])
                PROVE  \E u \in Tasks : SendTo(u, i)' /\ snd'[u].mode = "all"
    BY DEF DeadDrained
  <2>1. CASE i = s
    BY <1>2, <1>3, <2>1 DEF SendTo, Sending
  <2>2. CASE i # s
    <3>1. i \in dead /\ x \in Range(waiters[i])
      BY <1>1, <2>2
    <3>2. PICK u \in Tasks : SendTo(u, i) /\ snd[u].mode = "all"
      BY <3>1 DEF SigInv, DeadDrained
    <3>. QED  BY <1>3, <3>2 DEF SendTo, Sending
  <2>. QED  BY <2>1, <2>2
<1>6. snd[t].task = NULL
  BY NoSendFacts DEF SigInv, SendsSound
<1>7. KeepsReach /\ WakesOnly
  BY <1>1, <1>3, <1>6, PoppedHolds, TasksAssumption DEF KeepsReach, WakesOnly
<1>. QED  BY <1>1, <1>2, <1>3, <1>4, <1>5, <1>7 DEF SigInv

\* and a reset.
LEMMA ResetSigKeeps ==
  ASSUME SigInv, NEW s, ResetSig(s)
  PROVE  /\ SigInv' /\ KeepsReach /\ WakesOnly
         /\ waiters' = waiters /\ tstate' = tstate /\ snd' = snd
<1>1. /\ UNCHANGED <<waiters, siglock, cpulock, tstate, tmo, timedout, wasintr, termreq,
                     snd, use>>
      /\ dead' \subseteq dead
  BY DEF ResetSig
<1>2. SigTypeOK' /\ SendsSound' /\ DeadDrained'
  BY <1>1, Zenon DEF SigInv, SigTypeOK, SendsSound, DeadDrained, SendTo, Sending
<1>3. KeepsReach /\ WakesOnly
  BY <1>1 DEF KeepsReach, WakesOnly, Popped
<1>. QED  BY <1>1, <1>2, <1>3 DEF SigInv

\* A step that leaves the signals alone.
LEMMA UnchangedKeeps ==
  ASSUME SigInv, UNCHANGED sigvars
  PROVE  SigInv' /\ KeepsReach /\ WakesOnly
BY DEF sigvars, SigInv, SigTypeOK, SendsSound, DeadDrained, SendTo, Sending, KeepsReach,
       WakesOnly, Popped

\* New signals.
LEMMA InitSigInv == SigInit => SigInv
<1>. SUFFICES ASSUME SigInit PROVE SigInv
  OBVIOUS
<1>1. SigTypeOK
  BY NoSendFacts DEF SigInit, SigTypeOK, TaskStates
<1>2. SendsSound
  BY NoSendFacts DEF SigInit, SendsSound, Sending
<1>3. DeadDrained
  BY DEF SigInit, DeadDrained
<1>. QED  BY <1>1, <1>2, <1>3 DEF SigInv
============================================================================
