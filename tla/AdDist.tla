------------------------------- MODULE AdDist -------------------------------
(***************************************************************************)
(* The asynchronous data distributor, which carries key strokes from the   *)
(* keyboard's interrupt handler to its readers: struct kaddist of          *)
(* include/kos/kernel/addist.h, src/kernel/sched/sync/addist.c.inl and     *)
(* addist-recv.c.inl.                                                      *)
(*                                                                         *)
(* A reader has a ticket.  Readers that wait are in the ready list and get *)
(* data through the signal ad_nbdat; the others are in the non-ready list, *)
(* and for them data is kept in chunks.  Every function runs with          *)
(* interrupts disabled, so it is one step, up to the point where a receive *)
(* puts its task to sleep and from the point where the task runs again.    *)
(*                                                                         *)
(* The two lists are modelled by their dt_prev and dt_next pointers, the   *)
(* chunks by a sequence; a chunk is known by the number it was created     *)
(* with, 0 is NULL.  kaddist_vtryrecv reads sd_next of a chunk it has just *)
(* freed: nothing ran in between, and free() leaves that word alone.  The  *)
(* kernel stops at the first assertion that fails.                         *)
(***************************************************************************)
EXTENDS VSignal

CONSTANTS AdTasks,  \* the readers, one ticket each
          NoTicket, \* NULL
          AdUses    \* the ways the distributor is used

AdCalls == {"delticket", "recv", "timedrecv", "tryrecv", "close", "reset"}

\* A use: the tasks that make tickets and those of them that may block, the
\* functions called, ad_chunkmax, whether memory runs out, whether tasks are
\* interrupted, whether tickets are tracked (KCONFIG_HAVE_DEBUG_TRACKEDDDIST), and
\* how many data are sent and calls made (bounds).
ASSUME AdAssumption ==
  /\ NoTicket \notin AdTasks
  /\ \A u \in AdUses :
       /\ u.blockers \subseteq u.readers /\ u.readers \subseteq AdTasks
       /\ u.calls \subseteq AdCalls
       /\ u.max \in Nat /\ u.sends \in Nat /\ u.n \in Nat
       /\ u.nomem \in BOOLEAN /\ u.intr \in BOOLEAN /\ u.tracked \in BOOLEAN

VARIABLES
  ad,       \* struct kaddist and the tickets
  adsig,    \* ad_nbdat and the tasks
  holds,    \* the tasks that have a ticket
  last,     \* the last datum each ticket received, or was made after
  disorder, \* the tasks that received a datum twice, too late or with one left out
  gone,     \* the data that were not kept for all tickets
  adsent,   \* the number of data sent
  adleft,   \* how many more calls each task makes
  adstop,   \* the assertion that failed
  aduse

advars == <<ad, adsig, holds, last, disorder, gone, adsent, adleft, adstop, aduse>>

AdInit ==
  /\ ad = [ready |-> 0, known |-> 0, tiready |-> NoTicket, tnready |-> NoTicket,
           prev |-> [t \in AdTasks |-> NoTicket], next |-> [t \in AdTasks |-> NoTicket],
           async |-> [t \in AdTasks |-> 0], rd |-> [t \in AdTasks |-> FALSE],
           chunks |-> <<>>, made |-> 0]
  /\ adsig = VInit(AdTasks, {"nbdat"})
  /\ holds = {}
  /\ last = [t \in AdTasks |-> 0]
  /\ disorder = {}
  /\ gone = {}
  /\ adsent = 0
  /\ aduse \in AdUses
  /\ adleft = [t \in AdTasks |-> aduse.n]
  /\ adstop = ""

----------------------------------------------------------------------------
(* The lists *)

\* The tickets of the list that starts at head, as long as it is not a cycle.
Listed(a, head) ==
  LET at[i \in 0 .. Cardinality(AdTasks)] ==
        IF i = 0 THEN head ELSE IF at[i - 1] = NoTicket THEN NoTicket ELSE a.next[at[i - 1]]
  IN  {at[i] : i \in 0 .. Cardinality(AdTasks)} \ {NoTicket}

LastOf(a, head) == CHOOSE t \in Listed(a, head) : a.next[t] = NoTicket

\* Ticket t becomes the first of the non-ready list.
PushedNonReady(a, t) ==
  [a EXCEPT !.next[t] = a.tnready,
            !.prev = IF a.tnready = NoTicket THEN @ ELSE [@ EXCEPT ![a.tnready] = t],
            !.tnready = t]

\* Ticket t leaves the list it is in, whose head is the field tiready or tnready.
Unhooked(a, t, isready) ==
  LET p == a.prev[t]
      n == a.next[t]
      b == [a EXCEPT !.prev = IF n = NoTicket THEN @ ELSE [@ EXCEPT ![n] = p]]
  IN  IF p # NoTicket THEN [b EXCEPT !.next[p] = n, !.prev[t] = NoTicket]
      ELSE IF isready THEN [b EXCEPT !.tiready = n] ELSE [b EXCEPT !.tnready = n]

\* A receive moves its ticket to the front of the ready list; dt_prev of the ticket
\* that was there before is not set.
MadeReady(a, t) ==
  LET b == Unhooked(a, t, FALSE)
  IN  [b EXCEPT !.next[t] = b.tiready, !.tiready = t, !.ready = @ + 1, !.rd[t] = aduse.tracked]

\* A receive that failed takes its ticket back to the non-ready list.
MadeNonReady(a, t) ==
  [PushedNonReady(Unhooked(a, t, TRUE), t) EXCEPT !.ready = @ - 1, !.rd[t] = FALSE]

\* A sender moves the whole ready list to the front of the non-ready one.
AllNonReady(a) ==
  IF a.tiready = NoTicket THEN a
  ELSE LET z == LastOf(a, a.tiready)
       IN  [a EXCEPT !.next[z] = a.tnready,
                     !.prev = IF a.tnready = NoTicket THEN @ ELSE [@ EXCEPT ![a.tnready] = z],
                     !.tnready = a.tiready, !.tiready = NoTicket, !.ready = 0]

----------------------------------------------------------------------------
(* The chunks *)

ChunkAt(a, id) == CHOOSE i \in DOMAIN a.chunks : a.chunks[i].id = id

\* The chunk that follows chunk i.
NextChunk(a, i) == IF i < Len(a.chunks) THEN a.chunks[i + 1].id ELSE 0

\* One ticket less waits for the chunks I.
Dropped(a, I) ==
  [i \in DOMAIN a.chunks |->
     IF i \in I THEN [a.chunks[i] EXCEPT !.pending = @ - 1] ELSE a.chunks[i]]

Unwanted(c) == {i \in DOMAIN c : c[i].pending = 0}

\* Only chunks at the front may go, and those that nobody waits for do.
Kept(c) == SubSeq(c, Cardinality(Unwanted(c)) + 1, Len(c))
FrontOnly(c) == Unwanted(c) = 1 .. Cardinality(Unwanted(c))

----------------------------------------------------------------------------
(* Tickets *)

AdClosed == "nbdat" \in adsig.dead

\* Task t, which is in no call, makes call c.
AdCall(t, c) ==
  /\ adstop = ""
  /\ c \in aduse.calls
  /\ adsig.task[t].on = ""
  /\ adleft[t] > 0
  /\ adleft' = [adleft EXCEPT ![t] = @ - 1]

AdAssert(why) ==
  /\ adstop' = why
  /\ UNCHANGED <<ad, adsig, holds, last, disorder, gone, adsent, aduse>>

\* kaddist_genticket.
GenTicket(t) ==
  /\ adstop = ""
  /\ t \in aduse.readers \ holds
  /\ ~AdClosed
  /\ ad' = [PushedNonReady(ad, t) EXCEPT !.known = @ + 1, !.prev[t] = NoTicket,
                                         !.async[t] = 0, !.rd[t] = FALSE]
  /\ holds' = holds \cup {t}
  /\ last' = [last EXCEPT ![t] = adsent]
  /\ UNCHANGED <<adsig, disorder, gone, adsent, adleft, adstop, aduse>>

\* The assertions of kaddist_delticket: the ticket is not ready and heads its list
\* when it has no predecessor.
CannotDelete(t) ==
  \/ aduse.tracked /\ t \in Listed(ad, ad.tiready)
  \/ ad.known = ad.ready
  \/ (ad.prev[t] = NoTicket) # (t = ad.tnready)

\* The chunks ticket t has not received yet.
ToCome(t) == IF ad.async[t] = 0 THEN {} ELSE ChunkAt(ad, ad.async[t]) .. Len(ad.chunks)

\* kaddist_delticket.
DelTicket(t) ==
  /\ t \in holds
  /\ AdCall(t, "delticket")
  /\ LET c == Dropped(ad, ToCome(t))
     IN  IF CannotDelete(t) THEN AdAssert("delticket: ticket in use")
         ELSE IF ~FrontOnly(c) THEN AdAssert("delticket: non-front chunk")
         ELSE /\ ad' = [Unhooked(ad, t, FALSE) EXCEPT
                          !.known = @ - 1, !.prev[t] = NoTicket, !.next[t] = NoTicket,
                          !.async[t] = 0, !.chunks = Kept(c)]
              /\ holds' = holds \ {t}
              /\ UNCHANGED <<adsig, last, disorder, gone, adsent, adstop, aduse>>

----------------------------------------------------------------------------
(* Receiving *)

\* Ticket t received datum d.
Received(t, d) ==
  /\ last' = [last EXCEPT ![t] = d]
  /\ disorder' = IF last[t] < d /\ (last[t] + 1) .. (d - 1) \subseteq gone
                 THEN disorder ELSE disorder \cup {t}

\* Mutant: the newest chunk comes first.
TakeChunkNewest(t, w) ==
  LET i == ChunkAt(ad, ad.async[t])
      c == Dropped(ad, {i})
  IN  /\ FrontOnly(c)
      /\ ad' = [ad EXCEPT !.async[t] = NextChunk(ad, i), !.chunks = Kept(c)]
      /\ adsig' = w
      /\ Received(t, ad.chunks[Len(ad.chunks)].data)
      /\ UNCHANGED <<holds, gone, adsent, adstop, aduse>>

\* kaddist_vtryrecv_unlocked found a chunk for ticket t.
TakeChunk(t, w) ==
  LET i == ChunkAt(ad, ad.async[t])
      c == Dropped(ad, {i})
  IN  IF ~FrontOnly(c) THEN AdAssert("vtryrecv: non-front chunk")
      ELSE /\ ad' = [ad EXCEPT !.async[t] = NextChunk(ad, i), !.chunks = Kept(c)]
           /\ adsig' = w
           /\ Received(t, ad.chunks[i].data)
           /\ UNCHANGED <<holds, gone, adsent, adstop, aduse>>

\* The tracked build finds ticket t in the ready list, where it must not be.
StillReady(t) == aduse.tracked /\ t \in Listed(ad, ad.tiready)

\* kaddist_vrecv from 'again:' on: what is buffered comes first, then the ticket
\* becomes ready and its task sleeps.
RecvAgain(t, w, timed) ==
  IF AdClosed THEN adsig' = w /\ UNCHANGED <<ad, holds, last, disorder, gone, adsent,
                                             adstop, aduse>>
  ELSE IF StillReady(t) THEN AdAssert("vrecv: ticket used by blocking receive")
  ELSE IF ad.async[t] # 0 THEN TakeChunk(t, w)
  ELSE IF \/ ad.ready >= ad.known
          \/ (ad.prev[t] = NoTicket) # (t = ad.tnready)
          \/ ad.rd[t]
       THEN AdAssert("vrecv: ticket not in the non-ready list")
  ELSE /\ ad' = MadeReady(ad, t)
       /\ adsig' = VReceive(w, t, "nbdat", IF timed THEN "vtimedrecv" ELSE "vrecv")
       /\ UNCHANGED <<holds, last, disorder, gone, adsent, adstop, aduse>>

\* kaddist_vrecv, kaddist_vtimedrecv.
AdRecv(t) ==
  \E tm \in BOOLEAN :
    /\ t \in holds \cap aduse.blockers
    /\ AdCall(t, IF tm THEN "timedrecv" ELSE "recv")
    /\ RecvAgain(t, adsig, tm)

\* kaddist_vtryrecv.
AdTryRecv(t) ==
  /\ t \in holds
  /\ AdCall(t, "tryrecv")
  /\ ~AdClosed
  /\ IF StillReady(t) THEN AdAssert("vtryrecv: ticket used by blocking receive")
     ELSE /\ ad.async[t] # 0
          /\ TakeChunk(t, adsig)

\* The task of a receive runs again.  After KS_NODATA it starts over; after an error
\* it looks whether its ticket is still in the ready list.
AdWoken(t) ==
  /\ adstop = ""
  /\ adsig.task[t].on # "" /\ ~adsig.task[t].asleep
  /\ LET r == VResult(adsig, t)
         w == VReturn(adsig, t)
     IN  \/ r = "KS_NODATA" /\ RecvAgain(t, w, adsig.task[t].timed)
         \/ /\ r = "KE_OK"
            /\ ad' = [ad EXCEPT !.rd[t] = FALSE]
            /\ adsig' = w
            /\ Received(t, adsig.task[t].buf)
            /\ UNCHANGED <<holds, gone, adsent, adstop, aduse>>
         \/ /\ r \in {"KE_INTR", "KE_TIMEDOUT"}
            /\ t \notin Listed(ad, ad.tiready)
            /\ adsig' = w
            /\ UNCHANGED <<ad, holds, last, disorder, gone, adsent, adstop, aduse>>
         \/ /\ r \in {"KE_INTR", "KE_TIMEDOUT"}
            /\ t \in Listed(ad, ad.tiready)
            /\ IF (ad.prev[t] = NoTicket) # (t = ad.tiready)
               THEN AdAssert("vrecv: ticket does not head the ready list")
               ELSE /\ ad' = MadeNonReady(ad, t)
                    /\ adsig' = w
                    /\ UNCHANGED <<holds, last, disorder, gone, adsent, adstop, aduse>>
  /\ UNCHANGED adleft

----------------------------------------------------------------------------
(* Sending, from the interrupt handler of the keyboard *)

\* The send wakes the waiting tasks, as many as it counted.
Deliver(a, d, lose) ==
  /\ ad' = a
  /\ gone' = gone \cup lose
  /\ IF VCount(adsig, "nbdat") # Cardinality(VSlots(adsig, "nbdat"))
     THEN adstop' = "vsend: woke another number of tasks" /\ UNCHANGED adsig
     ELSE adsig' = VSendAll(adsig, "nbdat", d) /\ UNCHANGED adstop

\* The send gives the datum up.
GiveUp ==
  /\ gone' = gone \cup {adsent'}
  /\ UNCHANGED <<ad, adsig, adstop>>

StopSend(why) == adstop' = why /\ UNCHANGED <<ad, adsig, gone>>

Full == Len(ad.chunks) = aduse.max

\* A new chunk for datum d; with no room left the last chunk takes it.
Stored(a, d) ==
  IF Len(a.chunks) = aduse.max THEN [a EXCEPT !.chunks[Len(a.chunks)].data = d]
  ELSE [a EXCEPT !.chunks = Append(@, [id |-> a.made + 1, data |-> d, pending |-> 0]),
                 !.made = @ + 1]

\* The last chunk, for which n tickets will wait.
ForTickets(a, T, n) ==
  LET z == Len(a.chunks)
  IN  [a EXCEPT !.chunks[z].pending = n,
                !.async = [t \in AdTasks |->
                             IF t \in T /\ a.async[t] = 0 THEN a.chunks[z].id ELSE a.async[t]]]

\* The datum an overwritten chunk held.
Lost == IF Full THEN {ad.chunks[Len(ad.chunks)].data} ELSE {}

\* Everybody waits: nothing is buffered.
SendAllReady(d) ==
  IF ad.tiready = NoTicket THEN GiveUp
  ELSE Deliver(AllNonReady(ad), d, {})

\* Somebody does not wait.  The tickets in the non-ready list get a chunk.  If a task
\* sleeps for every ready ticket, the datum goes straight to those, whose tickets
\* stay where they are; if not, every ticket gets the chunk and the sleeping tasks
\* are woken to look for it.
SendBuffered(d, count) ==
  LET a == Stored(ad, d)
  IN  IF Cardinality(Listed(ad, ad.tnready)) # ad.known - ad.ready
      THEN StopSend("vsend: tickets that are in no list")
      ELSE IF ad.ready = count
      THEN Deliver(ForTickets(a, Listed(a, a.tnready), ad.known - count), d, Lost)
      ELSE IF \E t \in Listed(ad, ad.tiready) : ad.async[t] # 0
      THEN StopSend("vsend: chunk for a ready ticket")
      ELSE Deliver(AllNonReady(ForTickets(a, AdTasks, ad.known)), NoData, Lost)

\* kaddist_vsend.
AdSend ==
  /\ adstop = ""
  /\ adsent < aduse.sends
  /\ ~AdClosed
  /\ adsent' = adsent + 1
  /\ LET count == VCount(adsig, "nbdat")
     IN  \/ count > ad.ready /\ StopSend("vsend: recv_count <= ad_ready")
         \/ /\ count <= ad.ready /\ count = ad.known
            /\ SendAllReady(adsent')
         \/ /\ count <= ad.ready /\ count # ad.known
            /\ Full /\ ad.chunks = <<>>
            /\ IF ad.ready = count THEN Deliver(ad, adsent', {adsent'}) ELSE GiveUp
         \/ /\ count <= ad.ready /\ count # ad.known
            /\ ~(Full /\ ad.chunks = <<>>)
            /\ SendBuffered(adsent', count)
         \/ /\ count <= ad.ready /\ count # ad.known
            /\ ~Full /\ aduse.nomem
            /\ GiveUp
  /\ UNCHANGED <<holds, last, disorder, adleft, aduse>>

\* kaddist_close and kaddist_reset: the signal's alone.
AdClose(t) ==
  /\ AdCall(t, "close")
  /\ ~AdClosed
  /\ adsig' = VClose(adsig, "nbdat")
  /\ UNCHANGED <<ad, holds, last, disorder, gone, adsent, adstop, aduse>>

AdReset(t) ==
  /\ AdCall(t, "reset")
  /\ AdClosed
  /\ adsig' = VReset(adsig, "nbdat")
  /\ UNCHANGED <<ad, holds, last, disorder, gone, adsent, adstop, aduse>>

\* A timeout passes; a waiting task is interrupted.
AdDisturb(t) ==
  /\ adstop = ""
  /\ adsig.task[t].on # ""
  /\ \/ adsig.task[t].asleep /\ adsig.task[t].timed /\ adsig' = VTimer(adsig, t)
     \/ aduse.intr /\ ~adsig.task[t].intr /\ adsig' = VInterrupt(adsig, t)
  /\ UNCHANGED <<ad, holds, last, disorder, gone, adsent, adleft, adstop, aduse>>

AdNext ==
  \/ AdSend
  \/ \E t \in AdTasks :
       \/ GenTicket(t) \/ DelTicket(t) \/ AdRecv(t) \/ AdTryRecv(t) \/ AdWoken(t)
       \/ AdClose(t) \/ AdReset(t) \/ AdDisturb(t)

----------------------------------------------------------------------------
\* The uses the distributor stands: one ticket, or tickets of which none is ever
\* ready, without timeouts and closing, and no interrupts in the tracked build.
Served ==
  /\ Cardinality(aduse.readers) = 1 \/ aduse.blockers = {}
  /\ {"timedrecv", "close"} \cap aduse.calls = {}
  /\ aduse.intr => ~aduse.tracked

\* No assertion of the distributor fails, whatever the order in which tickets come
\* and go, data is sent and receives are interrupted.
AdNoAssert == Served => adstop = ""

\* "Correct order of data is still guarantied" (addist.h): every ticket receives the
\* data sent since it was made in order, none of it twice and all of it but what
\* the full buffer lost.  (A receive that was interrupted, or whose timeout passed,
\* may already have been given a datum, which is lost.)
AdOrder == ~aduse.intr /\ "timedrecv" \notin aduse.calls => disorder = {}

\* sd_pending is the "Amount of tickets pending to receive this chunk": it is the
\* number of tickets that will still come to the chunk, and a chunk nobody will
\* come to is freed.
ChunksCounted ==
  adstop = "" =>
  \A i \in DOMAIN ad.chunks :
    /\ ad.chunks[i].pending = Cardinality({t \in holds : i \in ToCome(t)})
    /\ ad.chunks[i].pending > 0

\* A ticket is in the list that tells what it gets: in the ready one exactly while
\* its task is in a receive that no sender has dealt with, otherwise in the other;
\* ad_ready and ad_known count them.
TicketsListed ==
  Served =>
  /\ Listed(ad, ad.tiready) \cup Listed(ad, ad.tnready) = holds
  /\ Listed(ad, ad.tiready) \cap Listed(ad, ad.tnready) = {}
  /\ ad.ready = Cardinality(Listed(ad, ad.tiready))
  /\ ad.known = Cardinality(holds)
  /\ \A t \in Listed(ad, ad.tiready) :
       adsig.task[t].on = "nbdat" /\ (adsig.task[t].asleep \/ adsig.task[t].intr)

\* Chunks, tickets, lists and counters agree, so that data arrives in order.
AdSound == AdNoAssert /\ AdOrder /\ ChunksCounted /\ TicketsListed
=============================================================================
