------------------------------- MODULE IOBuf --------------------------------
(***************************************************************************)
(* The kernel's I/O buffer, on which pipes and pseudo terminals are built: *)
(* include/kos/kernel/iobuf.h, src/kernel/iobuf.c, iobuf-readimpl.c.inl    *)
(* and iobuf-writeimpl.c.inl.                                              *)
(*                                                                         *)
(* The ring is a function from indices to bytes, ib_rpos and ib_wpos are   *)
(* indices into it.  Bytes are numbered in the order in which writers hand *)
(* them in; 0 is memory nobody wrote.                                      *)
(*                                                                         *)
(* ib_rwlock is used by its contract (RWLock): any number of readers or    *)
(* one writer, and krwlock_upgrade gives the read lock up when there is    *)
(* another reader.  A stretch of code under the write lock is one step.    *)
(* Under the read lock ib_rpos can change, so a read is two: the copy out  *)
(* of the ring, and the move of ib_rpos.                                   *)
(***************************************************************************)
EXTENDS Integers, Sequences, FiniteSets, SequencesExt

CONSTANTS IbTasks,   \* the tasks
          NoIb,      \* no task
          IbMax,     \* the largest ib_maxsize
          MaxBytes,  \* how many bytes writers hand in
          IbUses     \* the ways tasks use the buffer

IbCalls == {"read", "peek", "quick", "write", "fault", "discard", "flush", "reserve",
            "interrupt", "unread", "unwrite", "setmaxsize", "close", "reset"}

IbModes == {"none", "first", "all"}

ASSUME IbAssumption ==
  /\ NoIb \notin IbTasks
  /\ \A u \in IbUses :
       /\ u.calls \subseteq IbCalls
       /\ u.readers \subseteq IbTasks /\ u.writers \subseteq IbTasks
       /\ u.rmodes \subseteq IbModes /\ u.wmodes \subseteq IbModes
       /\ u.rsizes \subseteq Nat \ {0} /\ u.wsizes \subseteq Nat \ {0}
       /\ u.size \in 0 .. IbMax

VARIABLES
  ib,       \* ib_size, ib_maxsize, ib_rpos, ib_wpos and the memory of the ring
  ib_intr,  \* KIOBUF_FLAG_INTR_BLOCKFIRST
  rdl,      \* how many read locks of ib_rwlock each task holds
  wrl,      \* the task that holds the write lock
  shut,     \* ib_rwlock and the signals are closed
  op,       \* the call each task is in the middle of
  ibsent,   \* how many bytes were copied into the ring
  ibfault,  \* why the kernel stopped
  ibuse

ibvars == <<ib, ib_intr, rdl, wrl, shut, op, ibsent, ibfault, ibuse>>

Ring == 0 .. IbMax - 1

Smaller(a, b) == IF a < b THEN a ELSE b

NoOp == [pc |-> "idle", call |-> "none", mode |-> "none", size |-> 0, left |-> 0,
         did |-> 0, got |-> <<>>, start |-> 0, pos |-> 0, end |-> 0, full |-> FALSE]

IbPcs == {"idle", "read", "copied", "upgrade", "intr", "avail", "write", "nfull"}

\* The types of the variables.
IbTypeOK ==
  /\ ib.size \in 0 .. IbMax /\ ib.max \in 0 .. IbMax
  /\ ib.rpos \in 0 .. 2 * IbMax /\ ib.wpos \in 0 .. 2 * IbMax
  /\ ib.data \in [Ring -> 0 .. MaxBytes]
  /\ ib_intr \in BOOLEAN /\ shut \in BOOLEAN
  /\ rdl \in [IbTasks -> Nat] /\ wrl \in IbTasks \cup {NoIb}
  /\ \A t \in IbTasks : op[t].pc \in IbPcs /\ op[t].mode \in IbModes
  /\ ibsent \in 0 .. MaxBytes
  /\ ibfault \in {"none", "assert", "wild"}
  /\ ibuse \in IbUses

\* A buffer that was never written to, or one of ib_maxsize bytes that is empty.
IbInit ==
  /\ ibuse \in IbUses
  /\ ib = [size |-> ibuse.size, max |-> IbMax, rpos |-> ibuse.size, wpos |-> 0,
           data |-> [i \in Ring |-> 0]]
  /\ ib_intr = FALSE
  /\ rdl = [t \in IbTasks |-> 0]
  /\ wrl = NoIb
  /\ shut = FALSE
  /\ op = [t \in IbTasks |-> NoOp]
  /\ ibsent = 0
  /\ ibfault = "none"

maxread(b, rpos) ==
  IF rpos < b.wpos THEN b.wpos - rpos ELSE b.size - (rpos - b.wpos)

maxwrite(b, rpos) ==
  IF rpos >= b.wpos THEN rpos - b.wpos ELSE b.size - (b.wpos - rpos)

\* The assertions every call makes of the two positions.
Within(b) == b.rpos \in 0 .. b.size /\ b.wpos \in 0 .. b.size

\* n bytes of the ring from index i on
Slice(b, i, n) == [k \in 1 .. n |-> b.data[i + k - 1]]

\* The ring after n fresh bytes were copied to index i
Filled(b, i, n, from) ==
  [b EXCEPT !.data = [k \in Ring |-> IF k \in i .. i + n - 1 THEN from + (k - i) + 1
                                     ELSE @[k]]]
-----------------------------------------------------------------------------
(* The lock, and the frame of the calls.                                   *)

CanRead == wrl = NoIb

CanWrite == wrl = NoIb /\ \A t \in IbTasks : rdl[t] = 0

\* The task is the only reader.
Alone(t) == rdl[t] = 1 /\ \A u \in IbTasks \ {t} : rdl[u] = 0

AtPc(t, pc) == ibfault = "none" /\ op[t].pc = pc

\* ksignal_sendall: the tasks waiting on a signal go on
Woken(o, pc, next) == [t \in IbTasks |-> IF o[t].pc = pc THEN [o[t] EXCEPT !.pc = next] ELSE o[t]]

WakeReaders(o) == Woken(o, "avail", "read")

WakeWriters(o) == Woken(o, "nfull", "write")

IbReturn(t, got) == [op EXCEPT ![t] = [NoOp EXCEPT !.got = got]]

IbFail(why) ==
  /\ ibfault' = why
  /\ UNCHANGED <<ib, ib_intr, rdl, wrl, shut, op, ibsent, ibuse>>

\* A call that finds the lock closed returns KE_DESTROYED.
Destroyed(t) ==
  /\ ibfault = "none"
  /\ op[t].pc \in {"read", "upgrade", "intr", "avail", "write", "nfull"}
  /\ shut
  /\ op' = IbReturn(t, <<>>)
  /\ UNCHANGED <<ib, ib_intr, rdl, wrl, shut, ibsent, ibfault, ibuse>>
-----------------------------------------------------------------------------
(* __kiobuf_read_c, __kiobuf_user_read_c_impl and __kiobuf_skip_c          *)

ReadCall(t, c, m, n) ==
  /\ AtPc(t, "idle")
  /\ c \in ibuse.calls /\ t \in ibuse.readers
  /\ op' = [op EXCEPT ![t] = [NoOp EXCEPT !.pc = "read", !.call = c, !.mode = m,
                                          !.size = n, !.left = n]]
  /\ UNCHANGED <<ib, ib_intr, rdl, wrl, shut, ibsent, ibfault, ibuse>>

\* What a reader copies out of the ring from rpos on: up to the end of the ring
\* and, if it wraps, from its beginning.  "more": the ring ran empty first.
Copy(b, rpos, n) ==
  LET up  == Smaller(Smaller(maxread(b, rpos), b.size - rpos), n)
      pos == rpos + up
      low == Smaller(b.wpos, n - up)
  IN IF up = n \/ pos = b.wpos
     THEN [got |-> Slice(b, rpos, up), pos |-> pos, more |-> FALSE]
     ELSE [got |-> Slice(b, rpos, up) \o Slice(b, 0, low), pos |-> low,
           more |-> low # n - up]

\* ksignal_recvc(&ib_avail,krwlock_endread(..))
AwaitData(t, got, left) ==
  /\ op' = [op EXCEPT ![t].pc = "avail", ![t].got = got, ![t].left = left]
  /\ UNCHANGED <<ib, ib_intr, rdl, wrl, shut, ibsent, ibfault, ibuse>>

\* handle_intr: the flag is cleared under the write lock
Interrupted(t) ==
  IF \A u \in IbTasks : rdl[u] = 0
  THEN /\ ib_intr' = FALSE
       /\ op' = IbReturn(t, <<>>)
       /\ UNCHANGED <<ib, rdl, wrl, shut, ibsent, ibfault, ibuse>>
  ELSE /\ op' = [op EXCEPT ![t].pc = "intr"]
       /\ UNCHANGED <<ib, ib_intr, rdl, wrl, shut, ibsent, ibfault, ibuse>>

\* From krwlock_beginread to the copy.  A read that was told not to block and
\* finds nothing compares bufend, which it has not initialized, in an assertion.
ReadCopy(t) ==
  /\ AtPc(t, "read")
  /\ ~shut
  /\ CanRead
  /\ LET o == op[t]
         c == Copy(ib, ib.rpos, o.left)
         got == o.got \o c.got
     IN IF ~Within(ib)
        THEN IbFail("assert")
        ELSE IF o.mode = "first" /\ ib_intr
        THEN Interrupted(t)
        ELSE IF maxread(ib, ib.rpos) = 0
        THEN IF o.mode = "none"
             THEN \/ IbFail("assert")
                  \/ /\ op' = IbReturn(t, <<>>)
                     /\ UNCHANGED <<ib, ib_intr, rdl, wrl, shut, ibsent, ibfault, ibuse>>
             ELSE AwaitData(t, o.got, o.left)
        ELSE IF c.more /\ o.mode = "all"
        THEN AwaitData(t, got, o.left - Len(c.got))
        ELSE /\ rdl' = [rdl EXCEPT ![t] = @ + 1]
             /\ op' = [op EXCEPT ![t].pc = "copied", ![t].got = got,
                                 ![t].start = ib.rpos, ![t].pos = c.pos,
                                 ![t].end = ib.size]
             /\ UNCHANGED <<ib, ib_intr, wrl, shut, ibsent, ibfault, ibuse>>

\* copy_to_user fails: KE_FAULT, and ib_rpos stays.
ReadFault(t) ==
  /\ AtPc(t, "read")
  /\ "fault" \in ibuse.calls
  /\ ~shut
  /\ CanRead
  /\ Within(ib) /\ maxread(ib, ib.rpos) > 0
  /\ op' = IbReturn(t, <<>>)
  /\ UNCHANGED <<ib, ib_intr, rdl, wrl, shut, ibsent, ibfault, ibuse>>

\* The upgrade for an interrupt has the write lock.  KS_UNLOCKED makes it look
\* at the flag again, KS_BLOCKING does not.
IntrUpgraded(t) ==
  /\ AtPc(t, "intr")
  /\ ~shut
  /\ CanWrite
  /\ \E unlocked \in BOOLEAN :
       IF unlocked /\ ~ib_intr
       THEN /\ op' = [op EXCEPT ![t].pc = "read"]
            /\ UNCHANGED ib_intr
       ELSE /\ ib_intr' = FALSE
            /\ op' = IbReturn(t, <<>>)
  /\ UNCHANGED <<ib, rdl, wrl, shut, ibsent, ibfault, ibuse>>

\* Mutant: a ring that is full from its first byte is not noticed.
WasFullUpper(b, start) == start = b.wpos

\* buffer_was_full
WasFull(b, start) == start = b.wpos \/ (start = 0 /\ b.wpos = b.size)

\* again_full: the call starts over
Restart(t) ==
  [op EXCEPT ![t].pc = "read", ![t].got = <<>>, ![t].left = op[t].size]

\* Mutant: the empty ring gets the positions of a full one.
EmptiedAtBegin(t, full) ==
  /\ ib' = [ib EXCEPT !.rpos = 0, !.wpos = 0]
  /\ op' = IF full THEN WakeWriters(IbReturn(t, op[t].got)) ELSE IbReturn(t, op[t].got)

\* The buffer became empty: the special positions under the write lock.
Emptied(t, full) ==
  /\ ib' = [ib EXCEPT !.rpos = ib.size, !.wpos = 0]
  /\ op' = IF full THEN WakeWriters(IbReturn(t, op[t].got)) ELSE IbReturn(t, op[t].got)

\* end_rpos: KIO_PEEK leaves the buffer alone.
PeekDone(t) ==
  /\ AtPc(t, "copied")
  /\ op[t].call = "peek"
  /\ op' = IbReturn(t, op[t].got)
  /\ rdl' = [rdl EXCEPT ![t] = @ - 1]
  /\ UNCHANGED <<ib, ib_intr, wrl, shut, ibsent, ibfault, ibuse>>

\* end_rpos: a read that took the last byte needs the write lock.
ReadLast(t) ==
  /\ AtPc(t, "copied")
  /\ op[t].call # "peek"
  /\ op[t].pos = ib.wpos
  /\ rdl' = [rdl EXCEPT ![t] = @ - 1]
  /\ IF Alone(t)
     THEN Emptied(t, WasFull(ib, op[t].start))
     ELSE /\ op' = [op EXCEPT ![t].pc = "upgrade", ![t].full = WasFull(ib, op[t].start)]
          /\ UNCHANGED ib
  /\ UNCHANGED <<ib_intr, wrl, shut, ibsent, ibfault, ibuse>>

\* end_rpos: any other read moves ib_rpos by compare-and-exchange.  A reader that
\* lost the race starts over with the read lock still held.
ReadCommit(t) ==
  /\ AtPc(t, "copied")
  /\ op[t].call # "peek"
  /\ op[t].pos # ib.wpos
  /\ LET o == op[t]
         won == ib.rpos = o.start
     IN IF ~won /\ o.call # "quick"
        THEN op' = Restart(t) /\ UNCHANGED <<ib, rdl>>
        ELSE /\ ib' = IF won THEN [ib EXCEPT !.rpos = o.pos] ELSE ib
             /\ op' = IF WasFull(ib, o.start) THEN WakeWriters(IbReturn(t, o.got))
                      ELSE IbReturn(t, o.got)
             /\ rdl' = [rdl EXCEPT ![t] = @ - 1]
  /\ UNCHANGED <<ib_intr, wrl, shut, ibsent, ibfault, ibuse>>

\* krwlock_upgrade has returned with the write lock: only KS_UNLOCKED, and not
\* KS_BLOCKING, makes the reader look whether the buffer is still the same.
ReadUpgraded(t) ==
  /\ AtPc(t, "upgrade")
  /\ ~shut
  /\ CanWrite
  /\ \E unlocked \in BOOLEAN :
       IF unlocked /\ (ib.rpos # op[t].start \/ ib.wpos # op[t].pos)
       THEN /\ op' = Restart(t)
            /\ UNCHANGED <<ib, ib_intr, rdl, wrl, shut, ibsent, ibfault, ibuse>>
       ELSE IF op[t].end # ib.size
       THEN IbFail("assert")
       ELSE /\ Emptied(t, op[t].full)
            /\ UNCHANGED <<ib_intr, rdl, wrl, shut, ibsent, ibfault, ibuse>>
-----------------------------------------------------------------------------
(* __kiobuf_write_c and __kiobuf_user_write_c_impl                         *)

WriteCall(t, m, n) ==
  /\ AtPc(t, "idle")
  /\ "write" \in ibuse.calls /\ t \in ibuse.writers
  /\ op' = [op EXCEPT ![t] = [NoOp EXCEPT !.pc = "write", !.call = "write",
                                          !.mode = m, !.size = n, !.left = n]]
  /\ UNCHANGED <<ib, ib_intr, rdl, wrl, shut, ibsent, ibfault, ibuse>>

\* The ring is made larger by realloc: the positions stay where they are, apart
\* from the ib_rpos of an empty buffer.
Enlarged(b, size) ==
  [b EXCEPT !.size = size,
            !.rpos = IF b.rpos = b.size /\ b.size # 0 THEN size ELSE @]

\* The loop of a write that has the lock, with n bytes to go and did bytes done.
\* how: "ok" or "end" return, "wait" waits for room, "fault" is a copy from user
\* memory that failed.  mw is max_write; up and low are the parts whose copy
\* fails, mem is whether realloc succeeds; base + did bytes were sent so far.
RECURSIVE Fill(_, _, _, _, _, _)
Fill(b, n, did, mw, mode, world) ==
  LET size == Smaller(b.size + (n - mw), b.max)
      grow == mw < n /\ size # b.size
      c    == IF grow THEN Enlarged(b, size) ELSE b
      room == IF c.rpos > c.wpos THEN Smaller(c.size - c.wpos, c.rpos - c.wpos)
              ELSE c.size - c.wpos
      up   == Smaller(room, n)
      d    == [Filled(c, c.wpos, up, world.base + did) EXCEPT !.wpos = c.wpos + up]
      low  == Smaller(d.rpos, n - up)
      e    == [Filled(d, 0, low, world.base + did + up) EXCEPT !.wpos = low]
      Out(x, m, how) == [b |-> x, left |-> n - m, did |-> did + m, how |-> how]
      \* buffer_is_full
      Full(x, m, w) ==
        IF mode # "none" /\ x.size = x.max
        THEN Out(x, m, IF did + m > 0 /\ mode = "first" THEN "end" ELSE "wait")
        ELSE Fill(x, n - m, did + m, w, mode, world)
  IN IF grow /\ ~world.mem
     THEN Out(b, 0, "end")
     ELSE IF mw < n /\ ~grow /\ mw = 0
     THEN Out(b, 0, "end")
     ELSE IF world.fault = "up"
     THEN Out(c, 0, "fault")
     ELSE IF up = n
     THEN Out(d, up, "ok")
     ELSE IF d.wpos # d.size \/ d.rpos = 0
     THEN Full(d, up, 0)
     ELSE IF world.fault = "low"
     THEN Out(d, up, "fault")
     ELSE IF low = n - up
     THEN Out(e, up + low, "ok")
     ELSE Full(e, up + low, low)

\* Under the write lock: from krwlock_beginwrite to the return or to the wait.
\* Only a return passes "end", where ib_rpos is wrapped and readers are woken.
WriteRun(t) ==
  /\ AtPc(t, "write")
  /\ ~shut
  /\ CanWrite
  /\ LET o  == op[t]
         mw == maxwrite(ib, ib.rpos)
     IN IF ~Within(ib) \/ ib.size > ib.max
        THEN IbFail("assert")
        ELSE \E world \in [mem : IF "fault" \in ibuse.calls THEN BOOLEAN ELSE {TRUE},
                           fault : IF "fault" \in ibuse.calls THEN {"no", "up", "low"}
                                   ELSE {"no"},
                           base : {ibsent - o.did}] :
          LET f == IF mw = 0 /\ o.mode # "none" /\ ib.size = ib.max
                   THEN [b |-> ib, left |-> o.left, did |-> o.did,
                         how |-> IF o.did > 0 /\ o.mode = "first" THEN "end" ELSE "wait"]
                   ELSE Fill(ib, o.left, o.did, mw, o.mode, world)
              wrapped == [f.b EXCEPT !.rpos = IF @ = f.b.size THEN 0 ELSE @]
              back == f.how # "fault" /\ f.how # "wait" /\ f.did > 0
          IN /\ ibsent + (f.did - o.did) <= MaxBytes
             /\ ibsent' = ibsent + (f.did - o.did)
             /\ ib' = IF back THEN wrapped ELSE f.b
             /\ op' = IF f.how = "wait"
                      THEN [op EXCEPT ![t].pc = "nfull", ![t].left = f.left, ![t].did = f.did]
                      ELSE IF back THEN WakeReaders(IbReturn(t, <<>>)) ELSE IbReturn(t, <<>>)
             /\ UNCHANGED <<ib_intr, rdl, wrl, shut, ibfault, ibuse>>
-----------------------------------------------------------------------------
(* The calls that are one step under the write lock.                       *)

Locked(t, c) ==
  /\ AtPc(t, "idle") /\ t \in ibuse.writers
  /\ c \in ibuse.calls
  /\ ~shut
  /\ CanWrite

Changes(b) ==
  /\ ib' = b
  /\ UNCHANGED <<ib_intr, rdl, wrl, shut, op, ibsent, ibfault, ibuse>>

Discard(t) ==
  Locked(t, "discard") /\ Changes([ib EXCEPT !.wpos = 0, !.rpos = ib.size])

\* The ring is cut down to the unread bytes before they are moved to its begin.
Flush(t) ==
  /\ Locked(t, "flush")
  /\ LET n == maxread(ib, ib.rpos)
         r == ib.rpos
     IN /\ n # ib.size
        /\ IF n = 0
           THEN Changes([ib EXCEPT !.size = 0, !.rpos = 0, !.wpos = 0])
           ELSE IF r > n
           THEN IbFail("wild")
           ELSE Changes([ib EXCEPT !.size = n, !.rpos = 0, !.wpos = n,
                           !.data = [k \in Ring |-> IF k < n - r THEN @[k + r]
                                                    ELSE IF k < n THEN @[k] ELSE 0]])

Reserve(t, n) ==
  /\ Locked(t, "reserve")
  /\ LET size == Smaller(ib.size + n, ib.max) IN
     IF size < ib.size THEN IbFail("assert") ELSE Changes([ib EXCEPT !.size = size])

Interrupt(t) ==
  /\ Locked(t, "interrupt")
  /\ ib_intr' = TRUE
  /\ op' = WakeReaders(op)
  /\ UNCHANGED <<ib, rdl, wrl, shut, ibsent, ibfault, ibuse>>

\* The write lock is never released.
Unread(t, n) ==
  /\ Locked(t, "unread")
  /\ LET m == Smaller(n, maxwrite(ib, ib.rpos))
         r == IF ib.rpos > ib.wpos \/ ib.rpos <= m THEN ib.rpos - m
              ELSE ib.size - (m - ib.rpos)
     IN IF m > 0 /\ r < 0
        THEN IbFail("assert")
        ELSE /\ ib' = IF m > 0 THEN [ib EXCEPT !.rpos = r] ELSE ib
             /\ wrl' = t
             /\ UNCHANGED <<ib_intr, rdl, shut, op, ibsent, ibfault, ibuse>>

Unwrite(t, n) ==
  /\ Locked(t, "unwrite")
  /\ LET all == maxread(ib, ib.rpos)
         m == Smaller(n, all)
         w == IF ib.rpos < ib.wpos \/ ib.wpos <= m THEN ib.wpos - m
              ELSE ib.size - (m - ib.wpos)
     IN /\ m > 0
        /\ IF m = all
           THEN Changes([ib EXCEPT !.wpos = 0, !.rpos = ib.size])
           ELSE IF w < 0 THEN IbFail("assert") ELSE Changes([ib EXCEPT !.wpos = w])

SetMaxSize(t, n) == Locked(t, "setmaxsize") /\ Changes([ib EXCEPT !.max = n])

\* kiobuf_close: the waiting calls return KE_DESTROYED
Close(t) ==
  /\ Locked(t, "close")
  /\ shut' = TRUE
  /\ ib' = [ib EXCEPT !.size = 0, !.rpos = 0, !.wpos = 0]
  /\ UNCHANGED <<ib_intr, rdl, wrl, op, ibsent, ibfault, ibuse>>

\* kiobuf_reset; the calls that were waiting have returned before
Reset(t) ==
  /\ AtPc(t, "idle") /\ t \in ibuse.writers
  /\ "reset" \in ibuse.calls
  /\ shut
  /\ \A u \in IbTasks : op[u].pc = "idle"
  /\ shut' = FALSE
  /\ UNCHANGED <<ib, ib_intr, rdl, wrl, op, ibsent, ibfault, ibuse>>
-----------------------------------------------------------------------------
IbNext ==
  \E t \in IbTasks :
    \/ \E c \in {"read", "peek", "quick"}, m \in ibuse.rmodes, n \in ibuse.rsizes :
         ReadCall(t, c, m, n)
    \/ ReadCopy(t) \/ ReadFault(t) \/ IntrUpgraded(t) \/ PeekDone(t) \/ ReadLast(t) \/ ReadCommit(t)
    \/ ReadUpgraded(t)
    \/ \E m \in ibuse.wmodes, n \in ibuse.wsizes : WriteCall(t, m, n)
    \/ WriteRun(t)
    \/ Destroyed(t)
    \/ Discard(t) \/ Flush(t) \/ Interrupt(t) \/ Close(t) \/ Reset(t)
    \/ \E n \in 1 .. IbMax :
         Reserve(t, n) \/ Unread(t, n) \/ Unwrite(t, n) \/ SetMaxSize(t, n)

IbSpec == IbInit /\ [][IbNext]_ibvars
-----------------------------------------------------------------------------
(* One reader at a time.  The ring has its final size, so it never grows   *)
(* while its contents wrap around its end; and either bytes are written    *)
(* one by one, or no write is larger than the ring and every read takes    *)
(* all there is, so a write never runs past the unread bytes.              *)
Queueing ==
  /\ Cardinality(ibuse.readers) <= 1
  /\ ibuse.size = IbMax
  /\ ibuse.calls \subseteq {"read", "peek", "write", "discard", "interrupt", "close"}
  /\ "all" \notin ibuse.rmodes
  /\ \/ ibuse.wsizes = {1}
     \/ (\A n \in ibuse.wsizes : n <= IbMax) /\ (\A n \in ibuse.rsizes : n >= IbMax)

Contents(b) ==
  IF b.size = 0 THEN <<>>
  ELSE [k \in 1 .. maxread(b, b.rpos) |-> b.data[(b.rpos + k - 1) % b.size]]

Queue == INSTANCE ByteQueue WITH
  queue <- Contents(ib), sent <- ibsent,
  out <- [t \in IbTasks |-> IF op[t].pc = "idle" THEN op[t].got ELSE <<>>]

\* The ring implements a queue of bytes: every byte a write accepts is returned
\* by one read, in order, whatever the positions of the two ends.
IbImplementsQueue ==
  Queue!QInit /\ [][Queueing => Queue!QNext]_<<ib, op, ibsent>>

\* A task that is in no call holds no lock of the buffer, as long as there is
\* one reader and nobody calls kiobuf_unread.
LocksReleased ==
  Cardinality(ibuse.readers) <= 1 /\ "unread" \notin ibuse.calls =>
    /\ wrl = NoIb
    /\ \A t \in IbTasks : rdl[t] = (IF op[t].pc = "copied" THEN 1 ELSE 0)

\* A task waits for data only while there is none, and for room only while the
\* ring is full: no step that ends the wait leaves out the wakeup.
NoStuckTask ==
  Queueing /\ "discard" \notin ibuse.calls /\ ibfault = "none" /\ ~shut =>
    \A t \in IbTasks :
      /\ op[t].pc = "avail" => maxread(ib, ib.rpos) = 0
      /\ op[t].pc = "nfull" => maxwrite(ib, ib.rpos) = 0

\* No call leaves a lock behind or a task asleep that could go on.
IbSound == IbTypeOK /\ LocksReleased /\ NoStuckTask
=============================================================================
