----------------------------- MODULE PageFrame ------------------------------
(***************************************************************************)
(* The physical page allocator: src/kernel/pageframe.c and                 *)
(* pageframe-alloc.c.inl.                                                  *)
(*                                                                         *)
(* Free memory is a doubly linked list of regions, sorted by address.  The *)
(* header of a region lies in its first page: hdr maps every frame to the  *)
(* header stored in it.  Every call walks the list under kpagealloc_lockno *)
(* and one iteration of its loop is one step, so what each loop may assume *)
(* about the part of the list behind it is an invariant here.  A page that *)
(* starts no region holds no header the allocator reads: NoHdr.            *)
(*                                                                         *)
(* pfuse says what the callers call and whether assert() is compiled in.   *)
(***************************************************************************)
EXTENDS Integers, FiniteSets

CONSTANTS PfThreads,  \* the callers
          NoThread,   \* nobody: kpagealloc_lockno is free
          PageCount,  \* the frames are 0 .. PageCount - 1
          MaxRun,     \* the most pages one call asks for
          CountMod,   \* total_allocated_pages is a size_t: arithmetic modulo this
          PfUses      \* the ways callers use the allocator

\* PAGENIL
NIL == -1

\* The frames, and the address behind the last one that allocat may write.
Frames == 0 .. PageCount

Blocks == [start : 0 .. PageCount - 1, n : 1 .. PageCount]

Run(b) == b.start .. (b.start + b.n - 1)

\* The number of pages in a set of blocks.
Pages(S) == Cardinality(UNION {Run(b) : b \in S})

Disjoint(S) == \A b, c \in S : b # c => Run(b) \cap Run(c) = {}

PfCalls == {"alloc", "one", "try", "at", "free", "resize"}

\* Frame 0 is NULL, which kpageframe_free refuses; the RAM handed over at boot
\* is made of separate regions.
ASSUME PfAssumption ==
  /\ PageCount \in Nat \ {0}
  /\ MaxRun \in Nat \ {0}
  /\ CountMod \in Nat \ {0}
  /\ NoThread \notin PfThreads
  /\ \A u \in PfUses :
       /\ u.calls \subseteq PfCalls
       /\ u.asserts \in BOOLEAN
       /\ u.given \subseteq Blocks
       /\ u.at \subseteq Blocks
       /\ Disjoint(u.given)
       /\ \A b \in u.given : b.start > 0 /\ b.start + b.n <= PageCount

VARIABLES
  first_free_page,       \* the first region of the list
  hdr,                   \* pff_size, pff_prev and pff_next in each frame
  pflock,                \* who holds kpagealloc_lockno
  call,                  \* the call each thread is in the middle of
  blocks,                \* the runs of pages callers own
  total_allocated_pages,
  refused,               \* what the last finished call was refused, 0 for nothing
  pffault,               \* why the kernel stopped: an assertion or a wild read
  pfuse

pfvars == <<first_free_page, hdr, pflock, call, blocks, total_allocated_pages,
            refused, pffault, pfuse>>

NoHdr == [size |-> -1, prev |-> NIL, next |-> NIL]

Links == Frames \cup {NIL}

Hdrs == [size : Int, prev : Links, next : Links]

NoBlock == [start |-> NIL, n |-> 0]

PfIdle == [pc |-> "idle", n |-> 0, start |-> NIL, iter |-> NIL, winner |-> NIL,
         grow |-> NoBlock]

PfPcs == {"idle", "alloc", "try", "tail", "at", "free"}

Calls == [pc : PfPcs, n : Nat, start : Links, iter : Links, winner : Links,
          grow : Blocks \cup {NoBlock}]

\* The types of the variables.
PfTypeOK ==
  /\ first_free_page \in Links
  /\ hdr \in [Frames -> Hdrs]
  /\ pflock \in PfThreads \cup {NoThread}
  /\ call \in [PfThreads -> Calls]
  /\ blocks \subseteq Blocks
  /\ total_allocated_pages \in 0 .. CountMod - 1
  /\ refused \in 0 .. MaxRun
  /\ pffault \in {"none", "assert", "wild"}
  /\ pfuse \in PfUses

\* Boot starts with an empty list, all RAM being owned by the boot code that
\* hands it over with kpageframe_free.
PfInit ==
  /\ pfuse \in PfUses
  /\ first_free_page = NIL
  /\ hdr = [p \in Frames |-> NoHdr]
  /\ pflock = NoThread
  /\ call = [t \in PfThreads |-> PfIdle]
  /\ blocks = pfuse.given
  /\ total_allocated_pages = 0
  /\ refused = 0
  /\ pffault = "none"

Heads == {p \in Frames : hdr[p] # NoHdr}

Region(p) == p .. (p + hdr[p].size - 1)

FreeFrames == UNION {Region(p) : p \in Heads}
-----------------------------------------------------------------------------
(* The list as a value, and the assignments to its links.                  *)

List == [first |-> first_free_page, hdr |-> hdr]

\* "if (p != PAGENIL) p->pff_next = x; else first_free_page = x"
WithNext(l, p, x) ==
  IF p = NIL THEN [l EXCEPT !.first = x] ELSE [l EXCEPT !.hdr[p].next = x]

\* "if (p != PAGENIL) p->pff_prev = x"
WithPrev(l, p, x) == IF p = NIL THEN l ELSE [l EXCEPT !.hdr[p].prev = x]

WithHdr(l, p, h) == [l EXCEPT !.hdr[p] = h]

Header(size, prev, next) == [size |-> size, prev |-> prev, next |-> next]

\* Mutant: the next region keeps its pff_prev.
UnlinkedForward(l, i) ==
  LET h == l.hdr[i] IN WithHdr(WithNext(l, h.prev, h.next), i, NoHdr)

\* Region i leaves the list.
Unlinked(l, i) ==
  LET h == l.hdr[i] IN
  WithHdr(WithNext(WithPrev(l, h.next, h.prev), h.prev, h.next), i, NoHdr)

\* Region i is replaced by a region of the given size that starts at s.
Moved(l, i, s, size) ==
  LET h == l.hdr[i] IN
  WithHdr(WithHdr(WithNext(WithPrev(l, h.next, s), h.prev, s), i, NoHdr),
          s, Header(size, h.prev, h.next))

\* The assertions of the loops: only the first region has no predecessor, and
\* the regions are sorted.
OnlyFirst(i) == (hdr[i].prev = NIL) = (i = first_free_page)

Ordered(i) ==
  /\ hdr[i].prev = NIL \/ hdr[i].prev < i
  /\ hdr[i].next = NIL \/ hdr[i].next > i

Fails(c) == pfuse.asserts /\ ~c
-----------------------------------------------------------------------------
(* The frame of every call.                                                *)

Can(t, c) == pffault = "none" /\ call[t].pc = "idle" /\ c \in pfuse.calls

PfAt(t, pcs) == pffault = "none" /\ call[t].pc \in pcs

\* A failing assertion stops the kernel.
Panic(why) ==
  /\ pffault' = why
  /\ UNCHANGED <<first_free_page, hdr, pflock, call, blocks,
                 total_allocated_pages, refused, pfuse>>

\* kpagealloc_lock(), and iter = first_free_page
Enter(t, c) ==
  /\ pflock = NoThread
  /\ pflock' = t
  /\ call' = [call EXCEPT ![t] = c]
  /\ UNCHANGED <<first_free_page, hdr, total_allocated_pages, refused, pffault,
                 pfuse>>

\* "iter = iter->pff_next"
Advance(t, winner) ==
  /\ call' = [call EXCEPT ![t].iter = hdr[@].next, ![t].winner = winner]
  /\ UNCHANGED <<first_free_page, hdr, pflock, blocks, total_allocated_pages,
                 refused, pffault, pfuse>>

\* kpagealloc_unlock() and the return with the list l and the blocks bs
Leave(t, l, bs, total) ==
  /\ first_free_page' = l.first
  /\ hdr' = l.hdr
  /\ blocks' = bs
  /\ total_allocated_pages' = total % CountMod
  /\ pflock' = NoThread
  /\ call' = [call EXCEPT ![t] = PfIdle]
  /\ refused' = 0
  /\ UNCHANGED <<pffault, pfuse>>

\* assert(!first_free_page || first_free_page->pff_prev == PAGENIL): PAGENIL is
\* not 0, so with an empty list this reads the header at address -1.
Return(t, l, bs, total) ==
  IF Fails(l.first # NIL)
  THEN Panic("wild")
  ELSE IF Fails(l.hdr[l.first].prev = NIL)
       THEN Panic("assert")
       ELSE Leave(t, l, bs, total)

\* "return PAGENIL"
ReturnNil(t, n) ==
  /\ pflock' = NoThread
  /\ call' = [call EXCEPT ![t] = PfIdle]
  /\ refused' = n
  /\ UNCHANGED <<first_free_page, hdr, blocks, total_allocated_pages, pffault,
                 pfuse>>
-----------------------------------------------------------------------------
(* __kpageframe_alloc_many and kpageframe_tryalloc                         *)

AllocCall(t, n) ==
  /\ Can(t, "alloc")
  /\ Enter(t, [PfIdle EXCEPT !.pc = "alloc", !.n = n, !.iter = first_free_page])
  /\ UNCHANGED blocks

TryCall(t, n) ==
  /\ Can(t, "try")
  /\ Enter(t, [PfIdle EXCEPT !.pc = "try", !.n = n, !.iter = first_free_page])
  /\ UNCHANGED blocks

\* take_iter: the first n pages of region i, with or without the lock
Take(t, i, n) ==
  LET b == [start |-> i, n |-> n]
      total == total_allocated_pages + n
  IN IF Fails(Ordered(i) /\ hdr[i].size >= n)
     THEN Panic("assert")
     ELSE IF hdr[i].size = n
          THEN Return(t, Unlinked(List, i), blocks \cup {b}, total)
          ELSE Return(t, Moved(List, i, i + n, hdr[i].size - n),
                      blocks \cup {b}, total)

\* Mutant: a region of exactly the length asked for is passed over.
AllocStepStrict(t) ==
  /\ PfAt(t, {"alloc", "try"})
  /\ call[t].iter # NIL
  /\ IF hdr[call[t].iter].size > call[t].n
     THEN Take(t, call[t].iter, call[t].n)
     ELSE Advance(t, call[t].winner)

\* One iteration of the loop: the first region that is large enough is taken.
AllocStep(t) ==
  /\ PfAt(t, {"alloc", "try"})
  /\ call[t].iter # NIL
  /\ LET i == call[t].iter
         w == call[t].winner
         n == call[t].n
     IN IF Fails(hdr[i].size # 0 /\ OnlyFirst(i))
        THEN Panic("assert")
        ELSE IF hdr[i].size >= n
             THEN Take(t, i, n)
             ELSE Advance(t, IF /\ call[t].pc = "try"
                                /\ w = NIL \/ hdr[w].size < hdr[i].size
                             THEN i ELSE w)

\* The end of the list: kpageframe_tryalloc goes on with the largest region it
\* saw, after it has dropped the lock.
AllocNone(t) ==
  /\ PfAt(t, {"alloc", "try"})
  /\ call[t].iter = NIL
  /\ IF call[t].winner = NIL
     THEN ReturnNil(t, call[t].n)
     ELSE /\ pflock' = NoThread
          /\ call' = [call EXCEPT ![t].pc = "tail"]
          /\ UNCHANGED <<first_free_page, hdr, blocks, total_allocated_pages,
                         refused, pffault, pfuse>>

\* "iter = winner; goto take_iter": n_pages is still what the caller asked for,
\* and the region may be gone.
TryTail(t) ==
  /\ PfAt(t, {"tail"})
  /\ IF hdr[call[t].winner] = NoHdr
     THEN Panic("wild")
     ELSE Take(t, call[t].winner, call[t].n)

\* __kpageframe_alloc_one: the first page of the first region, not counted.
AllocOne(t) ==
  /\ Can(t, "one")
  /\ pflock = NoThread
  /\ IF first_free_page = NIL
     THEN ReturnNil(t, 1)
     ELSE LET i == first_free_page
              h == hdr[i]
              b == [start |-> i, n |-> 1]
              l == IF h.size # 1
                   THEN WithHdr([WithPrev(WithHdr(List, i, NoHdr), h.next, i + 1)
                                   EXCEPT !.first = i + 1],
                                i + 1, Header(h.size - 1, NIL, h.next))
                   ELSE WithPrev([WithHdr(List, i, NoHdr) EXCEPT !.first = h.next],
                                 h.next, NIL)
          IN IF Fails(h.size # 0)
             THEN Panic("assert")
             ELSE Leave(t, l, blocks \cup {b}, total_allocated_pages)
-----------------------------------------------------------------------------
(* kpageframe_allocat                                                      *)

AllocAtCall(t, b) ==
  /\ Can(t, "at")
  /\ Enter(t, [PfIdle EXCEPT !.pc = "at", !.n = b.n, !.start = b.start,
                           !.iter = first_free_page])
  /\ UNCHANGED blocks

\* The split at the start of region i: the links back from the following
\* region are left as they were.
SplitStart(i, n) ==
  LET h == hdr[i] IN
  IF h.size = n
  THEN WithHdr(WithNext(List, h.prev, h.next), i, NoHdr)
  ELSE WithHdr(WithHdr(WithNext(List, h.prev, i + n), i, NoHdr),
               i + n, Header(h.size - n, h.prev, h.next))

\* The split in the middle of region i: the upper part may have no pages.
SplitMiddle(i, s, n) ==
  LET h == hdr[i] IN
  WithHdr(WithHdr(List, i, Header(s - i, h.prev, s + n)),
          s + n, Header(h.size - ((s - i) + n), i, h.next))

AllocAtStep(t) ==
  /\ PfAt(t, {"at"})
  /\ LET i == call[t].iter
         s == call[t].start
         n == call[t].n
         g == call[t].grow
         b == IF g = NoBlock THEN [start |-> s, n |-> n]
              ELSE [start |-> g.start, n |-> g.n + n]
         total == total_allocated_pages + n
     IN IF i = NIL \/ s < i
        THEN ReturnNil(t, 0)
        ELSE IF s + n <= i + hdr[i].size
             THEN IF s = i /\ n = hdr[i].size /\ Fails(OnlyFirst(i))
                  THEN Panic("assert")
                  ELSE Return(t, IF s = i THEN SplitStart(i, n)
                                 ELSE SplitMiddle(i, s, n),
                              (blocks \ {g}) \cup {b}, total)
             ELSE Advance(t, NIL)
-----------------------------------------------------------------------------
(* kpageframe_free                                                         *)

\* The pages of b, or those of its upper part, are given back.
FreeCall(t, b, keep) ==
  /\ \A u \in PfThreads : call[u].grow # b
  /\ keep < b.n
  /\ blocks' = (blocks \ {b}) \cup
               (IF keep = 0 THEN {} ELSE {[start |-> b.start, n |-> keep]})
  /\ Enter(t, [PfIdle EXCEPT !.pc = "free", !.n = b.n - keep,
                           !.start = b.start + keep, !.iter = first_free_page])

Free(t, b) == Can(t, "free") /\ b \in blocks /\ FreeCall(t, b, 0)

\* start is merged with region i behind it.
MergedBelow(i, s, n) == Moved(List, i, s, n + hdr[i].size)

\* start is merged with region i before it, and with the next when they meet.
MergedAbove(i, n) ==
  LET h == hdr[i]
      size == h.size + n
  IN IF h.next = i + size
     THEN LET g == hdr[h.next] IN
          WithHdr(WithHdr(WithPrev(List, g.next, i), h.next, NoHdr),
                  i, Header(size + g.size, h.prev, g.next))
     ELSE WithHdr(List, i, Header(size, h.prev, h.next))

\* start becomes a region of its own before region i.
InsertedBefore(i, s, n) ==
  WithHdr(WithPrev(WithNext(List, hdr[i].prev, s), i, s),
          s, Header(n, hdr[i].prev, i))

\* start becomes the last region.
Appended(i, s, n) == WithHdr(WithNext(List, i, s), s, Header(n, i, NIL))

FreeStep(t) ==
  /\ PfAt(t, {"free"})
  /\ LET i == call[t].iter
         s == call[t].start
         n == call[t].n
         h == hdr[i]
         Done(l) == Return(t, l, blocks, total_allocated_pages - n)
     IN IF i = NIL
        THEN Done(WithHdr([List EXCEPT !.first = s], s, Header(n, NIL, NIL)))
        ELSE IF Fails(/\ OnlyFirst(i)
                      /\ i # s
                      /\ ~(s < i + h.size /\ s + n > i)
                      /\ Ordered(i))
        THEN Panic("assert")
        ELSE IF s + n = i
        THEN Done(MergedBelow(i, s, n))
        ELSE IF i + h.size = s
        THEN Done(MergedAbove(i, n))
        ELSE IF s + n < i
        THEN Done(InsertedBefore(i, s, n))
        ELSE IF h.next = NIL
        THEN IF Fails(s > i + h.size) THEN Panic("assert")
             ELSE Done(Appended(i, s, n))
        ELSE Advance(t, NIL)
-----------------------------------------------------------------------------
(* kpageframe_realloc_inplace                                              *)

\* kpageframe_isfreepage: a taken lock makes it answer 0
IsFreePage(p) == pflock = NoThread /\ p \in FreeFrames

\* The assertion asks for the pages to be free, so it fails on every block.
Resize(t, b, n) ==
  /\ Can(t, "resize")
  /\ b \in blocks
  /\ \A u \in PfThreads : call[u].grow # b
  /\ n # b.n
  /\ IF Fails(IsFreePage(b.start))
     THEN Panic("assert")
     ELSE IF n < b.n
          THEN FreeCall(t, b, n)
          ELSE /\ Enter(t, [PfIdle EXCEPT !.pc = "at", !.n = n - b.n,
                                        !.start = b.start + b.n,
                                        !.iter = first_free_page, !.grow = b])
               /\ UNCHANGED blocks
-----------------------------------------------------------------------------
PfNext ==
  \E t \in PfThreads :
    \/ \E n \in 1 .. MaxRun : AllocCall(t, n) \/ TryCall(t, n)
    \/ AllocStep(t)
    \/ AllocNone(t)
    \/ TryTail(t)
    \/ AllocOne(t)
    \/ \E b \in pfuse.at : AllocAtCall(t, b)
    \/ AllocAtStep(t)
    \/ \E b \in blocks : Free(t, b)
    \/ FreeStep(t)
    \/ \E b \in blocks, n \in 1 .. MaxRun : Resize(t, b, n)

PfSpec == PfInit /\ [][PfNext]_pfvars
-----------------------------------------------------------------------------
(* The callers that never ask for a fixed address, for a partial run or to *)
(* resize a block.                                                         *)
Core == pfuse.calls \subseteq {"alloc", "one", "free"}

Freeing == {t \in PfThreads : call[t].pc = "free"}

Given(t) == [start |-> call[t].start, n |-> call[t].n]

\* The blocks of callers, and those on their way back to the list.
Owned == blocks \cup {Given(t) : t \in Freeing}

\* first_free_page and the links of every region name its neighbours by
\* address, no region is empty, and two regions never touch: kpageframe_free
\* merges what it returns with both sides.
FreeListSound ==
  Core =>
    /\ first_free_page = NIL => Heads = {}
    /\ first_free_page # NIL =>
         /\ first_free_page \in Heads
         /\ hdr[first_free_page].prev = NIL
         /\ \A q \in Heads : first_free_page <= q
    /\ \A p \in Heads :
         /\ hdr[p].size > 0
         /\ hdr[p].prev = NIL => p = first_free_page
         /\ hdr[p].next = NIL => \A q \in Heads : q <= p
         /\ hdr[p].next # NIL =>
              /\ hdr[p].next \in Heads
              /\ hdr[p].next > p + hdr[p].size
              /\ hdr[hdr[p].next].prev = p
              /\ \A q \in Heads : q > p => q >= hdr[p].next

\* Every frame is free or belongs to one owner: the allocator hands no page to
\* two callers and keeps no header in a page that a caller owns.
PagesOwnedOnce ==
  Core =>
    /\ Disjoint(Owned)
    /\ \A b \in Owned : Run(b) \cap FreeFrames = {}
    /\ \A p, q \in Heads : p # q => Region(p) \cap Region(q) = {}

\* kpageframe_getinfo: pfi_usedpages moves with the pages callers own, as long
\* as nobody calls __kpageframe_alloc_one, which does not count its page.
PagesCounted ==
  pfuse.calls \subseteq {"alloc", "free"} =>
    total_allocated_pages =
      (Pages(Owned) - Pages(pfuse.given)) % CountMod

\* None of the assertions of the loops fails.  What does fail, when assertions
\* are compiled in, is the last one of a call that empties the list.
PfNoAssert == Core => pffault # "assert" /\ (pffault = "wild" => pfuse.asserts)

Pool == INSTANCE PagePool WITH free <- FreeFrames, owned <- Owned

\* The free list implements the pool of frames: a call that returns PAGENIL
\* found no run of the length it was asked for anywhere in free memory.
PfImplementsPool ==
  Pool!PoolInit /\ [][Core => Pool!PoolNext]_<<FreeFrames, Owned, refused>>

\* The allocator's structures are sound between any two steps of its callers.
PfSound == PfTypeOK /\ FreeListSound /\ PagesOwnedOnce /\ PagesCounted /\ PfNoAssert
=============================================================================
