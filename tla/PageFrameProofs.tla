------------------------- MODULE PageFrameProofs ----------------------------
(***************************************************************************)
(* What PageFrame promises for any number of callers, frames and regions.  *)
(*                                                                         *)
(* The invariant says that the list is sound (ListOK), what the loop of a  *)
(* call knows of the regions it has been past (LoopOK), and that no frame  *)
(* is both free and owned, or owned twice (OwnersOK).  Each action keeps   *)
(* it and is a step of the pool of frames or leaves the pool alone.        *)
(***************************************************************************)
EXTENDS FreeListProofs, FiniteSetTheorems

----------------------------------------------------------------------------
(* The inductive invariant *)

\* The regions the loop of t has been past.
Behind(t) == {q \in HeadsOf(hdr) : call[t].iter = NIL \/ q < call[t].iter}

LoopOK(t) ==
  /\ call[t].pc \in {"idle", "alloc", "free"}
  /\ call[t].winner = NIL /\ call[t].grow = NoBlock
  /\ (call[t].pc # "idle") <=> (pflock = t)
  /\ call[t].pc # "idle" => call[t].iter \in HeadsOf(hdr) \cup {NIL}
  /\ call[t].pc = "alloc" =>
       call[t].n \in 1 .. MaxRun /\ \A q \in Behind(t) : hdr[q].size < call[t].n
  /\ call[t].pc = "free" =>
       /\ Given(t) \in Blocks \ blocks
       /\ call[t].iter = NIL => HeadsOf(hdr) = {}
       /\ \A q \in Behind(t) : q + hdr[q].size < call[t].start

OwnersOK ==
  /\ \A b \in Owned : b \in Blocks /\ b.start + b.n <= PageCount
  /\ Disjoint(Owned)
  /\ \A b \in Owned : Run(b) \cap FreeIn(hdr) = {}

CoreInv ==
  /\ PfTypeOK
  /\ ListOK(first_free_page, hdr)
  /\ \A t \in PfThreads : LoopOK(t)
  /\ OwnersOK
  /\ PagesCounted
  /\ PfNoAssert

PfInv == pfuse \in PfUses /\ (Core => CoreInv)

----------------------------------------------------------------------------
(* Steps that keep the list *)

poolvars == <<FreeFrames, Owned, refused>>

\* The frames of the regions, as PageFrame defines them.
LEMMA FramesOf ==
  ASSUME NEW f, NEW h, ListOK(f, h)
  PROVE  UNION {p .. (p + h[p].size - 1) : p \in HeadsOf(h)} = FreeIn(h)
<1>1. ASSUME NEW p \in HeadsOf(h)
      PROVE  p .. (p + h[p].size - 1) = {x \in Frames : p <= x /\ x < p + h[p].size}
  <2>1. p \in Frames /\ p \in Int /\ h[p].size \in Nat /\ p + h[p].size <= PageCount
    BY Neighbours, FrameTypes, Zenon
  <2>. QED  BY <2>1, PfAssumption DEF Frames
<1>. QED  BY <1>1, Zenon DEF FreeIn

\* The same for the list of this state.
LEMMA FreeFramesIs ==
  ASSUME NEW f, ListOK(f, hdr)
  PROVE  FreeFrames = FreeIn(hdr)
<1>1. FreeFrames = UNION {p .. (p + hdr[p].size - 1) : p \in HeadsOf(hdr)}
  BY DEF FreeFrames, Region, Heads, HeadsOf
<1>. QED  BY <1>1, FramesOf, Zenon

\* Only who holds kpagealloc_lockno is in a call.
LEMMA OthersIdle ==
  ASSUME \A u \in PfThreads : LoopOK(u), NEW u \in PfThreads, pflock # u
  PROVE  call[u].pc = "idle"
BY DEF LoopOK

\* The blocks that have an owner, while nobody frees one and while t does.
LEMMA OwnedIs ==
  ASSUME \A u \in PfThreads : LoopOK(u), NEW t \in PfThreads
  PROVE  /\ call[t].pc = "free" => Owned = blocks \cup {Given(t)}
         /\ (pflock = t \/ pflock = NoThread) /\ call[t].pc # "free" => Owned = blocks
<1>1. CASE call[t].pc = "free"
  <2>1. pflock = t
    BY <1>1 DEF LoopOK
  <2>2. Freeing = {t}
    <3>1. \A u \in PfThreads : u # t => call[u].pc = "idle"
      BY <2>1, OthersIdle
    <3>. QED  BY <1>1, <3>1 DEF Freeing
  <2>. QED  BY <1>1, <2>2 DEF Owned
<1>2. CASE call[t].pc # "free" /\ (pflock = t \/ pflock = NoThread)
  <2>1. \A u \in PfThreads : u # t => call[u].pc = "idle"
    BY <1>2, OthersIdle, PfAssumption
  <2>2. Freeing = {}
    BY <1>2, <2>1 DEF Freeing
  <2>. QED  BY <1>2, <2>2 DEF Owned
<1>. QED  BY <1>1, <1>2

\* Who is in no call stays out of calls.
LEMMA IdleKept ==
  ASSUME NEW u \in PfThreads, LoopOK(u), pflock # u, pflock' # u, call'[u] = call[u]
  PROVE  LoopOK(u)'
BY DEF LoopOK

\* A failing assertion keeps the invariant, if it is that of a call that empties the list.
LEMMA PanicStep ==
  ASSUME CoreInv, Core, Panic("wild"), pfuse.asserts
  PROVE  CoreInv' /\ Core' /\ UNCHANGED poolvars
<1>1. /\ UNCHANGED <<first_free_page, hdr, pflock, call, blocks, total_allocated_pages, refused,
                     pfuse>>
      /\ pffault' = "wild"
  BY DEF Panic
<1>2. PfTypeOK' /\ PfNoAssert' /\ Core'
  BY <1>1 DEF CoreInv, PfTypeOK, PfNoAssert, Core
<1>3. UNCHANGED poolvars /\ Owned' = Owned
  BY <1>1 DEF poolvars, FreeFrames, Heads, Region, Owned, Freeing, Given
<1>4. PagesCounted'
  BY <1>1, <1>3 DEF CoreInv, PagesCounted
<1>5. \A t \in PfThreads : LoopOK(t)'
  BY <1>1 DEF CoreInv, LoopOK, Behind, Given
<1>6. OwnersOK'
  BY <1>1, <1>3 DEF CoreInv, OwnersOK
<1>. QED  BY <1>1, <1>2, <1>3, <1>4, <1>5, <1>6 DEF CoreInv

----------------------------------------------------------------------------
(* total_allocated_pages *)

\* A number modulo the width of total_allocated_pages.
LEMMA ModFacts ==
  ASSUME NEW x \in Int
  PROVE  \E q \in Int : /\ x = q * CountMod + (x % CountMod)
                        /\ x % CountMod \in 0 .. CountMod - 1
<1>1. /\ x \div CountMod \in Int
      /\ x = (x \div CountMod) * CountMod + (x % CountMod)
      /\ x % CountMod \in 0 .. CountMod - 1
  BY PfAssumption
<1>. QED  BY <1>1, Zenon

\* Multiples of the width differ by at least the width.
LEMMA ModApart ==
  ASSUME NEW q \in Int
  PROVE  /\ q * CountMod \in Int
         /\ q >= 1 => q * CountMod >= CountMod
         /\ q <= -1 => q * CountMod <= -CountMod
         /\ 0 * CountMod = 0
BY PfAssumption

\* What is added to a counter that wraps around is added to what it counts.
LEMMA ModAdd ==
  ASSUME NEW a \in Int, NEW n \in Int
  PROVE  ((a % CountMod) + n) % CountMod = (a + n) % CountMod
<1>1. PICK q \in Int : a = q * CountMod + (a % CountMod) /\ a % CountMod \in 0 .. CountMod - 1
  BY ModFacts
<1>2. PICK r \in Int : r = a % CountMod
  BY <1>1
<1>3. PICK q1 \in Int : /\ r + n = q1 * CountMod + ((r + n) % CountMod)
                        /\ (r + n) % CountMod \in 0 .. CountMod - 1
  BY ModFacts
<1>4. PICK q2 \in Int : /\ a + n = q2 * CountMod + ((a + n) % CountMod)
                        /\ (a + n) % CountMod \in 0 .. CountMod - 1
  BY ModFacts
<1>5. PICK r1 \in 0 .. CountMod - 1 : r1 = (r + n) % CountMod
  BY <1>3
<1>6. PICK r2 \in 0 .. CountMod - 1 : r2 = (a + n) % CountMod
  BY <1>4
<1>7. PICK d \in Int : d = q + q1 - q2
  OBVIOUS
<1>8. d * CountMod = q * CountMod + q1 * CountMod - q2 * CountMod
  BY <1>7, PfAssumption
<1>9. /\ q * CountMod \in Int /\ q1 * CountMod \in Int /\ q2 * CountMod \in Int
      /\ CountMod \in Nat \ {0}
  BY ModApart, PfAssumption
<1>10. d * CountMod = r2 - r1
  <2>1. PICK A \in Int : A = q * CountMod
    BY <1>9
  <2>2. PICK B \in Int : B = q1 * CountMod
    BY <1>9
  <2>3. PICK C \in Int : C = q2 * CountMod
    BY <1>9
  <2>4. a = A + r
    BY <1>1, <1>2, <2>1, Zenon
  <2>5. r + n = B + r1
    BY <1>3, <1>5, <2>2, Zenon
  <2>6. a + n = C + r2
    BY <1>4, <1>6, <2>3, Zenon
  <2>7. A + B - C = r2 - r1
    BY <2>4, <2>5, <2>6, <1>9
  <2>. QED  BY <1>8, <2>1, <2>2, <2>3, <2>7, Zenon
<1>11. d = 0
  BY <1>9, <1>10, ModApart
<1>12. r1 = r2
  BY <1>9, <1>10, <1>11, ModApart
<1>. QED  BY <1>2, <1>5, <1>6, <1>12

\* A run of pages has as many frames as pages.
LEMMA RunFacts ==
  ASSUME NEW b \in Blocks
  PROVE  /\ b.start \in Nat /\ b.n \in Nat \ {0}
         /\ IsFiniteSet(Run(b)) /\ Cardinality(Run(b)) = b.n
         /\ b.start \in Run(b)
         /\ b = [start |-> b.start, n |-> b.n]
<1>1. b.start \in Nat /\ b.n \in Nat \ {0} /\ b = [start |-> b.start, n |-> b.n]
  BY PfAssumption DEF Blocks
<1>2. PICK x \in Nat, y \in Int : x = b.start /\ y = b.start + b.n - 1
  BY <1>1
<1>3. IsFiniteSet(x .. y) /\ Cardinality(x .. y) = IF x > y THEN 0 ELSE y - x + 1
  <2>1. x \in Int /\ y \in Int
    OBVIOUS
  <2>. QED  BY <2>1, FS_Interval, Zenon
<1>4. Run(b) = x .. y
  BY <1>2 DEF Run
<1>. QED  BY <1>1, <1>2, <1>3, <1>4

\* Blocks of frames.
InFrames(S) == \A b \in S : b \in Blocks /\ b.start + b.n <= PageCount

\* A block that shares no frame with the others adds its pages to theirs.
LEMMA PagesAdd ==
  ASSUME NEW S, InFrames(S), NEW b \in Blocks, \A c \in S : Run(c) \cap Run(b) = {}
  PROVE  Pages(S) \in Nat /\ Pages(S \cup {b}) = Pages(S) + b.n
<1>1. PICK U : U = UNION {Run(c) : c \in S}
  BY Zenon
<1>2. U \subseteq 0 .. PageCount
  <2>1. ASSUME NEW c \in S PROVE Run(c) \subseteq 0 .. PageCount
    <3>1. c \in Blocks /\ c.start + c.n <= PageCount
      BY DEF InFrames
    <3>. QED  BY <3>1, RunFacts, PfAssumption DEF Run
  <2>. QED  BY <1>1, <2>1
<1>3. IsFiniteSet(U)
  <2>1. IsFiniteSet(0 .. PageCount)
    BY FS_Interval, PfAssumption
  <2>. QED  BY <1>2, <2>1, FS_Subset, Zenon
<1>4. U \cap Run(b) = {}
  BY <1>1
<1>5. UNION {Run(c) : c \in S \cup {b}} = U \cup Run(b)
  BY <1>1
<1>6. PICK R : R = Run(b)
  OBVIOUS
<1>7. IsFiniteSet(R) /\ Cardinality(R) = b.n /\ b.n \in Nat
  BY <1>6, RunFacts
<1>8. Cardinality(U) \in Nat
  BY <1>3, FS_CardinalityType
<1>9. Cardinality(U \cup R) = Cardinality(U) + Cardinality(R) - Cardinality(U \cap R)
  BY <1>3, <1>7, FS_Union
<1>10. U \cap R = {}
  BY <1>4, <1>6
<1>11. Cardinality(U \cup R) = Cardinality(U) + b.n
  BY <1>7, <1>8, <1>9, <1>10, FS_EmptySet
<1>12. Pages(S) = Cardinality(U) /\ Pages(S \cup {b}) = Cardinality(U \cup R)
  BY <1>1, <1>5, <1>6, Zenon DEF Pages
<1>. QED  BY <1>8, <1>11, <1>12

\* What boot hands over is a set of blocks of frames.
LEMMA GivenPages ==
  ASSUME pfuse \in PfUses
  PROVE  Pages(pfuse.given) \in Nat
<1>1. pfuse.given \subseteq Blocks /\ \A b \in pfuse.given : b.start + b.n <= PageCount
  BY PfAssumption
<1>2. PICK U : U = UNION {Run(c) : c \in pfuse.given}
  BY Zenon
<1>3. U \subseteq 0 .. PageCount
  <2>1. ASSUME NEW c \in pfuse.given PROVE Run(c) \subseteq 0 .. PageCount
    BY <1>1, RunFacts, PfAssumption DEF Run
  <2>. QED  BY <1>2, <2>1
<1>4. IsFiniteSet(U)
  <2>1. IsFiniteSet(0 .. PageCount)
    BY FS_Interval, PfAssumption
  <2>. QED  BY <1>3, <2>1, FS_Subset, Zenon
<1>. QED  BY <1>2, <1>4, FS_CardinalityType DEF Pages

----------------------------------------------------------------------------
(* The end of a call *)

\* The last assertion of a call fails only when the list is empty.
LEMMA ReturnStep ==
  ASSUME NEW t, NEW g, NEW k, ListOK(g, k), NEW bs, NEW tot, Return(t, ListOf(g, k), bs, tot)
  PROVE  (Panic("wild") /\ pfuse.asserts) \/ Leave(t, ListOf(g, k), bs, tot)
<1>1. ListOf(g, k).first = g /\ ListOf(g, k).hdr = k
  BY DEF ListOf
<1>2. CASE g = NIL
  BY <1>1, <1>2 DEF Return, Fails
<1>3. CASE g # NIL
  <2>1. g \in HeadsOf(k)
    BY <1>3 DEF ListOK, IsFirst
  <2>2. k[g].prev = NIL
    BY <2>1, Neighbours
  <2>. QED  BY <1>1, <1>3, <2>2 DEF Return, Fails
<1>. QED  BY <1>2, <1>3

\* What a call leaves behind: the lock is free and nobody is in a call.
LEMMA AfterLeave ==
  ASSUME CoreInv, NEW t \in PfThreads, pflock \in {t, NoThread}, NEW g, NEW k, ListOK(g, k),
         NEW bs, NEW tot \in Int, Leave(t, ListOf(g, k), bs, tot)
  PROVE  /\ first_free_page' = g /\ hdr' = k /\ blocks' = bs
         /\ total_allocated_pages' = tot % CountMod
         /\ total_allocated_pages' \in 0 .. CountMod - 1
         /\ refused' = 0 /\ pffault' = pffault /\ pfuse' = pfuse
         /\ \A u \in PfThreads : LoopOK(u)'
         /\ bs \subseteq Blocks => PfTypeOK'
         /\ Owned' = bs
         /\ FreeFrames' = FreeIn(k)
<1>1. /\ first_free_page' = g /\ hdr' = k /\ blocks' = bs
      /\ total_allocated_pages' = tot % CountMod
      /\ pflock' = NoThread /\ call' = [call EXCEPT ![t] = PfIdle]
      /\ refused' = 0 /\ pffault' = pffault /\ pfuse' = pfuse
  BY DEF Leave, ListOf
<1>2. tot % CountMod \in 0 .. CountMod - 1
  BY PfAssumption
<1>3. call \in [PfThreads -> Calls]
  BY DEF CoreInv, PfTypeOK
<1>4. ASSUME NEW u \in PfThreads PROVE LoopOK(u)' /\ call'[u].pc # "free"
  <2>1. NoThread # u
    BY PfAssumption
  <2>2. CASE u = t
    <3>1. call'[u] = PfIdle
      BY <1>1, <1>3, <2>2
    <3>. QED  BY <1>1, <2>1, <3>1 DEF LoopOK, PfIdle
  <2>3. CASE u # t
    <3>1. call'[u] = call[u]
      BY <1>1, <1>3, <2>3
    <3>2. pflock # u /\ pflock' # u
      BY <1>1, <2>1, <2>3
    <3>3. LoopOK(u) /\ call[u].pc = "idle"
      BY <3>2, OthersIdle DEF CoreInv
    <3>. QED  BY <3>1, <3>2, <3>3, IdleKept
  <2>. QED  BY <2>2, <2>3
<1>5. Owned' = bs
  <2>1. Freeing' = {}
    BY <1>4 DEF Freeing
  <2>. QED  BY <1>1, <2>1 DEF Owned
<1>6. FreeFrames' = FreeIn(k)
  <2>1. FreeFrames' = UNION {p .. (p + k[p].size - 1) : p \in HeadsOf(k)}
    BY <1>1 DEF FreeFrames, Region, Heads, HeadsOf
  <2>. QED  BY <2>1, FramesOf, Zenon
<1>7. ASSUME bs \subseteq Blocks PROVE PfTypeOK'
  <2>1. first_free_page' \in Links /\ hdr' \in [Frames -> Hdrs]
    BY <1>1 DEF ListOK, IsFirst, Links, HeadsOf
  <2>2. PfIdle \in Calls
    BY DEF PfIdle, Calls, PfPcs, Links
  <2>3. call' \in [PfThreads -> Calls]
    BY <1>1, <1>3, <2>2
  <2>. QED  BY <1>1, <1>2, <1>7, <2>1, <2>3, PfAssumption DEF PfTypeOK, CoreInv
<1>. QED  BY <1>1, <1>2, <1>4, <1>5, <1>6, <1>7

\* The pages of b leave the list and are counted, but for the page of __kpageframe_alloc_one.
GrantRoom(t, b, g, k, tot) ==
  /\ pflock \in {t, NoThread} /\ call[t].pc # "free"
  /\ b \in Blocks /\ b.start + b.n <= PageCount /\ Run(b) \subseteq FreeIn(hdr)
  /\ ListOK(g, k) /\ FreeIn(k) = FreeIn(hdr) \ Run(b)
  /\ tot \in Int
  /\ pfuse.calls \subseteq {"alloc", "free"} => tot = total_allocated_pages + b.n

\* A call that hands out b keeps the invariant and takes b from the pool.
LEMMA GrantStep ==
  ASSUME CoreInv, Core, NEW t \in PfThreads, NEW b, NEW g, NEW k, NEW tot,
         GrantRoom(t, b, g, k, tot), Leave(t, ListOf(g, k), blocks \cup {b}, tot)
  PROVE  CoreInv' /\ Core' /\ \E c \in Blocks : Pool!Grant(c)
<1>1. PICK bs : bs = blocks \cup {b}
  OBVIOUS
<1>2. /\ pflock \in {t, NoThread} /\ ListOK(g, k) /\ tot \in Int
      /\ Leave(t, ListOf(g, k), bs, tot)
  BY <1>1 DEF GrantRoom
<1>3. /\ first_free_page' = g /\ hdr' = k /\ blocks' = bs
      /\ total_allocated_pages' = tot % CountMod
      /\ refused' = 0 /\ pffault' = pffault /\ pfuse' = pfuse
      /\ \A u \in PfThreads : LoopOK(u)'
      /\ bs \subseteq Blocks => PfTypeOK'
      /\ Owned' = bs
      /\ FreeFrames' = FreeIn(k)
  BY <1>2, AfterLeave
<1>4. Owned = blocks
  BY OwnedIs DEF CoreInv, GrantRoom
<1>5. FreeFrames = FreeIn(hdr)
  BY FreeFramesIs DEF CoreInv
<1>6. b \in Blocks /\ b.start + b.n <= PageCount /\ Run(b) \subseteq FreeIn(hdr)
  BY DEF GrantRoom
<1>7. \A c \in blocks : Run(c) \cap Run(b) = {}
  BY <1>4, <1>6 DEF CoreInv, OwnersOK
<1>8. InFrames(blocks)
  BY <1>4 DEF CoreInv, OwnersOK, InFrames
<1>9. PfTypeOK'
  BY <1>1, <1>3, <1>6 DEF CoreInv, PfTypeOK
<1>10. ListOK(first_free_page, hdr)'
  BY <1>2, <1>3
<1>11. OwnersOK'
  <2>1. \A c \in bs : c \in Blocks /\ c.start + c.n <= PageCount
    BY <1>1, <1>6, <1>8 DEF InFrames
  <2>2. Disjoint(bs)
    BY <1>1, <1>4, <1>7 DEF CoreInv, OwnersOK, Disjoint
  <2>3. \A c \in bs : Run(c) \cap FreeIn(k) = {}
    BY <1>1, <1>4 DEF CoreInv, OwnersOK, GrantRoom
  <2>. QED  BY <1>3, <2>1, <2>2, <2>3 DEF OwnersOK
<1>12. PagesCounted'
  <2>. SUFFICES ASSUME pfuse.calls \subseteq {"alloc", "free"}
       PROVE  total_allocated_pages' = (Pages(bs) - Pages(pfuse.given)) % CountMod
    BY <1>3 DEF PagesCounted
  <2>1. Pages(blocks) \in Nat /\ Pages(bs) = Pages(blocks) + b.n
    BY <1>1, <1>6, <1>7, <1>8, PagesAdd
  <2>2. Pages(pfuse.given) \in Nat
    BY GivenPages DEF CoreInv, PfTypeOK
  <2>3. PICK a \in Int : a = Pages(blocks) - Pages(pfuse.given)
    BY <2>1, <2>2
  <2>4. total_allocated_pages = a % CountMod
    BY <1>4, <2>3 DEF CoreInv, PagesCounted
  <2>5. b.n \in Int
    BY <1>6, RunFacts
  <2>6. tot = (a % CountMod) + b.n
    BY <2>4 DEF GrantRoom
  <2>7. tot % CountMod = (a + b.n) % CountMod
    BY <2>5, <2>6, ModAdd, Zenon
  <2>8. a + b.n = Pages(bs) - Pages(pfuse.given)
    BY <2>1, <2>2, <2>3, <2>5
  <2>. QED  BY <1>3, <2>7, <2>8
<1>13. PfNoAssert' /\ Core'
  BY <1>3 DEF CoreInv, PfNoAssert, Core
<1>14. Pool!Grant(b)
  BY <1>1, <1>3, <1>4, <1>5, <1>6 DEF GrantRoom, Pool!Grant, Pool!Run, Run
<1>. QED  BY <1>3, <1>6, <1>9, <1>10, <1>11, <1>12, <1>13, <1>14 DEF CoreInv

\* A call that gives back the block it was called with puts it into the pool.
LEMMA GiveStep ==
  ASSUME CoreInv, Core, NEW t \in PfThreads, call[t].pc = "free", NEW b, b = Given(t),
         NEW g, NEW k, ListOK(g, k), FreeIn(k) = FreeIn(hdr) \cup Run(b),
         Leave(t, ListOf(g, k), blocks, total_allocated_pages - call[t].n)
  PROVE  CoreInv' /\ Core' /\ \E c \in Blocks : Pool!GiveBack(c)
<1>1. LoopOK(t)
  BY DEF CoreInv
<1>2. b \in Blocks /\ b \notin blocks /\ pflock = t /\ b.n = call[t].n /\ b.n \in Nat
  <2>1. b \in Blocks /\ b \notin blocks /\ pflock = t /\ b.n = call[t].n
    BY <1>1 DEF LoopOK, Given
  <2>. QED  BY <2>1, RunFacts
<1>3. total_allocated_pages \in Int
  BY PfAssumption DEF CoreInv, PfTypeOK
<1>4. PICK tot \in Int : tot = total_allocated_pages - call[t].n
  BY <1>2, <1>3
<1>5. Leave(t, ListOf(g, k), blocks, tot) /\ pflock \in {t, NoThread}
  BY <1>2, <1>4
<1>6. /\ first_free_page' = g /\ hdr' = k /\ blocks' = blocks
      /\ total_allocated_pages' = tot % CountMod
      /\ refused' = 0 /\ pffault' = pffault /\ pfuse' = pfuse
      /\ \A u \in PfThreads : LoopOK(u)'
      /\ blocks \subseteq Blocks => PfTypeOK'
      /\ Owned' = blocks
      /\ FreeFrames' = FreeIn(k)
  BY <1>5, AfterLeave
<1>7. Owned = blocks \cup {b}
  BY OwnedIs DEF CoreInv
<1>8. FreeFrames = FreeIn(hdr)
  BY FreeFramesIs DEF CoreInv
<1>9. \A c \in blocks : Run(c) \cap Run(b) = {}
  BY <1>2, <1>7 DEF CoreInv, OwnersOK, Disjoint
<1>10. InFrames(blocks)
  BY <1>7 DEF CoreInv, OwnersOK, InFrames
<1>11. PfTypeOK'
  BY <1>6 DEF CoreInv, PfTypeOK
<1>12. ListOK(first_free_page, hdr)'
  BY <1>6
<1>13. OwnersOK'
  <2>1. \A c \in blocks : c \in Blocks /\ c.start + c.n <= PageCount
    BY <1>10 DEF InFrames
  <2>2. Disjoint(blocks)
    BY <1>7 DEF CoreInv, OwnersOK, Disjoint
  <2>3. \A c \in blocks : Run(c) \cap FreeIn(k) = {}
    BY <1>7, <1>9 DEF CoreInv, OwnersOK
  <2>. QED  BY <1>6, <2>1, <2>2, <2>3 DEF OwnersOK
<1>14. PagesCounted'
  <2>. SUFFICES ASSUME pfuse.calls \subseteq {"alloc", "free"}
       PROVE  total_allocated_pages' = (Pages(blocks) - Pages(pfuse.given)) % CountMod
    BY <1>6 DEF PagesCounted
  <2>1. Pages(blocks) \in Nat /\ Pages(Owned) = Pages(blocks) + b.n
    BY <1>2, <1>7, <1>9, <1>10, PagesAdd
  <2>2. Pages(pfuse.given) \in Nat
    BY GivenPages DEF CoreInv, PfTypeOK
  <2>3. PICK a \in Int : a = Pages(Owned) - Pages(pfuse.given)
    BY <1>2, <2>1, <2>2
  <2>4. total_allocated_pages = a % CountMod
    BY <2>3 DEF CoreInv, PagesCounted
  <2>5. PICK m \in Int : m = -b.n
    BY <1>2
  <2>6. tot = (a % CountMod) + m
    BY <1>2, <1>3, <1>4, <2>4, <2>5
  <2>7. tot % CountMod = (a + m) % CountMod
    BY <2>6, ModAdd
  <2>8. a + m = Pages(blocks) - Pages(pfuse.given)
    BY <1>2, <2>1, <2>2, <2>3, <2>5
  <2>. QED  BY <1>6, <2>7, <2>8
<1>15. PfNoAssert' /\ Core'
  BY <1>6 DEF CoreInv, PfNoAssert, Core
<1>16. Pool!GiveBack(b)
  BY <1>2, <1>6, <1>7, <1>8 DEF Pool!GiveBack, Pool!Run, Run
<1>. QED  BY <1>2, <1>6, <1>11, <1>12, <1>13, <1>14, <1>15, <1>16 DEF CoreInv

\* A step that keeps the list and the owners keeps what is said of them.
LEMMA KeptList ==
  ASSUME CoreInv, Core,
         UNCHANGED <<first_free_page, hdr, total_allocated_pages, pffault, pfuse>>,
         refused' \in 0 .. MaxRun, pflock' \in PfThreads \cup {NoThread},
         call' \in [PfThreads -> Calls], blocks' \subseteq Blocks, Owned' = Owned,
         \A u \in PfThreads : LoopOK(u)'
  PROVE  CoreInv' /\ Core' /\ FreeFrames' = FreeFrames
<1>1. PfTypeOK' /\ PfNoAssert' /\ Core'
  BY DEF CoreInv, PfTypeOK, PfNoAssert, Core
<1>2. FreeFrames' = FreeFrames
  BY DEF FreeFrames, Heads, Region
<1>3. PagesCounted'
  BY DEF CoreInv, PagesCounted
<1>4. OwnersOK'
  BY DEF CoreInv, OwnersOK
<1>. QED  BY <1>1, <1>2, <1>3, <1>4 DEF CoreInv

\* A run of free frames lies in one region: no region touches the next.
LEMMA RunInRegion ==
  ASSUME NEW f, NEW h, ListOK(f, h), NEW b \in Blocks, Run(b) \subseteq FreeIn(h)
  PROVE  \E p \in HeadsOf(h) : h[p].size >= b.n
<1>1. b.start \in Nat /\ b.n \in Nat \ {0} /\ b.start \in Run(b)
  BY RunFacts
<1>2. PICK p \in HeadsOf(h) : p <= b.start /\ b.start < p + h[p].size
  BY <1>1 DEF FreeIn
<1>3. p \in Int /\ h[p].size \in Nat
  BY Neighbours, FrameTypes, Zenon
<1>4. SUFFICES ASSUME h[p].size < b.n PROVE FALSE
  BY <1>1, <1>3
<1>5. p + h[p].size \in Run(b)
  BY <1>1, <1>2, <1>3, <1>4 DEF Run
<1>6. PICK q \in HeadsOf(h) : q <= p + h[p].size /\ p + h[p].size < q + h[q].size
  BY <1>5 DEF FreeIn
<1>7. /\ q < p => q + h[q].size < p
      /\ p < q => p + h[p].size < q
      /\ q \in Int /\ h[q].size \in Nat
  BY BesideHead, Neighbours
<1>. QED  BY <1>3, <1>6, <1>7

\* A call that returns PAGENIL found no region that is large enough, so the pool has no run.
LEMMA RefuseStep ==
  ASSUME CoreInv, Core, NEW t \in PfThreads, pflock \in {t, NoThread}, call[t].pc # "free",
         NEW n \in 1 .. MaxRun, ReturnNil(t, n), \A q \in HeadsOf(hdr) : hdr[q].size < n
  PROVE  CoreInv' /\ Core' /\ Pool!Refuse(n)
<1>1. /\ UNCHANGED <<first_free_page, hdr, total_allocated_pages, pffault, pfuse, blocks>>
      /\ pflock' = NoThread /\ call' = [call EXCEPT ![t] = PfIdle] /\ refused' = n
  BY DEF ReturnNil
<1>2. call \in [PfThreads -> Calls] /\ blocks \subseteq Blocks
  BY DEF CoreInv, PfTypeOK
<1>3. PfIdle \in Calls
  BY DEF PfIdle, Calls, PfPcs, Links
<1>4. ASSUME NEW u \in PfThreads PROVE LoopOK(u)' /\ call'[u].pc # "free"
  <2>1. NoThread # u
    BY PfAssumption
  <2>2. CASE u = t
    <3>1. call'[u] = PfIdle
      BY <1>1, <1>2, <2>2
    <3>. QED  BY <1>1, <2>1, <3>1 DEF LoopOK, PfIdle
  <2>3. CASE u # t
    <3>1. call'[u] = call[u]
      BY <1>1, <1>2, <2>3
    <3>2. pflock # u /\ pflock' # u
      BY <1>1, <2>1, <2>3
    <3>3. LoopOK(u) /\ call[u].pc = "idle"
      BY <3>2, OthersIdle DEF CoreInv
    <3>. QED  BY <3>1, <3>2, <3>3, IdleKept
  <2>. QED  BY <2>2, <2>3
<1>5. Owned' = Owned
  <2>1. Owned = blocks
    BY OwnedIs DEF CoreInv
  <2>2. Freeing' = {}
    BY <1>4 DEF Freeing
  <2>. QED  BY <1>1, <2>1, <2>2 DEF Owned
<1>6. n \in 0 .. MaxRun /\ n \in Nat
  BY PfAssumption
<1>7. CoreInv' /\ Core' /\ FreeFrames' = FreeFrames
  <2>1. call' \in [PfThreads -> Calls]
    BY <1>1, <1>2, <1>3
  <2>. QED  BY <1>1, <1>2, <1>4, <1>5, <1>6, <2>1, KeptList
<1>8. FreeFrames = FreeIn(hdr)
  BY FreeFramesIs DEF CoreInv
<1>9. ASSUME NEW b \in Blocks, b.n = n, Run(b) \subseteq FreeIn(hdr) PROVE FALSE
  <2>1. PICK p \in HeadsOf(hdr) : hdr[p].size >= n
    BY <1>9, RunInRegion DEF CoreInv
  <2>2. hdr[p].size \in Nat
    BY Neighbours DEF CoreInv
  <2>. QED  BY <1>6, <2>1, <2>2
<1>10. Pool!Refuse(n)
  BY <1>1, <1>5, <1>7, <1>8, <1>9 DEF Pool!Refuse, Pool!Run, Pool!Blocks, Run, Blocks
<1>. QED  BY <1>7, <1>10

----------------------------------------------------------------------------
(* The actions *)

\* What one step does to the pool.
PoolStep == Pool!PoolNext \/ UNCHANGED poolvars

\* The walk of a call starts at the first region: nothing is behind it.
LEMMA NothingBehind ==
  ASSUME NEW f, NEW h, ListOK(f, h)
  PROVE  /\ f \in HeadsOf(h) \cup {NIL} /\ f \in Links
         /\ {q \in HeadsOf(h) : f = NIL \/ q < f} = {}
         /\ f = NIL => HeadsOf(h) = {}
<1>1. PICK H : H = HeadsOf(h)
  OBVIOUS
<1>2. IsFirst(H, f) /\ H \subseteq Int /\ NIL \notin H /\ H \subseteq Links
  BY <1>1, FrameTypes, Zenon DEF ListOK, HeadsOf, Links
<1>3. f \in H \cup {NIL} /\ f \in Links /\ (f = NIL => H = {})
  BY <1>2, Zenon DEF IsFirst, Links
<1>4. ASSUME NEW q \in H, f = NIL \/ q < f PROVE FALSE
  <2>1. f \in H /\ f <= q /\ f # NIL
    BY <1>2 DEF IsFirst
  <2>2. f \in Int /\ q \in Int /\ q < f
    BY <1>2, <1>4, <2>1
  <2>. QED  BY <2>1, <2>2
<1>. QED  BY <1>1, <1>3, <1>4

\* A call takes kpagealloc_lockno.
LEMMA EnterFrame ==
  ASSUME CoreInv, NEW t \in PfThreads, NEW c \in Calls, Enter(t, c)
  PROVE  /\ UNCHANGED <<first_free_page, hdr, total_allocated_pages, refused, pffault, pfuse>>
         /\ pflock = NoThread /\ pflock' = t /\ call'[t] = c
         /\ call' \in [PfThreads -> Calls]
         /\ \A u \in PfThreads : u # t => LoopOK(u)' /\ call'[u].pc = "idle"
         /\ Owned = blocks
         /\ c.pc # "free" => Owned' = blocks'
         /\ c.pc = "free" => Owned' = blocks' \cup {[start |-> c.start, n |-> c.n]}
<1>1. /\ UNCHANGED <<first_free_page, hdr, total_allocated_pages, refused, pffault, pfuse>>
      /\ pflock = NoThread /\ pflock' = t /\ call' = [call EXCEPT ![t] = c]
  BY DEF Enter
<1>2. call \in [PfThreads -> Calls]
  BY DEF CoreInv, PfTypeOK
<1>3. call'[t] = c /\ call' \in [PfThreads -> Calls]
  BY <1>1, <1>2
<1>4. ASSUME NEW u \in PfThreads, u # t PROVE LoopOK(u)' /\ call'[u].pc = "idle"
  <2>1. call'[u] = call[u]
    BY <1>1, <1>2, <1>4
  <2>2. pflock # u /\ pflock' # u
    BY <1>1, <1>4, PfAssumption
  <2>3. LoopOK(u) /\ call[u].pc = "idle"
    BY <2>2, OthersIdle DEF CoreInv
  <2>. QED  BY <2>1, <2>2, <2>3, IdleKept
<1>5. Owned = blocks
  <2>1. pflock # t
    BY <1>1, PfAssumption
  <2>2. call[t].pc = "idle"
    BY <2>1, OthersIdle DEF CoreInv
  <2>. QED  BY <1>1, <2>2, OwnedIs DEF CoreInv
<1>6. ASSUME c.pc # "free" PROVE Owned' = blocks'
  <2>1. Freeing' = {}
    BY <1>3, <1>4, <1>6 DEF Freeing
  <2>. QED  BY <2>1 DEF Owned
<1>7. ASSUME c.pc = "free" PROVE Owned' = blocks' \cup {[start |-> c.start, n |-> c.n]}
  <2>1. Freeing' = {t}
    BY <1>3, <1>4, <1>7 DEF Freeing
  <2>. QED  BY <1>3, <2>1 DEF Owned, Given
<1>. QED  BY <1>1, <1>3, <1>4, <1>5, <1>6, <1>7

\* AllocCall keeps the invariant.
LEMMA AllocCallStep ==
  ASSUME CoreInv, Core, NEW t \in PfThreads, NEW n \in 1 .. MaxRun, AllocCall(t, n)
  PROVE  CoreInv' /\ Core' /\ PoolStep
<1>1. PICK c : c = [PfIdle EXCEPT !.pc = "alloc", !.n = n, !.iter = first_free_page]
  OBVIOUS
<1>2. /\ c.pc = "alloc" /\ c.n = n /\ c.iter = first_free_page /\ c.winner = NIL
      /\ c.grow = NoBlock
  BY <1>1 DEF PfIdle
<1>3. /\ first_free_page \in HeadsOf(hdr) \cup {NIL} /\ first_free_page \in Links
      /\ {q \in HeadsOf(hdr) : first_free_page = NIL \/ q < first_free_page} = {}
  BY NothingBehind DEF CoreInv
<1>4. c \in Calls
  <2>1. n \in Nat
    BY PfAssumption
  <2>. QED  BY <1>1, <1>3, <2>1, Zenon DEF PfIdle, Calls, PfPcs, Links
<1>5. Enter(t, c) /\ UNCHANGED blocks
  BY <1>1 DEF AllocCall
<1>6. /\ UNCHANGED <<first_free_page, hdr, total_allocated_pages, refused, pffault, pfuse>>
      /\ pflock' = t /\ call'[t] = c
      /\ call' \in [PfThreads -> Calls]
      /\ \A u \in PfThreads : u # t => LoopOK(u)'
      /\ Owned = blocks /\ Owned' = blocks'
  BY <1>2, <1>4, <1>5, EnterFrame, ZenonT(30)
<1>7. LoopOK(t)'
  <2>1. Behind(t)' = {}
    BY <1>2, <1>3, <1>6 DEF Behind
  <2>. QED  BY <1>2, <1>3, <1>6, <2>1 DEF LoopOK
<1>8. blocks \subseteq Blocks /\ refused \in 0 .. MaxRun
  BY DEF CoreInv, PfTypeOK
<1>9. CoreInv' /\ Core' /\ FreeFrames' = FreeFrames
  BY <1>5, <1>6, <1>7, <1>8, KeptList
<1>. QED  BY <1>5, <1>6, <1>9 DEF PoolStep, poolvars

\* kpageframe_free takes a block back: it has no new owner until it is in the list.
LEMMA FreeCallStep ==
  ASSUME CoreInv, Core, NEW t \in PfThreads, NEW b \in blocks, Free(t, b)
  PROVE  CoreInv' /\ Core' /\ PoolStep
<1>1. PICK c : c = [PfIdle EXCEPT !.pc = "free", !.n = b.n - 0, !.start = b.start + 0,
                                  !.iter = first_free_page]
  OBVIOUS
<1>2. blocks \subseteq Blocks /\ refused \in 0 .. MaxRun /\ b \in Blocks
  BY DEF CoreInv, PfTypeOK
<1>3. b.start \in Nat /\ b.n \in Nat \ {0} /\ b = [start |-> b.start, n |-> b.n]
  BY <1>2, RunFacts
<1>4. /\ c.pc = "free" /\ c.n = b.n /\ c.start = b.start /\ c.iter = first_free_page
      /\ c.winner = NIL /\ c.grow = NoBlock
  BY <1>1, <1>3 DEF PfIdle
<1>5. /\ first_free_page \in HeadsOf(hdr) \cup {NIL} /\ first_free_page \in Links
      /\ {q \in HeadsOf(hdr) : first_free_page = NIL \/ q < first_free_page} = {}
      /\ first_free_page = NIL => HeadsOf(hdr) = {}
  BY NothingBehind DEF CoreInv
<1>6. c \in Calls
  <2>1. b.start \in Links
    BY <1>2, PfAssumption DEF Blocks, Links, Frames
  <2>2. b.n - 0 \in Nat /\ b.start + 0 \in Links
    BY <1>3, <2>1
  <2>. QED  BY <1>1, <1>5, <2>2, Zenon DEF PfIdle, Calls, PfPcs, Links
<1>7. Enter(t, c) /\ blocks' = blocks \ {b}
  BY <1>1 DEF Free, FreeCall
<1>8. /\ UNCHANGED <<first_free_page, hdr, total_allocated_pages, refused, pffault, pfuse>>
      /\ pflock' = t /\ call'[t] = c
      /\ call' \in [PfThreads -> Calls]
      /\ \A u \in PfThreads : u # t => LoopOK(u)'
      /\ Owned = blocks /\ Owned' = blocks' \cup {b}
  BY <1>3, <1>4, <1>6, <1>7, EnterFrame
<1>9. Owned' = Owned
  BY <1>7, <1>8
<1>10. LoopOK(t)'
  <2>1. Behind(t)' = {}
    BY <1>4, <1>5, <1>8 DEF Behind
  <2>2. Given(t)' = b
    BY <1>3, <1>4, <1>8 DEF Given
  <2>3. Given(t)' \in Blocks \ blocks'
    BY <1>2, <1>7, <2>2
  <2>. QED  BY <1>4, <1>5, <1>8, <2>1, <2>3 DEF LoopOK
<1>11. CoreInv' /\ Core' /\ FreeFrames' = FreeFrames
  BY <1>2, <1>7, <1>8, <1>9, <1>10, KeptList, Zenon
<1>. QED  BY <1>8, <1>9, <1>11 DEF PoolStep, poolvars

\* The loop of t goes on with the region behind i: what holds of the regions behind t
\* and of i holds of the regions behind t then.
LEMMA AdvanceStep ==
  ASSUME CoreInv, Core, NEW t \in PfThreads, NEW i, i = call[t].iter, i \in HeadsOf(hdr),
         pflock = t, Advance(t, NIL),
         call[t].pc = "alloc" => hdr[i].size < call[t].n,
         call[t].pc = "free" => hdr[i].next # NIL /\ i + hdr[i].size < call[t].start
  PROVE  CoreInv' /\ Core' /\ PoolStep
<1>1. PICK c : c = [call[t] EXCEPT !.iter = hdr[i].next, !.winner = NIL]
  OBVIOUS
<1>2. call \in [PfThreads -> Calls] /\ blocks \subseteq Blocks /\ refused \in 0 .. MaxRun
  BY DEF CoreInv, PfTypeOK
<1>3. call[t] \in Calls
  BY <1>2
<1>4. /\ c.pc = call[t].pc /\ c.n = call[t].n /\ c.start = call[t].start
      /\ c.iter = hdr[i].next /\ c.winner = NIL /\ c.grow = call[t].grow
  BY <1>1, <1>3 DEF Calls
<1>5. hdr[i].next \in Links /\ (hdr[i].next = NIL \/ hdr[i].next \in HeadsOf(hdr))
  BY LinksOf, Neighbours DEF CoreInv
<1>6. c \in Calls
  BY <1>1, <1>3, <1>5, Zenon DEF Calls, Links
<1>7. /\ call' = [call EXCEPT ![t] = c]
      /\ UNCHANGED <<first_free_page, hdr, pflock, blocks, total_allocated_pages, refused,
                     pffault, pfuse>>
  BY <1>1, <1>2, <1>3, Zenon DEF Advance
<1>8. call'[t] = c /\ call' \in [PfThreads -> Calls] /\ \A u \in PfThreads \ {t} : call'[u] = call[u]
  BY <1>2, <1>6, <1>7
<1>9. Behind(t)' \subseteq Behind(t) \cup {i}
  <2>1. IsNext(HeadsOf(hdr), i, hdr[i].next) /\ HeadsOf(hdr) \subseteq Int /\ i \in Int
    BY FrameTypes, Zenon DEF CoreInv, ListOK, HeadsOf
  <2>2. \A q \in HeadsOf(hdr) : hdr[i].next = NIL \/ q < hdr[i].next => q <= i
    <3>1. PICK H, y : H = HeadsOf(hdr) /\ y = hdr[i].next
      OBVIOUS
    <3>2. H \subseteq Int /\ NIL \notin H /\ IsNext(H, i, y) /\ i \in Int
      BY <2>1, <3>1, FrameTypes DEF HeadsOf
    <3>3. ASSUME NEW q \in H, y = NIL \/ q < y PROVE q <= i
      <4>1. q \in Int /\ i \in Int /\ (y \in H => y \in Int /\ y # NIL)
        BY <3>2, ZenonT(30)
      <4>2. CASE y = NIL
        BY <3>2, <4>1, <4>2 DEF IsNext
      <4>3. CASE y # NIL
        <5>1. y \in H /\ (q > i => y <= q)
          BY <3>2, <4>3 DEF IsNext
        <5>. QED  BY <3>3, <4>1, <4>3, <5>1
      <4>. QED  BY <4>2, <4>3
    <3>. QED  BY <3>1, <3>3
  <2>3. Behind(t)' = {q \in HeadsOf(hdr) : hdr[i].next = NIL \/ q < hdr[i].next}
    BY <1>4, <1>7, <1>8, Zenon DEF Behind
  <2>. QED  BY <2>1, <2>2, <2>3 DEF Behind
<1>10. LoopOK(t)'
  <2>1. LoopOK(t)
    BY DEF CoreInv
  <2>2. Given(t)' = Given(t)
    BY <1>4, <1>8 DEF Given
  <2>. QED  BY <1>4, <1>5, <1>7, <1>8, <1>9, <2>1, <2>2, Zenon DEF LoopOK
<1>11. ASSUME NEW u \in PfThreads, u # t PROVE LoopOK(u)'
  <2>1. LoopOK(u) /\ pflock # u /\ pflock' # u /\ call'[u] = call[u]
    BY <1>7, <1>8, <1>11 DEF CoreInv
  <2>. QED  BY <2>1, IdleKept
<1>12. Owned' = Owned
  <2>1. \A u \in PfThreads : call'[u].pc = call[u].pc /\ Given(u)' = Given(u)
    BY <1>4, <1>8 DEF Given
  <2>2. Freeing' = Freeing
    BY <2>1 DEF Freeing
  <2>3. {Given(u) : u \in Freeing}' = {Given(u) : u \in Freeing}
    BY <2>1, <2>2 DEF Freeing
  <2>. QED  BY <1>7, <2>3 DEF Owned
<1>13. pflock \in PfThreads \cup {NoThread}
  OBVIOUS
<1>14. CoreInv' /\ Core' /\ FreeFrames' = FreeFrames
  BY <1>2, <1>7, <1>8, <1>10, <1>11, <1>12, <1>13, KeptList, Zenon
<1>. QED  BY <1>7, <1>12, <1>14 DEF PoolStep, poolvars

\* The pages of a region are free, and its assertions hold.
LEMMA HeadFacts ==
  ASSUME CoreInv, NEW i \in HeadsOf(hdr)
  PROVE  /\ ListOK(first_free_page, hdr)
         /\ i \in Nat /\ i \in Frames /\ hdr[i].size \in Nat \ {0} /\ i + hdr[i].size <= PageCount
         /\ OnlyFirst(i) /\ Ordered(i)
         /\ \A x \in Int : i <= x /\ x < i + hdr[i].size => x \in FreeIn(hdr)
<1>1. ListOK(first_free_page, hdr)
  BY DEF CoreInv
<1>2. /\ i \in Frames /\ hdr[i].size \in Nat \ {0} /\ i + hdr[i].size <= PageCount
      /\ hdr[i].prev = NIL \/ (hdr[i].prev \in HeadsOf(hdr) /\ hdr[i].prev < i)
      /\ hdr[i].next = NIL \/ (hdr[i].next \in HeadsOf(hdr) /\ hdr[i].next > i + hdr[i].size)
      /\ hdr[i].prev = NIL <=> first_free_page = i
  BY <1>1, Neighbours
<1>3. i \in Nat
  BY <1>2, PfAssumption DEF Frames
<1>4. hdr[i].next \in HeadsOf(hdr) => hdr[i].next \in Int
  BY FrameTypes, ZenonT(30) DEF HeadsOf
<1>5. Ordered(i)
  BY <1>2, <1>3, <1>4 DEF Ordered
<1>6. OnlyFirst(i)
  BY <1>2 DEF OnlyFirst
<1>7. ASSUME NEW x \in Int, i <= x, x < i + hdr[i].size PROVE x \in FreeIn(hdr)
  <2>1. x \in Frames
    BY <1>2, <1>3, <1>7, PfAssumption, SMTT(20) DEF Frames
  <2>. QED  BY <1>7, <2>1 DEF FreeIn
<1>. QED  BY <1>1, <1>2, <1>3, <1>5, <1>6, <1>7

\* take_iter hands out the first n pages of a region that has them.
LEMMA TakeStep ==
  ASSUME CoreInv, Core, NEW t \in PfThreads, pflock = t, call[t].pc # "free",
         NEW i \in HeadsOf(hdr), NEW n \in 1 .. MaxRun, n <= hdr[i].size, Take(t, i, n)
  PROVE  CoreInv' /\ Core' /\ PoolStep
<1>1. /\ ListOK(first_free_page, hdr)
      /\ i \in Nat /\ hdr[i].size \in Nat \ {0} /\ i + hdr[i].size <= PageCount
      /\ Ordered(i)
      /\ \A x \in Int : i <= x /\ x < i + hdr[i].size => x \in FreeIn(hdr)
  BY HeadFacts
<1>2. n \in Nat \ {0}
  BY PfAssumption
<1>3. PICK b : b = [start |-> i, n |-> n]
  BY ZenonT(30)
<1>4. b \in Blocks /\ b.start = i /\ b.n = n /\ Run(b) = i .. i + n - 1
  BY <1>1, <1>2, <1>3, PfAssumption, SMTT(20) DEF Blocks, Run
<1>5. PICK l : l = IF hdr[i].size = n THEN Unlinked(ListOf(first_free_page, hdr), i)
                   ELSE Moved(ListOf(first_free_page, hdr), i, i + n, hdr[i].size - n)
  OBVIOUS
<1>6. PICK g, k : l = ListOf(g, k) /\ ListOK(g, k) /\ FreeIn(k) = FreeIn(hdr) \ (i .. i + n - 1)
  BY <1>1, <1>2, <1>5, TakeOf
<1>7. PICK tot : tot = total_allocated_pages + n
  BY Zenon
<1>8. Return(t, ListOf(g, k), blocks \cup {b}, tot)
  <2>1. ~Fails(Ordered(i) /\ hdr[i].size >= n)
    BY <1>1, <1>2, Zenon DEF Fails
  <2>2. List = ListOf(first_free_page, hdr)
    BY DEF List, ListOf
  <2>3. Return(t, l, blocks \cup {b}, tot)
    BY <1>3, <1>5, <1>7, <2>1, <2>2 DEF Take
  <2>. QED  BY <1>6, <2>3, Zenon
<1>9. CASE Panic("wild") /\ pfuse.asserts
  BY <1>9, PanicStep DEF PoolStep
<1>10. CASE Leave(t, ListOf(g, k), blocks \cup {b}, tot)
  <2>1. tot \in Int
    BY <1>2, <1>7, PfAssumption, SMTT(20) DEF CoreInv, PfTypeOK
  <2>2. Run(b) \subseteq FreeIn(hdr)
    BY <1>1, <1>2, <1>4, SMTT(20)
  <2>3. b.start + b.n <= PageCount
    BY <1>1, <1>2, <1>4, PfAssumption
  <2>4. GrantRoom(t, b, g, k, tot)
    BY <1>4, <1>6, <1>7, <2>1, <2>2, <2>3, ZenonT(30) DEF GrantRoom
  <2>5. CoreInv' /\ Core' /\ \E c \in Blocks : Pool!Grant(c)
    BY <1>10, <2>4, GrantStep
  <2>. QED  BY <2>5, Zenon DEF PoolStep, Pool!PoolNext, Pool!Blocks, Blocks
<1>. QED  BY <1>6, <1>8, <1>9, <1>10, ReturnStep, Zenon

\* One iteration of the loop of __kpageframe_alloc_many.
LEMMA AllocStepStep ==
  ASSUME CoreInv, Core, NEW t \in PfThreads, AllocStep(t)
  PROVE  CoreInv' /\ Core' /\ PoolStep
<1>1. LoopOK(t)
  BY ZenonT(30) DEF CoreInv
<1>2. call[t].pc = "alloc" /\ call[t].iter # NIL
  BY <1>1, Zenon DEF AllocStep, PfAt, LoopOK
<1>3. PICK i, n : i = call[t].iter /\ n = call[t].n
  BY Zenon
<1>4. pflock = t /\ i \in HeadsOf(hdr) /\ n \in 1 .. MaxRun /\ call[t].winner = NIL
  BY <1>1, <1>2, <1>3, ZenonT(30) DEF LoopOK
<1>5. /\ hdr[i].size \in Nat \ {0} /\ OnlyFirst(i)
  BY <1>4, HeadFacts, Zenon
<1>6. IF hdr[i].size >= n THEN Take(t, i, n) ELSE Advance(t, NIL)
  <2>1. ~Fails(hdr[i].size # 0 /\ OnlyFirst(i))
    BY <1>5 DEF Fails
  <2>. QED  BY <1>2, <1>3, <1>4, <2>1 DEF AllocStep
<1>7. CASE hdr[i].size >= n
  <2>1. n <= hdr[i].size /\ Take(t, i, n)
    BY <1>4, <1>5, <1>6, <1>7
  <2>. QED  BY <1>2, <1>4, <2>1, TakeStep
<1>8. CASE ~(hdr[i].size >= n)
  <2>1. hdr[i].size < n /\ Advance(t, NIL)
    BY <1>4, <1>5, <1>6, <1>8
  <2>. QED  BY <1>2, <1>3, <1>4, <2>1, AdvanceStep
<1>. QED  BY <1>7, <1>8

\* The end of the list: the request is refused.
LEMMA AllocNoneStep ==
  ASSUME CoreInv, Core, NEW t \in PfThreads, AllocNone(t)
  PROVE  CoreInv' /\ Core' /\ PoolStep
<1>1. LoopOK(t)
  BY DEF CoreInv
<1>2. call[t].pc = "alloc" /\ call[t].iter = NIL
  BY <1>1 DEF AllocNone, PfAt, LoopOK
<1>3. PICK n : n = call[t].n
  OBVIOUS
<1>4. pflock = t /\ n \in 1 .. MaxRun /\ call[t].winner = NIL
  BY <1>1, <1>2, <1>3 DEF LoopOK
<1>5. \A q \in HeadsOf(hdr) : hdr[q].size < n
  BY <1>1, <1>2, <1>3 DEF LoopOK, Behind
<1>6. ReturnNil(t, n)
  BY <1>3, <1>4 DEF AllocNone
<1>7. CoreInv' /\ Core' /\ Pool!Refuse(n)
  BY <1>2, <1>4, <1>5, <1>6, RefuseStep
<1>. QED  BY <1>4, <1>7, Zenon DEF PoolStep, Pool!PoolNext

\* __kpageframe_alloc_one
LEMMA AllocOneStep ==
  ASSUME CoreInv, Core, NEW t \in PfThreads, AllocOne(t)
  PROVE  CoreInv' /\ Core' /\ PoolStep
<1>1. ListOK(first_free_page, hdr) /\ pflock \in {t, NoThread} /\ call[t].pc # "free"
  BY DEF CoreInv, AllocOne, Can
<1>2. CASE first_free_page = NIL
  <2>1. \A q \in HeadsOf(hdr) : hdr[q].size < 1
    BY <1>1, <1>2, NothingBehind
  <2>2. 1 \in 1 .. MaxRun /\ ReturnNil(t, 1)
    BY <1>2, PfAssumption DEF AllocOne
  <2>3. CoreInv' /\ Core' /\ Pool!Refuse(1)
    BY <1>1, <2>1, <2>2, RefuseStep
  <2>. QED  BY <2>2, <2>3, Zenon DEF PoolStep, Pool!PoolNext
<1>3. CASE first_free_page # NIL
  <2>1. PICK f : f = first_free_page
    OBVIOUS
  <2>2. PICK l :
          l = IF hdr[f].size # 1
              THEN WithHdr([WithPrev(WithHdr(ListOf(f, hdr), f, NoHdr), hdr[f].next, f + 1)
                              EXCEPT !.first = f + 1],
                           f + 1, Header(hdr[f].size - 1, NIL, hdr[f].next))
              ELSE WithPrev([WithHdr(ListOf(f, hdr), f, NoHdr) EXCEPT !.first = hdr[f].next],
                            hdr[f].next, NIL)
    OBVIOUS
  <2>3. f \in HeadsOf(hdr) /\ \E g, k : /\ l = ListOf(g, k)
                                        /\ ListOK(g, k)
                                        /\ FreeIn(k) = FreeIn(hdr) \ (f .. f + 1 - 1)
    BY <1>1, <1>3, <2>1, <2>2, TakeOneOf
  <2>4. PICK g, k : /\ l = ListOf(g, k)
                    /\ ListOK(g, k)
                    /\ FreeIn(k) = FreeIn(hdr) \ (f .. f + 1 - 1)
    BY <2>3
  <2>5. /\ f \in Nat /\ hdr[f].size \in Nat \ {0} /\ f + hdr[f].size <= PageCount
        /\ \A x \in Int : f <= x /\ x < f + hdr[f].size => x \in FreeIn(hdr)
    BY <2>3, HeadFacts
  <2>6. PICK b : b = [start |-> f, n |-> 1]
    BY Zenon
  <2>7. /\ b \in Blocks /\ b.start = f /\ b.n = 1 /\ Run(b) = f .. f + 1 - 1
        /\ b.start + b.n <= PageCount
    BY <2>5, <2>6, PfAssumption DEF Blocks, Run
  <2>8. Leave(t, ListOf(g, k), blocks \cup {b}, total_allocated_pages)
    <3>1. ~Fails(hdr[f].size # 0)
      BY <2>5 DEF Fails
    <3>2. List = ListOf(f, hdr)
      BY <2>1 DEF List, ListOf
    <3>3. Leave(t, l, blocks \cup {b}, total_allocated_pages)
      BY <1>3, <2>1, <2>2, <2>6, <3>1, <3>2, Zenon DEF AllocOne
    <3>. QED  BY <2>4, <3>3
  <2>9. GrantRoom(t, b, g, k, total_allocated_pages)
    <3>1. total_allocated_pages \in Int
      BY PfAssumption DEF CoreInv, PfTypeOK
    <3>2. Run(b) \subseteq FreeIn(hdr)
      BY <2>5, <2>7
    <3>3. ~(pfuse.calls \subseteq {"alloc", "free"})
      BY DEF AllocOne, Can
    <3>. QED  BY <1>1, <2>4, <2>7, <3>1, <3>2, <3>3, Zenon DEF GrantRoom
  <2>10. CoreInv' /\ Core' /\ \E c \in Blocks : Pool!Grant(c)
    BY <2>8, <2>9, GrantStep, Zenon
  <2>. QED  BY <2>10, Zenon DEF PoolStep, Pool!PoolNext, Pool!Blocks, Blocks
<1>. QED  BY <1>2, <1>3

\* kpageframe_free returns with the pages of its block in the list.
LEMMA GivenBack ==
  ASSUME CoreInv, Core, NEW t \in PfThreads, call[t].pc = "free", NEW b, b = Given(t), NEW l,
         Return(t, l, blocks, total_allocated_pages - call[t].n),
         \E g, k : l = ListOf(g, k) /\ ListOK(g, k) /\ FreeIn(k) = FreeIn(hdr) \cup Run(b)
  PROVE  CoreInv' /\ Core' /\ PoolStep
<1>1. PICK g, k : l = ListOf(g, k) /\ ListOK(g, k) /\ FreeIn(k) = FreeIn(hdr) \cup Run(b)
  OBVIOUS
<1>2. PICK tot : tot = total_allocated_pages - call[t].n
  OBVIOUS
<1>3. Return(t, ListOf(g, k), blocks, tot)
  BY <1>1, <1>2
<1>4. CASE Panic("wild") /\ pfuse.asserts
  BY <1>4, PanicStep DEF PoolStep
<1>5. CASE Leave(t, ListOf(g, k), blocks, tot)
  <2>1. CoreInv' /\ Core' /\ \E c \in Blocks : Pool!GiveBack(c)
    BY <1>1, <1>2, <1>5, GiveStep, Zenon
  <2>. QED  BY <2>1, Zenon DEF PoolStep, Pool!PoolNext, Pool!Blocks, Blocks
<1>. QED  BY <1>1, <1>3, <1>4, <1>5, ReturnStep, ZenonT(30)

\* What the loop of kpageframe_free knows of its block b and of the region i it looks at.
Placed(b, i) ==
  /\ b \in Blocks /\ b.start + b.n <= PageCount
  /\ b.start \in Frames \ HeadsOf(hdr)
  /\ i \in HeadsOf(hdr)
  /\ \A q \in HeadsOf(hdr) : q < i => q + hdr[q].size < b.start
  /\ \A q \in HeadsOf(hdr) : q + hdr[q].size <= b.start \/ b.start + b.n <= q

\* The block shares no frame with the list.
LEMMA PlacedIs ==
  ASSUME CoreInv, NEW t \in PfThreads, call[t].pc = "free", NEW b, b = Given(t)
  PROVE  /\ b \in Blocks /\ b.start + b.n <= PageCount
         /\ b.start \in Frames \ HeadsOf(hdr)
         /\ call[t].iter # NIL => Placed(b, call[t].iter)
<1>1. LoopOK(t)
  BY DEF CoreInv
<1>2. b \in Blocks /\ b.start = call[t].start
  BY <1>1 DEF LoopOK, Given
<1>3. b \in Owned
  BY OwnedIs, Zenon DEF CoreInv
<1>4. b.start + b.n <= PageCount /\ Run(b) \cap FreeIn(hdr) = {}
  BY <1>3 DEF CoreInv, OwnersOK
<1>5. b.start \in Nat /\ b.n \in Nat \ {0} /\ b.start \in Run(b)
  BY <1>2, RunFacts
<1>6. ASSUME NEW q \in HeadsOf(hdr) PROVE q + hdr[q].size <= b.start \/ b.start + b.n <= q
  <2>1. /\ q \in Nat /\ hdr[q].size \in Nat \ {0}
        /\ \A x \in Int : q <= x /\ x < q + hdr[q].size => x \in FreeIn(hdr)
    BY HeadFacts
  <2>2. SUFFICES ASSUME q + hdr[q].size > b.start, b.start + b.n > q PROVE FALSE
    BY <1>5, <2>1
  <2>3. CASE q <= b.start
    <3>1. b.start \in FreeIn(hdr)
      BY <1>5, <2>1, <2>2, <2>3
    <3>. QED  BY <1>4, <1>5, <3>1
  <2>4. CASE q > b.start
    <3>1. q \in Run(b)
      BY <1>5, <2>1, <2>2, <2>4 DEF Run
    <3>2. q \in FreeIn(hdr)
      BY <2>1
    <3>. QED  BY <1>4, <3>1, <3>2
  <2>. QED  BY <1>5, <2>1, <2>3, <2>4
<1>7. b.start \in Frames
  BY <1>4, <1>5, PfAssumption DEF Frames
<1>8. b.start \notin HeadsOf(hdr)
  <2>. SUFFICES ASSUME b.start \in HeadsOf(hdr) PROVE FALSE
    OBVIOUS
  <2>1. hdr[b.start].size \in Nat \ {0}
    BY HeadFacts
  <2>. QED  BY <1>5, <1>6, <2>1
<1>9. ASSUME call[t].iter # NIL PROVE Placed(b, call[t].iter)
  <2>1. call[t].iter \in HeadsOf(hdr)
    BY <1>1, <1>9 DEF LoopOK
  <2>2. \A q \in HeadsOf(hdr) : q < call[t].iter => q + hdr[q].size < b.start
    BY <1>1, <1>2 DEF LoopOK, Behind
  <2>. QED  BY <1>2, <1>4, <1>6, <1>7, <1>8, <2>1, <2>2, ZenonT(30) DEF Placed
<1>. QED  BY <1>2, <1>4, <1>7, <1>8, <1>9, Zenon

\* The block becomes a region before region i.
LEMMA RoomBefore ==
  ASSUME CoreInv, NEW b, NEW i, Placed(b, i), b.start + b.n < i
  PROVE  RoomAt(hdr, b.start, b.n, hdr[i].prev, i) /\ hdr[i].prev \in Links /\ i \in Links
<1>1. PICK H, s, n, x : H = HeadsOf(hdr) /\ s = b.start /\ n = b.n /\ x = hdr[i].prev
  OBVIOUS
<1>2. s \in Frames \ H /\ s \in Nat /\ n \in Nat \ {0} /\ s + n <= PageCount /\ i \in H
  BY <1>1, RunFacts DEF Placed
<1>3. H \subseteq Int /\ NIL \notin H /\ H \subseteq Links /\ i \in Int
  BY <1>1, <1>2, FrameTypes, Zenon DEF HeadsOf, Links
<1>4. IsPrev(H, i, x) /\ x \in Links
  BY <1>1, <1>2, LinksOf DEF CoreInv, ListOK
<1>5. \A q \in H : q < i => q + hdr[q].size < s /\ hdr[q].size \in Nat
  BY <1>1, HeadFacts DEF Placed
<1>6. \A q \in H : q < i => q < s
  <2>. SUFFICES ASSUME NEW q \in H, q < i PROVE q < s
    OBVIOUS
  <2>1. q \in Int /\ q + hdr[q].size < s /\ hdr[q].size \in Nat
    BY <1>3, <1>5
  <2>. QED  BY <1>2, <2>1
<1>7. s < i /\ s + n < i
  BY <1>1, <1>2, <1>3
<1>8. IsNext(H, s, i)
  <2>1. \A q \in H : q > s => i <= q
    <3>. SUFFICES ASSUME NEW q \in H, q > s, ~(i <= q) PROVE FALSE
      OBVIOUS
    <3>1. q \in Int /\ q < i
      BY <1>3
    <3>2. q < s
      BY <1>6, <3>1
    <3>. QED  BY <1>2, <3>1, <3>2
  <2>. QED  BY <1>2, <1>3, <1>7, <2>1 DEF IsNext
<1>9. CASE x = NIL
  <2>1. \A q \in H : s <= q
    <3>. SUFFICES ASSUME NEW q \in H PROVE s <= q
      OBVIOUS
    <3>1. q \in Int /\ i <= q
      BY <1>3, <1>4, <1>9 DEF IsPrev
    <3>. QED  BY <1>2, <1>3, <1>7, <3>1
  <2>2. IsPrev(H, s, x)
    BY <1>9, <2>1 DEF IsPrev
  <2>. QED  BY <1>1, <1>2, <1>3, <1>4, <1>7, <1>8, <1>9, <2>2, Zenon DEF RoomAt
<1>10. CASE x # NIL
  <2>1. x \in H /\ x < i /\ x \in Int
    BY <1>3, <1>4, <1>10 DEF IsPrev
  <2>2. x + hdr[x].size < s /\ x < s
    BY <1>5, <1>6, <2>1
  <2>3. \A q \in H : q < s => q <= x
    <3>. SUFFICES ASSUME NEW q \in H, q < s PROVE q <= x
      OBVIOUS
    <3>1. q \in Int /\ q < i
      BY <1>2, <1>3, <1>7
    <3>. QED  BY <1>4, <1>10, <3>1 DEF IsPrev
  <2>4. IsPrev(H, s, x)
    BY <2>1, <2>2, <2>3, Zenon DEF IsPrev
  <2>. QED  BY <1>1, <1>2, <1>3, <1>4, <1>7, <1>8, <2>2, <2>4, Zenon DEF RoomAt
<1>. QED  BY <1>9, <1>10

\* The block becomes the last region.
LEMMA RoomBehind ==
  ASSUME CoreInv, NEW b, NEW i, Placed(b, i), i + hdr[i].size < b.start, hdr[i].next = NIL
  PROVE  RoomAt(hdr, b.start, b.n, i, NIL) /\ i \in Links /\ NIL \in Links
<1>1. PICK H, s, n : H = HeadsOf(hdr) /\ s = b.start /\ n = b.n
  OBVIOUS
<1>2. s \in Frames \ H /\ s \in Nat /\ n \in Nat \ {0} /\ s + n <= PageCount /\ i \in H
  BY <1>1, RunFacts DEF Placed
<1>3. H \subseteq Int /\ NIL \notin H /\ i \in Links /\ i \in Int /\ hdr[i].size \in Nat
  BY <1>1, <1>2, FrameTypes, HeadFacts, Zenon DEF HeadsOf, Links
<1>4. \A q \in H : q <= i
  <2>1. IsNext(H, i, NIL)
    BY <1>1, <1>2 DEF CoreInv, ListOK
  <2>. QED  BY <1>3, <2>1 DEF IsNext
<1>5. i + hdr[i].size < s /\ i < s
  BY <1>1, <1>2, <1>3
<1>6. IsPrev(H, s, i)
  BY <1>2, <1>4, <1>5 DEF IsPrev
<1>7. IsNext(H, s, NIL)
  <2>1. \A q \in H : q <= s
    <3>. SUFFICES ASSUME NEW q \in H PROVE q <= s
      OBVIOUS
    <3>1. q \in Int /\ q <= i
      BY <1>3, <1>4
    <3>. QED  BY <1>2, <1>3, <1>5, <3>1
  <2>. QED  BY <2>1 DEF IsNext
<1>8. RoomAt(hdr, s, n, i, NIL)
  BY <1>1, <1>2, <1>5, <1>6, <1>7, Zenon DEF RoomAt
<1>. QED  BY <1>1, <1>3, <1>8 DEF Links

\* The block becomes the only region.
LEMMA RoomAlone ==
  ASSUME HeadsOf(hdr) = {}, NEW b \in Blocks, b.start + b.n <= PageCount, b.start \in Frames
  PROVE  RoomAt(hdr, b.start, b.n, NIL, NIL)
<1>1. b.n \in Nat \ {0}
  BY RunFacts
<1>2. IsPrev(HeadsOf(hdr), b.start, NIL) /\ IsNext(HeadsOf(hdr), b.start, NIL)
  BY DEF IsPrev, IsNext
<1>. QED  BY <1>1, <1>2 DEF RoomAt

\* One iteration of the loop of kpageframe_free.
LEMMA FreeStepStep ==
  ASSUME CoreInv, Core, NEW t \in PfThreads, FreeStep(t)
  PROVE  CoreInv' /\ Core' /\ PoolStep
<1>1. LoopOK(t) /\ call[t].pc = "free" /\ ListOK(first_free_page, hdr)
  BY DEF CoreInv, FreeStep, PfAt
<1>2. PICK b : b = Given(t)
  OBVIOUS
<1>3. PICK i, s, n : i = call[t].iter /\ s = b.start /\ n = b.n
  OBVIOUS
<1>4. s = call[t].start /\ n = call[t].n /\ pflock = t /\ i \in HeadsOf(hdr) \cup {NIL}
  BY <1>1, <1>2, <1>3 DEF Given, LoopOK
<1>5. /\ b \in Blocks /\ s + n <= PageCount /\ s \in Frames \ HeadsOf(hdr)
      /\ i # NIL => Placed(b, i)
  BY <1>1, <1>2, <1>3, PlacedIs
<1>6. s \in Nat /\ n \in Nat \ {0} /\ Run(b) = s .. s + n - 1
  BY <1>3, <1>5, RunFacts DEF Run
<1>7. PICK f : f = first_free_page
  OBVIOUS
<1>8. List = ListOf(f, hdr) /\ ListOK(f, hdr)
  BY <1>1, <1>7, Zenon DEF List, ListOf
<1>9. ASSUME NEW l, Return(t, l, blocks, total_allocated_pages - n),
             \E g, k : l = ListOf(g, k) /\ ListOK(g, k) /\ FreeIn(k) = FreeIn(hdr) \cup (s .. s + n - 1)
      PROVE  CoreInv' /\ Core' /\ PoolStep
  <2>1. Return(t, l, blocks, total_allocated_pages - call[t].n)
    BY <1>4, <1>9
  <2>2. \E g, k : l = ListOf(g, k) /\ ListOK(g, k) /\ FreeIn(k) = FreeIn(hdr) \cup Run(b)
    BY <1>6, <1>9
  <2>. QED  BY <1>1, <1>2, <2>1, <2>2, GivenBack, ZenonT(30)
<1>10. CASE i = NIL
  <2>1. HeadsOf(hdr) = {}
    BY <1>1, <1>3, <1>10, Zenon DEF LoopOK
  <2>2. RoomAt(hdr, s, n, NIL, NIL) /\ NIL \in Links
    BY <1>3, <1>5, <2>1, RoomAlone DEF Links
  <2>3. PICK l : l = WithHdr(WithPrev(WithNext(ListOf(f, hdr), NIL, s), NIL, s), s,
                             Header(n, NIL, NIL))
    OBVIOUS
  <2>4. \E g, k : l = ListOf(g, k) /\ ListOK(g, k) /\ FreeIn(k) = FreeIn(hdr) \cup (s .. s + n - 1)
    <3>1. InsertedAt(f, hdr, s, n, NIL, NIL, l)
      BY <2>2, <2>3 DEF InsertedAt
    <3>. QED  BY <1>8, <3>1, InsertedOf
  <2>5. l = WithHdr([List EXCEPT !.first = s], s, Header(n, NIL, NIL))
    BY <1>8, <2>3 DEF WithNext, WithPrev
  <2>6. Return(t, l, blocks, total_allocated_pages - n)
    BY <1>3, <1>4, <1>10, <2>5 DEF FreeStep
  <2>. QED  BY <1>9, <2>4, <2>6, Zenon
<1>11. CASE i # NIL
  <2>1. Placed(b, i) /\ i \in HeadsOf(hdr)
    BY <1>4, <1>5, <1>11
  <2>2. /\ i \in Nat /\ i \in Frames /\ hdr[i].size \in Nat \ {0} /\ i + hdr[i].size <= PageCount
        /\ OnlyFirst(i) /\ Ordered(i)
    BY <2>1, HeadFacts, Zenon
  <2>3. i # s /\ (i + hdr[i].size <= s \/ s + n <= i)
    BY <1>3, <1>5, <2>1 DEF Placed
  <2>4. ~Fails(/\ OnlyFirst(i)
               /\ i # s
               /\ ~(s < i + hdr[i].size /\ s + n > i)
               /\ Ordered(i))
    BY <1>6, <2>2, <2>3 DEF Fails
  <2>5. IF s + n = i
        THEN Return(t, MergedBelow(i, s, n), blocks, total_allocated_pages - n)
        ELSE IF i + hdr[i].size = s
        THEN Return(t, MergedAbove(i, n), blocks, total_allocated_pages - n)
        ELSE IF s + n < i
        THEN Return(t, InsertedBefore(i, s, n), blocks, total_allocated_pages - n)
        ELSE IF hdr[i].next = NIL
        THEN IF Fails(s > i + hdr[i].size) THEN Panic("assert")
             ELSE Return(t, Appended(i, s, n), blocks, total_allocated_pages - n)
        ELSE Advance(t, NIL)
    BY <1>3, <1>4, <1>11, <2>4, Zenon DEF FreeStep
  <2>6. CASE s + n = i
    <3>1. \A q \in HeadsOf(hdr) : q < i => q + hdr[q].size < s
      BY <1>3, <2>1 DEF Placed
    <3>2. PICK l : l = Moved(ListOf(f, hdr), i, s, n + hdr[i].size)
      OBVIOUS
    <3>3. \E g, k : l = ListOf(g, k) /\ ListOK(g, k) /\ FreeIn(k) = FreeIn(hdr) \cup (s .. s + n - 1)
      BY <1>5, <1>6, <1>8, <2>1, <2>6, <3>1, <3>2, MergedBelowOf
    <3>4. Return(t, l, blocks, total_allocated_pages - n)
      BY <1>8, <2>5, <2>6, <3>2, ZenonT(30) DEF MergedBelow
    <3>. QED  BY <1>9, <3>3, <3>4
  <2>7. CASE s + n # i /\ i + hdr[i].size = s
    <3>1. ASSUME NEW q \in HeadsOf(hdr), q > i PROVE i + hdr[i].size + n <= q
      <4>1. q \in Nat /\ hdr[q].size \in Nat \ {0}
        BY HeadFacts
      <4>2. q + hdr[q].size <= s \/ s + n <= q
        BY <1>3, <2>1 DEF Placed
      <4>3. i + hdr[i].size < q
        BY <1>8, <2>1, <3>1, BesideHead
      <4>. QED  BY <1>6, <2>2, <2>7, <4>1, <4>2, <4>3
    <3>2. i + hdr[i].size + n <= PageCount
      BY <1>5, <2>7, Zenon
    <3>3. PICK l : l = IF hdr[i].next = i + (hdr[i].size + n)
                       THEN WithHdr(WithHdr(WithPrev(ListOf(f, hdr), hdr[hdr[i].next].next, i),
                                            hdr[i].next, NoHdr),
                                    i, Header(hdr[i].size + n + hdr[hdr[i].next].size, hdr[i].prev,
                                              hdr[hdr[i].next].next))
                       ELSE WithHdr(ListOf(f, hdr), i, Header(hdr[i].size + n, hdr[i].prev, hdr[i].next))
      BY ZenonT(30)
    <3>4. \E g, k : /\ l = ListOf(g, k) /\ ListOK(g, k)
                    /\ FreeIn(k) = FreeIn(hdr) \cup (i + hdr[i].size .. i + hdr[i].size + n - 1)
      BY <1>6, <1>8, <2>1, <3>1, <3>2, <3>3, MergedAboveOf, SMTT(20)
    <3>5. \E g, k : l = ListOf(g, k) /\ ListOK(g, k) /\ FreeIn(k) = FreeIn(hdr) \cup (s .. s + n - 1)
      BY <2>7, <3>4, Zenon
    <3>6. l = MergedAbove(i, n)
      BY <1>8, <3>3, Zenon DEF MergedAbove
    <3>7. Return(t, l, blocks, total_allocated_pages - n)
      BY <2>5, <2>7, <3>6, Zenon
    <3>. QED  BY <1>9, <3>5, <3>7
  <2>8. CASE s + n # i /\ i + hdr[i].size # s /\ s + n < i
    <3>1. RoomAt(hdr, s, n, hdr[i].prev, i) /\ hdr[i].prev \in Links /\ i \in Links
      BY <1>3, <2>1, <2>8, RoomBefore
    <3>2. PICK l : l = WithHdr(WithPrev(WithNext(ListOf(f, hdr), hdr[i].prev, s), i, s), s,
                               Header(n, hdr[i].prev, i))
      OBVIOUS
    <3>3. \E g, k : l = ListOf(g, k) /\ ListOK(g, k) /\ FreeIn(k) = FreeIn(hdr) \cup (s .. s + n - 1)
      <4>1. InsertedAt(f, hdr, s, n, hdr[i].prev, i, l)
        BY <3>1, <3>2, ZenonT(30) DEF InsertedAt
      <4>. QED  BY <1>8, <4>1, InsertedOf, SMTT(20)
    <3>4. Return(t, l, blocks, total_allocated_pages - n)
      BY <1>8, <2>5, <2>8, <3>2 DEF InsertedBefore
    <3>. QED  BY <1>9, <3>3, <3>4
  <2>9. CASE s + n # i /\ i + hdr[i].size # s /\ ~(s + n < i)
    <3>1. i + hdr[i].size < s
      BY <1>6, <2>2, <2>3, <2>9, SMTT(20)
    <3>2. CASE hdr[i].next = NIL
      <4>1. RoomAt(hdr, s, n, i, NIL) /\ i \in Links /\ NIL \in Links
        BY <1>3, <2>1, <3>1, <3>2, RoomBehind
      <4>2. PICK l : l = WithHdr(WithPrev(WithNext(ListOf(f, hdr), i, s), NIL, s), s,
                                 Header(n, i, NIL))
        OBVIOUS
      <4>3. \E g, k : l = ListOf(g, k) /\ ListOK(g, k) /\ FreeIn(k) = FreeIn(hdr) \cup (s .. s + n - 1)
        <5>1. InsertedAt(f, hdr, s, n, i, NIL, l)
          BY <4>1, <4>2 DEF InsertedAt
        <5>. QED  BY <1>8, <5>1, InsertedOf
      <4>4. l = Appended(i, s, n)
        BY <1>8, <4>2 DEF Appended, WithPrev
      <4>5. ~Fails(s > i + hdr[i].size)
        BY <1>6, <2>2, <3>1, Zenon DEF Fails
      <4>6. Return(t, l, blocks, total_allocated_pages - n)
        BY <2>5, <2>9, <3>2, <4>4, <4>5, Zenon
      <4>. QED  BY <1>9, <4>3, <4>6
    <3>3. CASE hdr[i].next # NIL
      <4>1. Advance(t, NIL)
        BY <2>5, <2>9, <3>3
      <4>. QED  BY <1>1, <1>3, <1>4, <2>1, <3>1, <3>3, <4>1, AdvanceStep, ZenonT(30)
    <3>. QED  BY <3>2, <3>3
  <2>. QED  BY <2>6, <2>7, <2>8, <2>9
<1>. QED  BY <1>10, <1>11

----------------------------------------------------------------------------
(* The theorems *)

\* Boot: the list is empty and the boot code owns all memory.
LEMMA PfInitInv == PfInit => PfInv
<1>. SUFFICES ASSUME PfInit PROVE pfuse \in PfUses /\ CoreInv
  BY DEF PfInv
<1>1. /\ pfuse \in PfUses /\ first_free_page = NIL /\ hdr = [p \in Frames |-> NoHdr]
      /\ pflock = NoThread /\ call = [t \in PfThreads |-> PfIdle] /\ blocks = pfuse.given
      /\ total_allocated_pages = 0 /\ refused = 0 /\ pffault = "none"
  BY DEF PfInit
<1>2. /\ pfuse.given \subseteq Blocks /\ Disjoint(pfuse.given)
      /\ \A b \in pfuse.given : b.start + b.n <= PageCount
  BY <1>1, PfAssumption, Zenon
<1>3. hdr \in [Frames -> Hdrs] /\ HeadsOf(hdr) = {}
  BY <1>1, FrameTypes DEF HeadsOf
<1>4. PfTypeOK
  <2>1. PfIdle \in Calls
    BY DEF PfIdle, Calls, PfPcs, Links
  <2>2. call \in [PfThreads -> Calls]
    BY <1>1, <2>1
  <2>3. total_allocated_pages \in 0 .. CountMod - 1 /\ refused \in 0 .. MaxRun
    BY <1>1, PfAssumption
  <2>. QED  BY <1>1, <1>2, <1>3, <2>2, <2>3 DEF PfTypeOK, Links
<1>5. ListOK(first_free_page, hdr)
  BY <1>1, <1>3, Zenon DEF ListOK, IsFirst, Spaced
<1>6. ASSUME NEW t \in PfThreads PROVE LoopOK(t) /\ call[t].pc # "free"
  <2>1. call[t] = PfIdle /\ NoThread # t
    BY <1>1, PfAssumption, ZenonT(30)
  <2>. QED  BY <1>1, <2>1, Zenon DEF LoopOK, PfIdle
<1>7. Owned = pfuse.given
  <2>1. Freeing = {}
    BY <1>6 DEF Freeing
  <2>. QED  BY <1>1, <2>1 DEF Owned
<1>8. OwnersOK
  <2>1. FreeIn(hdr) = {}
    BY <1>3 DEF FreeIn
  <2>. QED  BY <1>2, <1>7, <2>1 DEF OwnersOK
<1>9. PagesCounted
  <2>1. PICK a \in Nat : a = Pages(pfuse.given)
    BY <1>1, GivenPages
  <2>2. (a - a) % CountMod = 0
    BY PfAssumption
  <2>. QED  BY <1>1, <1>7, <2>1, <2>2 DEF PagesCounted
<1>10. PfNoAssert
  BY <1>1, Zenon DEF PfNoAssert
<1>. QED  BY <1>1, <1>4, <1>5, <1>6, <1>8, <1>9, <1>10 DEF CoreInv

\* Every step of callers that neither ask for addresses nor resize keeps the invariant and
\* is a step of the pool.
LEMMA CoreStep ==
  ASSUME CoreInv, Core, PfNext
  PROVE  CoreInv' /\ Core' /\ PoolStep
<1>1. PICK t \in PfThreads :
        \/ \E n \in 1 .. MaxRun : AllocCall(t, n) \/ TryCall(t, n)
        \/ AllocStep(t)
        \/ AllocNone(t)
        \/ TryTail(t)
        \/ AllocOne(t)
        \/ \E b \in pfuse.at : AllocAtCall(t, b)
        \/ AllocAtStep(t)
        \/ \E b \in blocks : Free(t, b)
        \/ FreeStep(t)
        \/ \E b \in blocks, n \in 1 .. MaxRun : Resize(t, b, n)
  BY Zenon DEF PfNext
<1>2. LoopOK(t)
  BY DEF CoreInv
<1>3. \A n : ~TryCall(t, n)
  BY DEF Core, TryCall, Can
<1>4. \A b : ~AllocAtCall(t, b)
  BY DEF Core, AllocAtCall, Can
<1>5. \A b, n : ~Resize(t, b, n)
  BY DEF Core, Resize, Can
<1>6. ~TryTail(t) /\ ~AllocAtStep(t)
  BY <1>2, Zenon DEF TryTail, AllocAtStep, PfAt, LoopOK
<1>7. CASE \E n \in 1 .. MaxRun : AllocCall(t, n)
  BY <1>7, AllocCallStep
<1>8. CASE AllocStep(t)
  BY <1>8, AllocStepStep
<1>9. CASE AllocNone(t)
  BY <1>9, AllocNoneStep
<1>10. CASE AllocOne(t)
  BY <1>10, AllocOneStep
<1>11. CASE \E b \in blocks : Free(t, b)
  BY <1>11, FreeCallStep, Zenon
<1>12. CASE FreeStep(t)
  BY <1>12, FreeStepStep
<1>. QED  BY <1>1, <1>3, <1>4, <1>5, <1>6, <1>7, <1>8, <1>9, <1>10, <1>11, <1>12, ZenonT(30)

\* No step changes how the callers use the allocator.
LEMMA UseKept == PfNext => pfuse' = pfuse
<1>. SUFFICES ASSUME NEW t \in PfThreads,
        \/ \E n \in 1 .. MaxRun : AllocCall(t, n) \/ TryCall(t, n)
        \/ AllocStep(t)
        \/ AllocNone(t)
        \/ TryTail(t)
        \/ AllocOne(t)
        \/ \E b \in pfuse.at : AllocAtCall(t, b)
        \/ AllocAtStep(t)
        \/ \E b \in blocks : Free(t, b)
        \/ FreeStep(t)
        \/ \E b \in blocks, n \in 1 .. MaxRun : Resize(t, b, n)
     PROVE  pfuse' = pfuse
  BY Zenon DEF PfNext
<1>1. /\ \A why : Panic(why) => pfuse' = pfuse
      /\ \A c : Enter(t, c) => pfuse' = pfuse
      /\ \A w : Advance(t, w) => pfuse' = pfuse
      /\ \A l, bs, tot : Leave(t, l, bs, tot) => pfuse' = pfuse
      /\ \A n : ReturnNil(t, n) => pfuse' = pfuse
  BY DEF Panic, Enter, Advance, Leave, ReturnNil
<1>2. \A l, bs, tot : Return(t, l, bs, tot) => pfuse' = pfuse
  BY <1>1, Zenon DEF Return
<1>3. \A i, n : Take(t, i, n) => pfuse' = pfuse
  BY <1>1, <1>2, Zenon DEF Take
<1>4. \A b, n : FreeCall(t, b, n) => pfuse' = pfuse
  BY <1>1, Zenon DEF FreeCall
<1>5. CASE \E n \in 1 .. MaxRun : AllocCall(t, n) \/ TryCall(t, n)
  BY <1>1, <1>5, Zenon DEF AllocCall, TryCall
<1>6. CASE AllocStep(t)
  BY <1>1, <1>3, <1>6, Zenon DEF AllocStep
<1>7. CASE AllocNone(t)
  BY <1>1, <1>7, Zenon DEF AllocNone
<1>8. CASE TryTail(t)
  BY <1>1, <1>3, <1>8, Zenon DEF TryTail
<1>9. CASE AllocOne(t)
  BY <1>1, <1>9, Zenon DEF AllocOne
<1>10. CASE \E b \in pfuse.at : AllocAtCall(t, b)
  BY <1>1, <1>10, Zenon DEF AllocAtCall
<1>11. CASE AllocAtStep(t)
  BY <1>1, <1>2, <1>11, Zenon DEF AllocAtStep
<1>12. CASE \E b \in blocks : Free(t, b)
  BY <1>4, <1>12, Zenon DEF Free
<1>13. CASE FreeStep(t)
  BY <1>1, <1>2, <1>13, Zenon DEF FreeStep
<1>14. CASE \E b \in blocks, n \in 1 .. MaxRun : Resize(t, b, n)
  BY <1>1, <1>4, <1>14, Zenon DEF Resize
<1>. QED  BY <1>5, <1>6, <1>7, <1>8, <1>9, <1>10, <1>11, <1>12, <1>13, <1>14, ZenonT(30)

\* PfInv is inductive.
LEMMA PfStep == PfInv /\ [PfNext]_pfvars => PfInv'
<1>. SUFFICES ASSUME PfInv, [PfNext]_pfvars PROVE PfInv'
  OBVIOUS
<1>1. CASE PfNext
  <2>1. pfuse' = pfuse
    BY <1>1, UseKept
  <2>2. Core' <=> Core
    BY <2>1 DEF Core
  <2>. QED  BY <1>1, <2>1, <2>2, CoreStep DEF PfInv
<1>2. CASE UNCHANGED pfvars
  <2>1. UNCHANGED <<first_free_page, hdr, pflock, call, blocks, total_allocated_pages, refused,
                    pffault, pfuse>>
    BY <1>2 DEF pfvars
  <2>2. Owned' = Owned
    BY <2>1 DEF Owned, Freeing, Given
  <2>3. (Core' <=> Core) /\ PfTypeOK' = PfTypeOK /\ PfNoAssert' = PfNoAssert
    BY <2>1, Zenon DEF Core, PfTypeOK, PfNoAssert
  <2>4. \A t \in PfThreads : LoopOK(t) => LoopOK(t)'
    BY <2>1, Zenon DEF LoopOK, Behind, Given
  <2>5. (OwnersOK => OwnersOK') /\ (PagesCounted => PagesCounted')
    BY <2>1, <2>2 DEF OwnersOK, PagesCounted
  <2>. QED  BY <2>1, <2>3, <2>4, <2>5 DEF PfInv, CoreInv
<1>. QED  BY <1>1, <1>2

\* The invariant gives what PfSound says.
LEMMA CoreInvSound ==
  ASSUME CoreInv, Core
  PROVE  PfSound
<1>1. ListOK(first_free_page, hdr) /\ Heads = HeadsOf(hdr) /\ FreeFrames = FreeIn(hdr)
  BY FreeFramesIs DEF CoreInv, Heads, HeadsOf
<1>2. ASSUME NEW p \in HeadsOf(hdr)
      PROVE  /\ hdr[p].size > 0
             /\ hdr[p].prev = NIL => p = first_free_page
             /\ hdr[p].next = NIL => \A q \in HeadsOf(hdr) : q <= p
             /\ hdr[p].next # NIL =>
                  /\ hdr[p].next \in HeadsOf(hdr)
                  /\ hdr[p].next > p + hdr[p].size
                  /\ hdr[hdr[p].next].prev = p
                  /\ \A q \in HeadsOf(hdr) : q > p => q >= hdr[p].next
  <2>1. /\ hdr[p].size \in Nat \ {0}
        /\ hdr[p].next = NIL \/ (hdr[p].next \in HeadsOf(hdr) /\ hdr[p].next > p + hdr[p].size)
        /\ hdr[p].prev = NIL <=> first_free_page = p
    BY <1>1, Neighbours
  <2>2. hdr[p].next # NIL => hdr[hdr[p].next].prev = p
    BY <1>1, BackLinks
  <2>3. IsNext(HeadsOf(hdr), p, hdr[p].next) /\ NIL \notin HeadsOf(hdr)
    BY <1>1, FrameTypes DEF ListOK, HeadsOf
  <2>4. hdr[p].next = NIL => \A q \in HeadsOf(hdr) : q <= p
    BY <2>3 DEF IsNext
  <2>5. hdr[p].next # NIL => \A q \in HeadsOf(hdr) : q > p => hdr[p].next <= q
    BY <2>3 DEF IsNext
  <2>6. HeadsOf(hdr) \subseteq Int
    BY FrameTypes, Zenon DEF HeadsOf
  <2>. QED  BY <2>1, <2>2, <2>4, <2>5, <2>6, SMTT(20)
<1>3. FreeListSound
  <2>1. IsFirst(HeadsOf(hdr), first_free_page) /\ NIL \notin HeadsOf(hdr)
    BY <1>1, FrameTypes DEF ListOK, HeadsOf
  <2>2. first_free_page = NIL => HeadsOf(hdr) = {}
    BY <2>1 DEF IsFirst
  <2>3. first_free_page # NIL =>
          first_free_page \in HeadsOf(hdr) /\ \A q \in HeadsOf(hdr) : first_free_page <= q
    BY <2>1 DEF IsFirst
  <2>4. first_free_page # NIL => hdr[first_free_page].prev = NIL
    BY <1>1, <2>3, Neighbours
  <2>. QED  BY <1>1, <1>2, <2>2, <2>3, <2>4, ZenonT(30) DEF FreeListSound
<1>4. PagesOwnedOnce
  <2>1. ASSUME NEW p \in HeadsOf(hdr), NEW q \in HeadsOf(hdr), p # q
        PROVE  Region(p) \cap Region(q) = {}
    <3>1. /\ q < p => q + hdr[q].size < p
          /\ q > p => p + hdr[p].size < q
          /\ q \in Int /\ p \in Int /\ hdr[p].size \in Nat /\ hdr[q].size \in Nat
      BY <1>1, BesideHead, Neighbours
    <3>. QED  BY <2>1, <3>1, SMTT(20) DEF Region
  <2>. QED  BY <1>1, <2>1 DEF PagesOwnedOnce, CoreInv, OwnersOK
<1>. QED  BY <1>3, <1>4 DEF CoreInv, PfSound

\* Between any two steps of its callers the page allocator is sound: every frame is free or has
\* one owner, the list is sorted and merged, the pages are counted, and no assertion of the
\* loops of pageframe.c fails.
THEOREM PfCorrect == PfSpec => [](Core => PfSound)
<1>1. PfInit => PfInv
  BY PfInitInv
<1>2. PfInv /\ [PfNext]_pfvars => PfInv'
  BY PfStep
<1>3. PfInv => (Core => PfSound)
  BY CoreInvSound DEF PfInv
<1>. QED  BY <1>1, <1>2, <1>3, PTL DEF PfSpec

\* The sorted list implements the pool of frames: what is handed out was free, and a request is
\* refused only when no run of that length is free.
THEOREM PfRefinesPool == PfSpec => PfImplementsPool
<1>1. PfInit => PfInv
  BY PfInitInv
<1>2. PfInv /\ [PfNext]_pfvars => PfInv'
  BY PfStep
<1>3. PfInit => Pool!PoolInit
  <2>. SUFFICES ASSUME PfInit PROVE Pool!PoolInit
    OBVIOUS
  <2>1. hdr = [p \in Frames |-> NoHdr] /\ refused = 0 /\ blocks = pfuse.given /\ pfuse \in PfUses
    BY DEF PfInit
  <2>2. Heads = {}
    BY <2>1 DEF Heads
  <2>3. FreeFrames = {}
    BY <2>2 DEF FreeFrames
  <2>4. Freeing = {}
    BY DEF PfInit, Freeing, PfIdle
  <2>5. Owned = pfuse.given /\ pfuse.given \subseteq Blocks
    BY <2>1, <2>4, PfAssumption DEF Owned
  <2>. QED  BY <2>1, <2>3, <2>5 DEF Pool!PoolInit, Pool!Blocks, Blocks
<1>4. PfInv /\ [PfNext]_pfvars =>
        [Core => Pool!PoolNext]_<<FreeFrames, Owned, refused>>
  <2>. SUFFICES ASSUME PfInv, [PfNext]_pfvars
       PROVE  [Core => Pool!PoolNext]_<<FreeFrames, Owned, refused>>
    OBVIOUS
  <2>1. CASE PfNext
    <3>1. Core => PoolStep
      BY <2>1, CoreStep DEF PfInv
    <3>. QED  BY <3>1 DEF PoolStep, poolvars
  <2>2. CASE UNCHANGED pfvars
    <3>1. FreeFrames' = FreeFrames /\ Owned' = Owned /\ refused' = refused
      BY <2>2, Zenon DEF pfvars, FreeFrames, Heads, Region, Owned, Freeing, Given
    <3>. QED  BY <3>1
  <2>. QED  BY <2>1, <2>2
<1>. QED  BY <1>1, <1>2, <1>3, <1>4, PTL DEF PfSpec, PfImplementsPool
=============================================================================
