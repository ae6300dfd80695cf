-------------------------- MODULE FreeListProofs ----------------------------
(***************************************************************************)
(* The free list of PageFrame as a set of heads whose links name the       *)
(* neighbours by address (ListOK), and what the assignments to the links   *)
(* in src/kernel/pageframe.c make of it: every operation leaves such a     *)
(* list behind, with the frames it took out or put in.                     *)
(***************************************************************************)
EXTENDS PageFrame, TLAPS

----------------------------------------------------------------------------
(* The free list as a set of heads whose links name the neighbours *)

HeadsOf(h) == {p \in Frames : h[p] # NoHdr}

IsNext(H, p, x) ==
  \/ x = NIL /\ \A q \in H : q <= p
  \/ x \in H /\ x > p /\ \A q \in H : q > p => x <= q

IsPrev(H, p, x) ==
  \/ x = NIL /\ \A q \in H : p <= q
  \/ x \in H /\ x < p /\ \A q \in H : q < p => q <= x

IsFirst(H, f) ==
  \/ f = NIL /\ H = {}
  \/ f \in H /\ \A q \in H : f <= q

\* No region is empty or leaves the frames, and between two regions there is a page.
Spaced(h) ==
  /\ \A p \in HeadsOf(h) : h[p].size > 0 /\ p + h[p].size <= PageCount
  /\ \A p, q \in HeadsOf(h) : p < q => p + h[p].size < q

ListOK(f, h) ==
  /\ h \in [Frames -> Hdrs]
  /\ IsFirst(HeadsOf(h), f)
  /\ Spaced(h)
  /\ \A p \in HeadsOf(h) :
       IsNext(HeadsOf(h), p, h[p].next) /\ IsPrev(HeadsOf(h), p, h[p].prev)

\* The frames of the regions of h.
FreeIn(h) == {x \in Frames : \E p \in HeadsOf(h) : p <= x /\ x < p + h[p].size}

----------------------------------------------------------------------------
(* Lemmas about the list *)

\* A frame and a region's links are numbers.
LEMMA FrameTypes ==
  /\ Frames \subseteq Int /\ NIL \in Int /\ NIL \notin Frames
  /\ NoHdr \in Hdrs /\ NoHdr.size = -1
  /\ \A h \in Hdrs : h.size \in Int /\ h.prev \in Links /\ h.next \in Links
<1>1. Frames \subseteq Int /\ NIL \in Int /\ NIL \notin Frames
  BY PfAssumption DEF Frames, NIL
<1>2. NoHdr \in Hdrs /\ NoHdr.size = -1
  BY DEF NoHdr, Hdrs, Links
<1>. QED  BY <1>1, <1>2 DEF Hdrs

\* A header with pages is not NoHdr.
LEMMA SizedHead ==
  ASSUME NEW h \in [Frames -> Hdrs], NEW p \in Frames, h[p].size > 0
  PROVE  p \in HeadsOf(h)
BY FrameTypes DEF HeadsOf

\* The links of a region, and the regions beside it.
LEMMA Neighbours ==
  ASSUME NEW f, NEW h, ListOK(f, h), NEW i \in HeadsOf(h)
  PROVE  /\ i \in Frames /\ h[i] \in Hdrs
         /\ h[i].size \in Nat \ {0} /\ i + h[i].size <= PageCount
         /\ h[i].prev = NIL \/ (h[i].prev \in HeadsOf(h) /\ h[i].prev < i)
         /\ h[i].next = NIL \/ (h[i].next \in HeadsOf(h) /\ h[i].next > i + h[i].size)
         /\ h[i].prev = NIL <=> f = i
<1>1. i \in Frames /\ h[i] \in Hdrs
  BY DEF ListOK, HeadsOf
<1>2. h[i].size \in Nat \ {0} /\ i + h[i].size <= PageCount
  BY <1>1, FrameTypes DEF ListOK, Spaced
<1>3. h[i].prev = NIL \/ (h[i].prev \in HeadsOf(h) /\ h[i].prev < i)
  BY DEF ListOK, IsPrev
<1>4. h[i].next = NIL \/ (h[i].next \in HeadsOf(h) /\ h[i].next > i)
  BY DEF ListOK, IsNext
<1>5. h[i].next \in HeadsOf(h) /\ h[i].next > i => h[i].next > i + h[i].size
  BY <1>1, FrameTypes, Zenon DEF ListOK, Spaced, HeadsOf
<1>6. h[i].prev = NIL <=> f = i
  <2>1. IsFirst(HeadsOf(h), f) /\ IsPrev(HeadsOf(h), i, h[i].prev) /\ HeadsOf(h) \subseteq Int
    BY FrameTypes, Zenon DEF ListOK, HeadsOf
  <2>. QED  BY <1>1, <2>1, FrameTypes DEF IsFirst, IsPrev, HeadsOf
<1>. QED  BY <1>1, <1>2, <1>3, <1>4, <1>5, <1>6

\* k is h without region i.
DropOf(h, i, k) ==
  /\ k \in [Frames -> Hdrs]
  /\ k[i] = NoHdr
  /\ \A p \in Frames \ {i} :
       /\ k[p].size = h[p].size
       /\ k[p].next = IF p = h[i].prev THEN h[i].next ELSE h[p].next
       /\ k[p].prev = IF p = h[i].next THEN h[i].prev ELSE h[p].prev
       /\ p # h[i].prev /\ p # h[i].next => k[p] = h[p]

\* A region leaves the list.
LEMMA ListDrop ==
  ASSUME NEW f, NEW h, ListOK(f, h), NEW i \in HeadsOf(h), NEW k, DropOf(h, i, k),
         NEW g, g = IF h[i].prev = NIL THEN h[i].next ELSE f
  PROVE  /\ HeadsOf(k) = HeadsOf(h) \ {i}
         /\ ListOK(g, k)
         /\ FreeIn(k) = FreeIn(h) \ (i .. i + h[i].size - 1)
<1>1. /\ i \in Frames /\ h[i] \in Hdrs
      /\ h[i].size \in Nat \ {0} /\ i + h[i].size <= PageCount
      /\ h[i].prev = NIL \/ (h[i].prev \in HeadsOf(h) /\ h[i].prev < i)
      /\ h[i].next = NIL \/ (h[i].next \in HeadsOf(h) /\ h[i].next > i + h[i].size)
      /\ h[i].prev = NIL <=> f = i
  BY Neighbours
<1>2. PICK H : H = HeadsOf(h)
  OBVIOUS
<1>3. H \subseteq Frames /\ H \subseteq Int /\ \A p \in H : h[p].size \in Nat \ {0}
  BY <1>2, FrameTypes, Neighbours, Zenon
<1>4. HeadsOf(k) = H \ {i}
  <2>1. ASSUME NEW p \in H \ {i} PROVE p \in HeadsOf(k)
    <3>1. k[p].size > 0
      BY <1>2, <1>3 DEF DropOf
    <3>. QED  BY <1>3, <3>1, SizedHead DEF DropOf
  <2>2. ASSUME NEW p \in Frames \ H, p # i PROVE p \notin HeadsOf(k)
    <3>1. p # h[i].prev /\ p # h[i].next
      BY <1>1, <1>2, <2>2, FrameTypes
    <3>2. k[p] = NoHdr
      BY <1>2, <2>2, <3>1 DEF DropOf, HeadsOf
    <3>. QED  BY <3>2 DEF HeadsOf
  <2>3. i \notin HeadsOf(k)
    BY DEF DropOf, HeadsOf
  <2>. QED  BY <2>1, <2>2, <2>3, Zenon DEF HeadsOf
<1>5. /\ IsFirst(H, f) /\ IsNext(H, i, h[i].next) /\ IsPrev(H, i, h[i].prev)
  BY <1>2 DEF ListOK
<1>6. IsFirst(H \ {i}, g)
  BY <1>1, <1>2, <1>3, <1>5, FrameTypes DEF IsFirst, IsNext, IsPrev
<1>7. Spaced(k)
  BY <1>2, <1>3, <1>4 DEF Spaced, DropOf, ListOK
<1>8. ASSUME NEW p \in H \ {i}
      PROVE  IsNext(H \ {i}, p, k[p].next) /\ IsPrev(H \ {i}, p, k[p].prev)
  <2>1. IsNext(H, p, h[p].next) /\ IsPrev(H, p, h[p].prev)
    BY <1>2 DEF ListOK
  <2>2. IsNext(H \ {i}, p, k[p].next)
    <3>1. k[p].next = IF p = h[i].prev THEN h[i].next ELSE h[p].next
      BY <1>3 DEF DropOf
    <3>2. CASE p = h[i].prev
      BY <1>1, <1>2, <1>3, <1>5, <3>1, <3>2, FrameTypes DEF IsNext, IsPrev
    <3>3. CASE p # h[i].prev
      BY <1>1, <1>2, <1>3, <1>5, <2>1, <3>1, <3>3, FrameTypes DEF IsNext, IsPrev
    <3>. QED  BY <3>2, <3>3
  <2>3. IsPrev(H \ {i}, p, k[p].prev)
    <3>1. k[p].prev = IF p = h[i].next THEN h[i].prev ELSE h[p].prev
      BY <1>3 DEF DropOf
    <3>2. CASE p = h[i].next
      BY <1>1, <1>2, <1>3, <1>5, <3>1, <3>2, FrameTypes DEF IsNext, IsPrev
    <3>3. CASE p # h[i].next
      BY <1>1, <1>2, <1>3, <1>5, <2>1, <3>1, <3>3, FrameTypes DEF IsNext, IsPrev
    <3>. QED  BY <3>2, <3>3
  <2>. QED  BY <2>2, <2>3
<1>9. FreeIn(k) = FreeIn(h) \ (i .. i + h[i].size - 1)
  <2>1. \A p \in H \ {i} : k[p].size = h[p].size
    BY <1>3 DEF DropOf
  <2>2. \A p \in H \ {i} : p < i => p + h[p].size < i
    BY <1>2 DEF ListOK, Spaced
  <2>3. \A p \in H \ {i} : i < p => i + h[i].size < p
    BY <1>2 DEF ListOK, Spaced
  <2>4. ASSUME NEW x \in Frames, NEW p \in H \ {i}, p <= x, x < p + h[p].size
        PROVE  ~(i <= x /\ x < i + h[i].size)
    BY <1>1, <1>3, <2>2, <2>3, <2>4, FrameTypes
  <2>5. \A x \in Frames : x \in i .. i + h[i].size - 1 <=> i <= x /\ x < i + h[i].size
    BY <1>1, FrameTypes
  <2>6. \A x \in Frames : x \in FreeIn(k) <=> \E p \in H \ {i} : p <= x /\ x < p + h[p].size
    BY <1>4, <2>1, Zenon DEF FreeIn
  <2>7. \A x \in Frames : x \in FreeIn(h) <=> \E p \in H : p <= x /\ x < p + h[p].size
    BY <1>2, Zenon DEF FreeIn
  <2>8. \A x \in Frames : x \in FreeIn(k) <=> x \in FreeIn(h) /\ x \notin i .. i + h[i].size - 1
    BY <1>2, <2>4, <2>5, <2>6, <2>7, Zenon
  <2>9. FreeIn(k) \subseteq Frames /\ FreeIn(h) \subseteq Frames
    BY DEF FreeIn
  <2>. QED  BY <2>8, <2>9, Zenon
<1>. QED  BY <1>2, <1>4, <1>6, <1>7, <1>8 , <1>9, Zenon DEF ListOK, DropOf

\* k is h with a region of n pages at s between the regions x and y.
InsertOf(h, s, n, x, y, k) ==
  /\ k \in [Frames -> Hdrs]
  /\ k[s] = Header(n, x, y)
  /\ \A p \in Frames \ {s} :
       /\ k[p].size = h[p].size
       /\ k[p].next = IF p = x THEN s ELSE h[p].next
       /\ k[p].prev = IF p = y THEN s ELSE h[p].prev
       /\ p # x /\ p # y => k[p] = h[p]

\* There is room for n pages at s, and x and y are the regions beside them.
RoomAt(h, s, n, x, y) ==
  /\ s \in Frames \ HeadsOf(h) /\ n \in Nat \ {0} /\ s + n <= PageCount
  /\ IsPrev(HeadsOf(h), s, x) /\ IsNext(HeadsOf(h), s, y)
  /\ x # NIL => x + h[x].size < s
  /\ y # NIL => s + n < y

\* A region enters the list.
LEMMA ListInsert ==
  ASSUME NEW f, NEW h, ListOK(f, h), NEW s, NEW n, NEW x, NEW y, RoomAt(h, s, n, x, y),
         NEW k, InsertOf(h, s, n, x, y, k), NEW g, g = IF x = NIL THEN s ELSE f
  PROVE  /\ HeadsOf(k) = HeadsOf(h) \cup {s}
         /\ ListOK(g, k)
         /\ FreeIn(k) = FreeIn(h) \cup (s .. s + n - 1)
<1>. /\ s \in Frames \ HeadsOf(h) /\ n \in Nat \ {0} /\ s + n <= PageCount
     /\ IsPrev(HeadsOf(h), s, x) /\ IsNext(HeadsOf(h), s, y)
     /\ x # NIL => x + h[x].size < s
     /\ y # NIL => s + n < y
  BY DEF RoomAt
<1>2. PICK H : H = HeadsOf(h)
  OBVIOUS
<1>3. H \subseteq Frames /\ H \subseteq Int /\ \A p \in H : h[p].size \in Nat \ {0}
  BY <1>2, FrameTypes, Neighbours, Zenon
<1>4. x \in H \cup {NIL} /\ y \in H \cup {NIL} /\ s \in Int /\ s \notin H
      /\ IsPrev(H, s, x) /\ IsNext(H, s, y) /\ IsFirst(H, f)
  BY <1>2, FrameTypes DEF IsPrev, IsNext, ListOK
<1>5. HeadsOf(k) = H \cup {s}
  <2>1. ASSUME NEW p \in H PROVE p \in HeadsOf(k)
    <3>1. k[p].size > 0
      BY <1>3, <1>4 DEF InsertOf
    <3>. QED  BY <1>3, <3>1, SizedHead DEF InsertOf
  <2>2. ASSUME NEW p \in Frames \ H, p # s PROVE p \notin HeadsOf(k)
    <3>1. p # x /\ p # y
      BY <1>4, <2>2, FrameTypes
    <3>2. k[p] = NoHdr
      BY <1>2, <2>2, <3>1 DEF InsertOf, HeadsOf
    <3>. QED  BY <3>2 DEF HeadsOf
  <2>3. s \in HeadsOf(k)
    <3>1. k[s].size > 0
      BY DEF InsertOf, Header
    <3>. QED  BY <3>1, SizedHead DEF InsertOf
  <2>. QED  BY <1>3, <2>1, <2>2, <2>3, Zenon DEF HeadsOf
<1>6. IsFirst(H \cup {s}, g)
  BY <1>2, <1>3, <1>4, FrameTypes DEF IsFirst, IsNext, IsPrev
<1>7. \A p \in H : k[p].size = h[p].size
  BY <1>3, <1>4, Zenon DEF InsertOf
<1>8. k[s].size = n /\ k[s].prev = x /\ k[s].next = y
  BY DEF InsertOf, Header
<1>9. \A p \in H : p < s => p + h[p].size < s
  <2>. SUFFICES ASSUME NEW p \in H, p < s PROVE p + h[p].size < s
    OBVIOUS
  <2>1. x \in H /\ p <= x /\ x < s
    BY <1>3, <1>4 DEF IsPrev
  <2>2. x + h[x].size < s /\ (p < x => p + h[p].size < x)
    BY <1>2, <1>3, <2>1, FrameTypes DEF ListOK, Spaced
  <2>. QED  BY <1>3, <1>4, <2>1, <2>2
<1>10. \A p \in H : s < p => s + n < p
  <2>. SUFFICES ASSUME NEW p \in H, s < p PROVE s + n < p
    OBVIOUS
  <2>1. y \in H /\ y <= p
    BY <1>3, <1>4 DEF IsNext
  <2>2. s + n < y
    BY <1>3, <2>1, FrameTypes
  <2>. QED  BY <1>3, <1>4, <2>1, <2>2
<1>11. Spaced(k)
  <2>1. \A p \in H \cup {s} : k[p].size > 0 /\ p + k[p].size <= PageCount
    BY <1>2, <1>3, <1>7, <1>8 DEF ListOK, Spaced
  <2>2. ASSUME NEW p \in H \cup {s}, NEW q \in H \cup {s}, p < q PROVE p + k[p].size < q
    <3>1. CASE p \in H /\ q \in H
      BY <1>2, <1>7, <2>2, <3>1 DEF ListOK, Spaced
    <3>2. CASE p = s /\ q \in H
      BY <1>8, <1>10, <2>2, <3>2
    <3>3. CASE p \in H /\ q = s
      BY <1>7, <1>9, <2>2, <3>3
    <3>4. ~(p = s /\ q = s)
      BY <1>4, <2>2
    <3>. QED  BY <3>1, <3>2, <3>3, <3>4
  <2>. QED  BY <1>5, <2>1, <2>2 DEF Spaced
<1>12. ASSUME NEW p \in H
       PROVE  IsNext(H \cup {s}, p, k[p].next) /\ IsPrev(H \cup {s}, p, k[p].prev)
  <2>1. IsNext(H, p, h[p].next) /\ IsPrev(H, p, h[p].prev)
    BY <1>2 DEF ListOK
  <2>2. IsNext(H \cup {s}, p, k[p].next)
    <3>1. k[p].next = IF p = x THEN s ELSE h[p].next
      BY <1>3, <1>4 DEF InsertOf
    <3>2. CASE p = x
      BY <1>3, <1>4, <3>1, <3>2, FrameTypes DEF IsNext, IsPrev
    <3>3. CASE p # x
      BY <1>3, <1>4, <2>1, <3>1, <3>3, FrameTypes DEF IsNext, IsPrev
    <3>. QED  BY <3>2, <3>3
  <2>3. IsPrev(H \cup {s}, p, k[p].prev)
    <3>1. k[p].prev = IF p = y THEN s ELSE h[p].prev
      BY <1>3, <1>4 DEF InsertOf
    <3>2. CASE p = y
      BY <1>3, <1>4, <3>1, <3>2, FrameTypes DEF IsNext, IsPrev
    <3>3. CASE p # y
      BY <1>3, <1>4, <2>1, <3>1, <3>3, FrameTypes DEF IsNext, IsPrev
    <3>. QED  BY <3>2, <3>3
  <2>. QED  BY <2>2, <2>3
<1>13. IsNext(H \cup {s}, s, k[s].next) /\ IsPrev(H \cup {s}, s, k[s].prev)
  BY <1>3, <1>4, <1>8 DEF IsNext, IsPrev
<1>14. FreeIn(k) = FreeIn(h) \cup (s .. s + n - 1)
  <2>1. s .. s + n - 1 \subseteq Frames
    BY <1>4, PfAssumption DEF Frames
  <2>2. \A z \in Frames : z \in s .. s + n - 1 <=> s <= z /\ z < s + k[s].size
    BY <1>4, <1>8, FrameTypes
  <2>. QED  BY <1>2, <1>5, <1>7, <2>1, <2>2, Zenon DEF FreeIn
<1>15. \A p \in HeadsOf(k) :
         IsNext(HeadsOf(k), p, k[p].next) /\ IsPrev(HeadsOf(k), p, k[p].prev)
  BY <1>5, <1>12, <1>13
<1>. QED  BY <1>2, <1>5, <1>6, <1>11, <1>14, <1>15, Zenon DEF ListOK, InsertOf

\* k is h with m pages in region i.
ResizeOf(h, i, m, k) ==
  /\ k \in [Frames -> Hdrs]
  /\ k[i] = Header(m, h[i].prev, h[i].next)
  /\ \A p \in Frames \ {i} : k[p] = h[p]

\* A region grows or shrinks at its end.
LEMMA ListResize ==
  ASSUME NEW f, NEW h, ListOK(f, h), NEW i \in HeadsOf(h), NEW m \in Nat \ {0},
         i + m <= PageCount, h[i].next # NIL => i + m < h[i].next,
         NEW k, ResizeOf(h, i, m, k)
  PROVE  /\ HeadsOf(k) = HeadsOf(h)
         /\ ListOK(f, k)
         /\ FreeIn(k) = (FreeIn(h) \ (i .. i + h[i].size - 1)) \cup (i .. i + m - 1)
<1>2. PICK H : H = HeadsOf(h)
  OBVIOUS
<1>3. H \subseteq Frames /\ H \subseteq Int /\ \A p \in H : h[p].size \in Nat \ {0}
  BY <1>2, FrameTypes, Neighbours
<1>4. i \in H /\ i \in Frames /\ i \in Int /\ i + h[i].size <= PageCount
  BY <1>2, <1>3, Neighbours
<1>5. k[i].size = m /\ k[i].prev = h[i].prev /\ k[i].next = h[i].next
  BY DEF ResizeOf, Header
<1>6. HeadsOf(k) = H
  <2>1. i \in HeadsOf(k)
    BY <1>4, <1>5, SizedHead DEF ResizeOf
  <2>. QED  BY <1>2, <1>4, <2>1, Zenon DEF HeadsOf, ResizeOf
<1>7. \A p \in H \ {i} : k[p] = h[p]
  BY <1>3 DEF ResizeOf
<1>8. \A p \in H \ {i} : p < i => p + h[p].size < i
  BY <1>2, <1>4 DEF ListOK, Spaced
<1>9. \A p \in H \ {i} : i < p => i + m < p /\ i + h[i].size < p
  <2>1. SUFFICES ASSUME NEW p \in H \ {i}, i < p PROVE i + m < p
    BY <1>2, <1>4 DEF ListOK, Spaced
  <2>2. IsNext(H, i, h[i].next)
    BY <1>2, <1>4 DEF ListOK
  <2>3. h[i].next \in H /\ h[i].next <= p
    BY <1>3, <1>4, <2>1, <2>2 DEF IsNext
  <2>4. PICK y : y = h[i].next
    OBVIOUS
  <2>5. i + m < y
    BY <1>3, <2>3, <2>4, FrameTypes
  <2>6. y \in Int /\ p \in H
    BY <1>3, <2>1, <2>3, <2>4, Zenon
  <2>7. p \in Int
    BY <1>3, <2>6
  <2>8. i + m \in Int
    BY <1>4
  <2>. QED  BY <2>3, <2>4, <2>5, <2>6, <2>7, <2>8
<1>10. Spaced(k)
  <2>1. \A p \in H : k[p].size > 0 /\ p + k[p].size <= PageCount
    BY <1>2, <1>5, <1>7 DEF ListOK, Spaced
  <2>2. \A p, q \in H : p < q => p + k[p].size < q
    BY <1>2, <1>3, <1>4, <1>5, <1>7, <1>8, <1>9 DEF ListOK, Spaced
  <2>. QED  BY <1>6, <2>1, <2>2 DEF Spaced
<1>11. \A p \in H : k[p].next = h[p].next /\ k[p].prev = h[p].prev
  BY <1>5, <1>7
<1>12. FreeIn(k) = (FreeIn(h) \ (i .. i + h[i].size - 1)) \cup (i .. i + m - 1)
  <2>1. \A x \in Frames : x \in i .. i + h[i].size - 1 <=> i <= x /\ x < i + h[i].size
    BY <1>3, <1>4, FrameTypes
  <2>2. \A x \in Frames : x \in i .. i + m - 1 <=> i <= x /\ x < i + m
    BY <1>4, FrameTypes
  <2>3. ASSUME NEW x \in Frames, NEW p \in H \ {i}, p <= x, x < p + h[p].size
        PROVE  ~(i <= x /\ x < i + h[i].size)
    BY <1>3, <1>4, <1>8, <1>9, <2>3, FrameTypes
  <2>4. \A x \in Frames : x \in FreeIn(k) <=>
          (\E p \in H \ {i} : p <= x /\ x < p + h[p].size) \/ (i <= x /\ x < i + m)
    BY <1>4, <1>5, <1>6, <1>7, Zenon DEF FreeIn
  <2>5. \A x \in Frames : x \in FreeIn(h) <=>
          (\E p \in H \ {i} : p <= x /\ x < p + h[p].size) \/ (i <= x /\ x < i + h[i].size)
    BY <1>2, <1>4, Zenon DEF FreeIn
  <2>6. \A x \in Frames : x \in FreeIn(k) <=>
          x \in (FreeIn(h) \ (i .. i + h[i].size - 1)) \cup (i .. i + m - 1)
    BY <2>1, <2>2, <2>3, <2>4, <2>5, Zenon
  <2>7. FreeIn(k) \subseteq Frames /\ FreeIn(h) \subseteq Frames
    BY DEF FreeIn
  <2>8. i .. i + m - 1 \subseteq Frames
    BY <1>4, PfAssumption DEF Frames
  <2>. QED  BY <2>6, <2>7, <2>8, Zenon
<1>. QED  BY <1>2, <1>6, <1>10, <1>11, <1>12 DEF ListOK, ResizeOf

\* k is h with region i replaced by one of m pages at s.
MoveOf(h, i, s, m, k) ==
  /\ k \in [Frames -> Hdrs]
  /\ k[s] = Header(m, h[i].prev, h[i].next)
  /\ k[i] = NoHdr
  /\ \A p \in Frames \ {i, s} :
       /\ k[p].size = h[p].size
       /\ k[p].next = IF p = h[i].prev THEN s ELSE h[p].next
       /\ k[p].prev = IF p = h[i].next THEN s ELSE h[p].prev
       /\ p # h[i].prev /\ p # h[i].next => k[p] = h[p]

\* There is room for m pages at s between the neighbours of region i.
MoveRoom(h, i, s, m) ==
  /\ s \in Frames \ HeadsOf(h) /\ m \in Nat \ {0} /\ s + m <= PageCount
  /\ h[i].prev # NIL => h[i].prev + h[h[i].prev].size < s
  /\ h[i].next # NIL => s + m < h[i].next

\* A region moves between its neighbours.
LEMMA ListMove ==
  ASSUME NEW f, NEW h, ListOK(f, h), NEW i \in HeadsOf(h), NEW s, NEW m, MoveRoom(h, i, s, m),
         NEW k, MoveOf(h, i, s, m, k), NEW g, g = IF h[i].prev = NIL THEN s ELSE f
  PROVE  /\ HeadsOf(k) = (HeadsOf(h) \ {i}) \cup {s}
         /\ ListOK(g, k)
         /\ FreeIn(k) = (FreeIn(h) \ (i .. i + h[i].size - 1)) \cup (s .. s + m - 1)
<1>. /\ s \in Frames \ HeadsOf(h) /\ m \in Nat \ {0} /\ s + m <= PageCount
     /\ h[i].prev # NIL => h[i].prev + h[h[i].prev].size < s
     /\ h[i].next # NIL => s + m < h[i].next
  BY DEF MoveRoom
<1>1. /\ i \in Frames /\ h[i] \in Hdrs
      /\ h[i].size \in Nat \ {0} /\ i + h[i].size <= PageCount
      /\ h[i].prev = NIL \/ (h[i].prev \in HeadsOf(h) /\ h[i].prev < i)
      /\ h[i].next = NIL \/ (h[i].next \in HeadsOf(h) /\ h[i].next > i + h[i].size)
      /\ h[i].prev = NIL <=> f = i
  BY Neighbours
<1>2. PICK x : x = h[i].prev
  OBVIOUS
<1>3. PICK y : y = h[i].next
  OBVIOUS
<1>4. h \in [Frames -> Hdrs] /\ HeadsOf(h) \subseteq Int /\ HeadsOf(h) \subseteq Frames
  BY FrameTypes, Zenon DEF ListOK, HeadsOf
<1>5. x \in Links /\ y \in Links
  BY <1>1, <1>2, <1>3, <1>4, FrameTypes DEF Links
<1>6. PICK k1 : k1 = [p \in Frames |-> IF p = i THEN NoHdr
                        ELSE [size |-> h[p].size,
                              prev |-> IF p = y THEN x ELSE h[p].prev,
                              next |-> IF p = x THEN y ELSE h[p].next]]
  BY Zenon
<1>7. DropOf(h, i, k1)
  <2>1. ASSUME NEW p \in Frames \ {i}
        PROVE  /\ k1[p] \in Hdrs
               /\ k1[p].size = h[p].size
               /\ k1[p].next = IF p = h[i].prev THEN h[i].next ELSE h[p].next
               /\ k1[p].prev = IF p = h[i].next THEN h[i].prev ELSE h[p].prev
               /\ p # h[i].prev /\ p # h[i].next => k1[p] = h[p]
    <3>1. h[p] \in Hdrs
      BY <1>4
    <3>2. PICK a \in Links : a = IF p = y THEN x ELSE h[p].prev
      BY <1>5, <3>1, FrameTypes
    <3>3. PICK b \in Links : b = IF p = x THEN y ELSE h[p].next
      BY <1>5, <3>1, FrameTypes
    <3>4. k1[p] = [size |-> h[p].size, prev |-> a, next |-> b]
      BY <1>6, <2>1, <3>2, <3>3
    <3>5. p # x /\ p # y => k1[p] = h[p]
      BY <3>1, <3>2, <3>3, <3>4 DEF Hdrs
    <3>. QED  BY <1>2, <1>3, <3>1, <3>2, <3>3, <3>4, <3>5 DEF Hdrs
  <2>2. k1[i] = NoHdr
    BY <1>1, <1>6
  <2>3. k1 \in [Frames -> Hdrs]
    <3>1. \A p \in Frames : k1[p] \in Hdrs
      BY <2>1, <2>2, FrameTypes, Zenon
    <3>2. k1 = [p \in Frames |-> k1[p]]
      BY <1>6
    <3>. QED  BY <3>1, <3>2, Zenon
  <2>. QED  BY <2>1, <2>2, <2>3, Zenon DEF DropOf
<1>8. PICK f1 : f1 = IF h[i].prev = NIL THEN h[i].next ELSE f
  OBVIOUS
<1>9. /\ HeadsOf(k1) = HeadsOf(h) \ {i}
      /\ ListOK(f1, k1)
      /\ FreeIn(k1) = FreeIn(h) \ (i .. i + h[i].size - 1)
  BY <1>7, <1>8, ListDrop
<1>10. InsertOf(k1, s, m, x, y, k)
  <2>1. s # i /\ s \in Frames
    BY <1>1
  <2>2. ASSUME NEW p \in Frames \ {s}
        PROVE  /\ k[p].size = k1[p].size
               /\ k[p].next = IF p = x THEN s ELSE k1[p].next
               /\ k[p].prev = IF p = y THEN s ELSE k1[p].prev
               /\ p # x /\ p # y => k[p] = k1[p]
    <3>1. CASE p = i
      BY <1>1, <1>2, <1>3, <1>4, <1>7, <3>1, FrameTypes DEF DropOf, MoveOf
    <3>2. CASE p # i
      <4>1. /\ k[p].size = h[p].size
            /\ k[p].next = IF p = x THEN s ELSE h[p].next
            /\ k[p].prev = IF p = y THEN s ELSE h[p].prev
            /\ p # x /\ p # y => k[p] = h[p]
        BY <1>2, <1>3, <2>2, <3>2, Zenon DEF MoveOf
      <4>2. /\ k1[p].size = h[p].size
            /\ k1[p].next = IF p = x THEN y ELSE h[p].next
            /\ k1[p].prev = IF p = y THEN x ELSE h[p].prev
            /\ p # x /\ p # y => k1[p] = h[p]
        BY <1>2, <1>3, <1>7, <2>2, <3>2, Zenon DEF DropOf
      <4>. QED  BY <4>1, <4>2
    <3>. QED  BY <3>1, <3>2
  <2>3. k \in [Frames -> Hdrs] /\ k[s] = Header(m, x, y)
    BY <1>2, <1>3 DEF MoveOf
  <2>. QED  BY <2>2, <2>3, Zenon DEF InsertOf
<1>11. IsPrev(HeadsOf(k1), s, x) /\ IsNext(HeadsOf(k1), s, y)
  <2>1. IsPrev(HeadsOf(h), i, x) /\ IsNext(HeadsOf(h), i, y)
    BY <1>2, <1>3 DEF ListOK
  <2>2. s \in Int
    BY FrameTypes
  <2>3. x # NIL => x \in HeadsOf(h) \ {i} /\ x < s
    <3>1. x # NIL => x \in HeadsOf(h) /\ x < i /\ x + h[x].size < s
      BY <1>1, <1>2
    <3>2. x # NIL => h[x].size \in Nat \ {0}
      BY <3>1, Neighbours
    <3>. QED  BY <1>1, <1>4, <2>2, <3>1, <3>2, FrameTypes
  <2>4. y # NIL => y \in HeadsOf(h) \ {i} /\ s < y
    BY <1>1, <1>3, <1>4, <2>2, FrameTypes
  <2>5. IsPrev(HeadsOf(h) \ {i}, s, x)
    BY <1>1, <1>4, <2>1, <2>2, <2>3, <2>4, FrameTypes DEF IsPrev, IsNext
  <2>6. IsNext(HeadsOf(h) \ {i}, s, y)
    BY <1>1, <1>4, <2>1, <2>2, <2>3, <2>4, FrameTypes DEF IsPrev, IsNext
  <2>. QED  BY <1>9, <2>5, <2>6
<1>12. (x # NIL => x + k1[x].size < s) /\ (y # NIL => s + m < y)
  <2>1. x # NIL => x \in Frames \ {i}
    BY <1>1, <1>2, <1>4, FrameTypes
  <2>. QED  BY <1>2, <1>3, <1>7, <2>1 DEF DropOf
<1>13. g = IF x = NIL THEN s ELSE f1
  BY <1>2, <1>8
<1>14. RoomAt(k1, s, m, x, y)
  BY <1>9, <1>11, <1>12 DEF RoomAt
<1>15. /\ HeadsOf(k) = HeadsOf(k1) \cup {s}
       /\ ListOK(g, k)
       /\ FreeIn(k) = FreeIn(k1) \cup (s .. s + m - 1)
  BY <1>9, <1>10, <1>13, <1>14, ListInsert
<1>. QED  BY <1>9, <1>15

----------------------------------------------------------------------------
(* The assignments to the links *)

ListOf(f, h) == [first |-> f, hdr |-> h]

\* k is h with the links p.next = x, and with p.prev = x, and with the header x in p.
NextSet(h, p, x, k) ==
  /\ k \in [Frames -> Hdrs]
  /\ \A q \in Frames :
       /\ k[q].size = h[q].size /\ k[q].prev = h[q].prev
       /\ k[q].next = IF q = p THEN x ELSE h[q].next
       /\ q # p => k[q] = h[q]

PrevSet(h, p, x, k) ==
  /\ k \in [Frames -> Hdrs]
  /\ \A q \in Frames :
       /\ k[q].size = h[q].size /\ k[q].next = h[q].next
       /\ k[q].prev = IF q = p THEN x ELSE h[q].prev
       /\ q # p => k[q] = h[q]

HdrSet(h, p, x, k) ==
  /\ k \in [Frames -> Hdrs]
  /\ k[p] = x
  /\ \A q \in Frames \ {p} : k[q] = h[q]

\* What WithNext does.
LEMMA WithNextOf ==
  ASSUME NEW f, NEW h \in [Frames -> Hdrs], NEW p \in Links, NEW x \in Links
  PROVE  \E g, k : /\ WithNext(ListOf(f, h), p, x) = ListOf(g, k)
                   /\ g = IF p = NIL THEN x ELSE f
                   /\ NextSet(h, p, x, k)
<1>1. CASE p = NIL
  <2>1. WithNext(ListOf(f, h), p, x) = ListOf(x, h)
    BY <1>1 DEF WithNext, ListOf
  <2>2. NextSet(h, p, x, h)
    BY <1>1, FrameTypes DEF NextSet
  <2>. QED  BY <1>1, <2>1, <2>2, Zenon
<1>2. CASE p # NIL
  <2>1. p \in Frames
    BY <1>2 DEF Links
  <2>2. PICK k : k = [h EXCEPT ![p].next = x]
    BY Zenon
  <2>3. WithNext(ListOf(f, h), p, x) = ListOf(f, k)
    BY <1>2, <2>2 DEF WithNext, ListOf
  <2>4. k[p] = [h[p] EXCEPT !.next = x] /\ \A q \in Frames \ {p} : k[q] = h[q]
    BY <2>1, <2>2
  <2>5. k[p] \in Hdrs /\ k[p].size = h[p].size /\ k[p].prev = h[p].prev /\ k[p].next = x
    BY <2>1, <2>4 DEF Hdrs
  <2>6. k \in [Frames -> Hdrs]
    BY <2>1, <2>2, <2>5
  <2>7. NextSet(h, p, x, k)
    BY <2>4, <2>5, <2>6, Zenon DEF NextSet
  <2>. QED  BY <1>2, <2>3, <2>7, Zenon
<1>. QED  BY <1>1, <1>2

\* What WithPrev does.
LEMMA WithPrevOf ==
  ASSUME NEW f, NEW h \in [Frames -> Hdrs], NEW p \in Links, NEW x \in Links
  PROVE  \E k : WithPrev(ListOf(f, h), p, x) = ListOf(f, k) /\ PrevSet(h, p, x, k)
<1>1. CASE p = NIL
  <2>1. WithPrev(ListOf(f, h), p, x) = ListOf(f, h)
    BY <1>1 DEF WithPrev
  <2>2. PrevSet(h, p, x, h)
    BY <1>1, FrameTypes DEF PrevSet
  <2>. QED  BY <1>1, <2>1, <2>2, Zenon
<1>2. CASE p # NIL
  <2>1. p \in Frames
    BY <1>2 DEF Links
  <2>2. PICK k : k = [h EXCEPT ![p].prev = x]
    BY Zenon
  <2>3. WithPrev(ListOf(f, h), p, x) = ListOf(f, k)
    BY <1>2, <2>2 DEF WithPrev, ListOf
  <2>4. k[p] = [h[p] EXCEPT !.prev = x] /\ \A q \in Frames \ {p} : k[q] = h[q]
    BY <2>1, <2>2
  <2>5. k[p] \in Hdrs /\ k[p].size = h[p].size /\ k[p].next = h[p].next /\ k[p].prev = x
    BY <2>1, <2>4 DEF Hdrs
  <2>6. k \in [Frames -> Hdrs]
    BY <2>1, <2>2, <2>5
  <2>7. PrevSet(h, p, x, k)
    BY <2>4, <2>5, <2>6, Zenon DEF PrevSet
  <2>. QED  BY <2>3, <2>7, Zenon
<1>. QED  BY <1>1, <1>2

\* What WithHdr does.
LEMMA WithHdrOf ==
  ASSUME NEW f, NEW h \in [Frames -> Hdrs], NEW p \in Frames, NEW x \in Hdrs
  PROVE  \E k : WithHdr(ListOf(f, h), p, x) = ListOf(f, k) /\ HdrSet(h, p, x, k)
<1>1. PICK k : k = [h EXCEPT ![p] = x]
  BY Zenon
<1>2. WithHdr(ListOf(f, h), p, x) = ListOf(f, k)
  BY <1>1 DEF WithHdr, ListOf
<1>3. HdrSet(h, p, x, k)
  BY <1>1 DEF HdrSet
<1>. QED  BY <1>2, <1>3, Zenon

\* The links of region i, as the assignments need them.
LEMMA LinksOf ==
  ASSUME NEW f, NEW h, ListOK(f, h), NEW i \in HeadsOf(h)
  PROVE  /\ i \in Frames /\ h[i] \in Hdrs /\ h \in [Frames -> Hdrs]
         /\ h[i].prev \in Links /\ h[i].next \in Links
         /\ h[i].prev # i /\ h[i].next # i
         /\ h[i].next # NIL => h[i].next # h[i].prev
<1>1. HeadsOf(h) \subseteq Int
  BY FrameTypes, Zenon DEF HeadsOf
<1>2. i \in Frames /\ h[i] \in Hdrs /\ h \in [Frames -> Hdrs]
  BY Neighbours DEF ListOK
<1>. QED  BY <1>1, <1>2, Neighbours, FrameTypes

\* Unlinked takes a region out of the list.
LEMMA UnlinkedOf ==
  ASSUME NEW f, NEW h, ListOK(f, h), NEW i \in HeadsOf(h)
  PROVE  \E g, k :
           /\ Unlinked(ListOf(f, h), i) = ListOf(g, k)
           /\ DropOf(h, i, k)
           /\ g = IF h[i].prev = NIL THEN h[i].next ELSE f
<1>1. /\ i \in Frames /\ h[i] \in Hdrs /\ h \in [Frames -> Hdrs]
      /\ h[i].prev \in Links /\ h[i].next \in Links
      /\ h[i].prev # i /\ h[i].next # i
  BY LinksOf
<1>2. PICK x \in Links : x = h[i].prev
  BY <1>1
<1>3. PICK y \in Links : y = h[i].next
  BY <1>1
<1>4. PICK k1 : WithPrev(ListOf(f, h), y, x) = ListOf(f, k1) /\ PrevSet(h, y, x, k1)
  BY <1>1, WithPrevOf, Zenon
<1>5. PICK g, k2 : /\ WithNext(ListOf(f, k1), x, y) = ListOf(g, k2)
                   /\ g = IF x = NIL THEN y ELSE f
                   /\ NextSet(k1, x, y, k2)
  <2>1. k1 \in [Frames -> Hdrs]
    BY <1>4 DEF PrevSet
  <2>. QED  BY <2>1, WithNextOf, Zenon
<1>6. PICK k : WithHdr(ListOf(g, k2), i, NoHdr) = ListOf(g, k) /\ HdrSet(k2, i, NoHdr, k)
  <2>1. k2 \in [Frames -> Hdrs]
    BY <1>5 DEF NextSet
  <2>. QED  BY <1>1, <2>1, WithHdrOf, FrameTypes, Zenon
<1>7. Unlinked(ListOf(f, h), i) = ListOf(g, k)
  <2>1. ListOf(f, h).hdr = h
    BY DEF ListOf
  <2>. QED  BY <1>2, <1>3, <1>4, <1>5, <1>6, <2>1, Zenon DEF Unlinked
<1>8. DropOf(h, i, k)
  BY <1>1, <1>2, <1>3, <1>4, <1>5, <1>6 DEF DropOf, PrevSet, NextSet, HdrSet
<1>9. g = IF h[i].prev = NIL THEN h[i].next ELSE f
  BY <1>2, <1>3, <1>5
<1>. QED  BY <1>7, <1>8, <1>9, Zenon

\* A header is a header.
LEMMA HeaderType ==
  ASSUME NEW m \in Int, NEW x \in Links, NEW y \in Links
  PROVE  Header(m, x, y) \in Hdrs
BY DEF Header, Hdrs

\* The assignment to first_free_page.
LEMMA FirstOf ==
  ASSUME NEW f, NEW h, NEW x
  PROVE  [ListOf(f, h) EXCEPT !.first = x] = ListOf(x, h)
BY DEF ListOf

\* Moved replaces a region.
LEMMA MovedOf ==
  ASSUME NEW f, NEW h, ListOK(f, h), NEW i \in HeadsOf(h), NEW s \in Frames, NEW m \in Int,
         s # i, s # h[i].prev, s # h[i].next
  PROVE  \E g, k :
           /\ Moved(ListOf(f, h), i, s, m) = ListOf(g, k)
           /\ MoveOf(h, i, s, m, k)
           /\ g = IF h[i].prev = NIL THEN s ELSE f
<1>1. /\ i \in Frames /\ h[i] \in Hdrs /\ h \in [Frames -> Hdrs]
      /\ h[i].prev \in Links /\ h[i].next \in Links
      /\ h[i].prev # i /\ h[i].next # i
  BY LinksOf
<1>2. PICK x \in Links : x = h[i].prev
  BY <1>1
<1>3. PICK y \in Links : y = h[i].next
  BY <1>1
<1>4. s \in Links /\ Header(m, x, y) \in Hdrs
  BY HeaderType DEF Links
<1>5. PICK k1 : WithPrev(ListOf(f, h), y, s) = ListOf(f, k1) /\ PrevSet(h, y, s, k1)
  BY <1>1, <1>4, WithPrevOf, Zenon
<1>6. PICK g, k2 : /\ WithNext(ListOf(f, k1), x, s) = ListOf(g, k2)
                   /\ g = IF x = NIL THEN s ELSE f
                   /\ NextSet(k1, x, s, k2)
  <2>1. k1 \in [Frames -> Hdrs]
    BY <1>5 DEF PrevSet
  <2>. QED  BY <1>4, <2>1, WithNextOf, Zenon
<1>7. PICK k3 : WithHdr(ListOf(g, k2), i, NoHdr) = ListOf(g, k3) /\ HdrSet(k2, i, NoHdr, k3)
  <2>1. k2 \in [Frames -> Hdrs]
    BY <1>6 DEF NextSet
  <2>. QED  BY <1>1, <2>1, WithHdrOf, FrameTypes, Zenon
<1>8. PICK k : /\ WithHdr(ListOf(g, k3), s, Header(m, x, y)) = ListOf(g, k)
               /\ HdrSet(k3, s, Header(m, x, y), k)
  <2>1. k3 \in [Frames -> Hdrs]
    BY <1>7 DEF HdrSet
  <2>. QED  BY <1>4, <2>1, WithHdrOf, Zenon
<1>9. Moved(ListOf(f, h), i, s, m) = ListOf(g, k)
  <2>1. ListOf(f, h).hdr = h
    BY DEF ListOf
  <2>. QED  BY <1>2, <1>3, <1>5, <1>6, <1>7, <1>8, <2>1, Zenon DEF Moved
<1>10. MoveOf(h, i, s, m, k)
  <2>1. k[s] = Header(m, h[i].prev, h[i].next) /\ k[i] = NoHdr /\ k \in [Frames -> Hdrs]
    BY <1>1, <1>2, <1>3, <1>7, <1>8 DEF HdrSet
  <2>2. \A p \in Frames \ {i, s} : k[p] = k2[p]
    BY <1>7, <1>8 DEF HdrSet
  <2>3. ASSUME NEW p \in Frames \ {i, s}
        PROVE  /\ k[p].size = h[p].size
               /\ k[p].next = IF p = x THEN s ELSE h[p].next
               /\ k[p].prev = IF p = y THEN s ELSE h[p].prev
               /\ p # x /\ p # y => k[p] = h[p]
    <3>1. /\ k1[p].size = h[p].size /\ k1[p].next = h[p].next
          /\ k1[p].prev = IF p = y THEN s ELSE h[p].prev
          /\ p # y => k1[p] = h[p]
      BY <1>5, Zenon DEF PrevSet
    <3>2. /\ k2[p].size = k1[p].size /\ k2[p].prev = k1[p].prev
          /\ k2[p].next = IF p = x THEN s ELSE k1[p].next
          /\ p # x => k2[p] = k1[p]
      BY <1>6, Zenon DEF NextSet
    <3>. QED  BY <2>2, <2>3, <3>1, <3>2
  <2>. QED  BY <1>2, <1>3, <2>1, <2>3, Zenon DEF MoveOf
<1>11. g = IF h[i].prev = NIL THEN s ELSE f
  BY <1>2, <1>6
<1>. QED  BY <1>9, <1>10, <1>11, Zenon

\* The successor of a region names it as its predecessor, and the other way round.
LEMMA BackLinks ==
  ASSUME NEW f, NEW h, ListOK(f, h), NEW i \in HeadsOf(h)
  PROVE  /\ h[i].next # NIL => h[h[i].next].prev = i
         /\ h[i].prev # NIL => h[h[i].prev].next = i
<1>1. PICK H : H = HeadsOf(h)
  OBVIOUS
<1>2. H \subseteq Int /\ NIL \notin H
  BY <1>1, FrameTypes DEF HeadsOf
<1>3. \A p \in H : IsNext(H, p, h[p].next) /\ IsPrev(H, p, h[p].prev)
  BY <1>1 DEF ListOK
<1>4. ASSUME NEW y \in H, y = h[i].next PROVE h[y].prev = i
  <2>1. IsNext(H, i, y) /\ IsPrev(H, y, h[y].prev) /\ i \in H
    BY <1>1, <1>3, <1>4
  <2>2. PICK z : z = h[y].prev
    OBVIOUS
  <2>3. y > i /\ \A q \in H : q > i => y <= q
    BY <1>2, <1>4, <2>1 DEF IsNext
  <2>4. z \in H /\ z < y /\ i <= z
    BY <1>2, <2>1, <2>2, <2>3 DEF IsPrev
  <2>5. ~(i < z)
    BY <1>2, <2>1, <2>3, <2>4
  <2>. QED  BY <1>2, <2>1, <2>2, <2>4, <2>5
<1>5. ASSUME NEW x \in H, x = h[i].prev PROVE h[x].next = i
  <2>1. IsPrev(H, i, x) /\ IsNext(H, x, h[x].next) /\ i \in H
    BY <1>1, <1>3, <1>5
  <2>2. PICK z : z = h[x].next
    OBVIOUS
  <2>3. x < i /\ \A q \in H : q < i => q <= x
    BY <1>2, <1>5, <2>1 DEF IsPrev
  <2>4. z \in H /\ z > x /\ z <= i
    BY <1>2, <2>1, <2>2, <2>3 DEF IsNext
  <2>5. ~(z < i)
    BY <1>2, <2>1, <2>3, <2>4
  <2>. QED  BY <1>2, <2>1, <2>2, <2>4, <2>5
<1>. QED  BY <1>1, <1>4, <1>5, Neighbours

----------------------------------------------------------------------------
(* The lists the calls leave behind *)

\* Two regions touch neither each other nor what lies between them.
LEMMA BesideHead ==
  ASSUME NEW f, NEW h, ListOK(f, h), NEW i \in HeadsOf(h), NEW q \in HeadsOf(h)
  PROVE  /\ q < i => q + h[q].size < i
         /\ q > i => i + h[i].size < q
         /\ q \in Int /\ i \in Int
BY FrameTypes DEF ListOK, Spaced, HeadsOf

\* Take: the first n pages of region i are handed out.
LEMMA TakeOf ==
  ASSUME NEW f, NEW h, ListOK(f, h), NEW i \in HeadsOf(h), NEW n \in Nat \ {0}, n <= h[i].size,
         NEW l,
         l = IF h[i].size = n THEN Unlinked(ListOf(f, h), i)
             ELSE Moved(ListOf(f, h), i, i + n, h[i].size - n)
  PROVE  \E g, k : /\ l = ListOf(g, k)
                   /\ ListOK(g, k)
                   /\ FreeIn(k) = FreeIn(h) \ (i .. i + n - 1)
<1>1. /\ i \in Frames /\ i \in Int
      /\ h[i].size \in Nat \ {0} /\ i + h[i].size <= PageCount
      /\ h[i].prev = NIL \/ (h[i].prev \in HeadsOf(h) /\ h[i].prev < i)
      /\ h[i].next = NIL \/ (h[i].next \in HeadsOf(h) /\ h[i].next > i + h[i].size)
  BY Neighbours, FrameTypes, Zenon
<1>2. CASE h[i].size = n
  <2>1. PICK g, k : /\ Unlinked(ListOf(f, h), i) = ListOf(g, k)
                    /\ DropOf(h, i, k)
                    /\ g = IF h[i].prev = NIL THEN h[i].next ELSE f
    BY UnlinkedOf, Zenon
  <2>2. ListOK(g, k) /\ FreeIn(k) = FreeIn(h) \ (i .. i + n - 1)
    BY <1>2, <2>1, ListDrop
  <2>. QED  BY <1>2, <2>1, <2>2, Zenon
<1>3. CASE h[i].size # n
  <2>1. PICK s : s = i + n
    OBVIOUS
  <2>2. PICK m : m = h[i].size - n
    OBVIOUS
  <2>3. /\ s \in Frames /\ m \in Nat \ {0} /\ s + m = i + h[i].size /\ s > i
        /\ s < i + h[i].size /\ s \in Int
    BY <1>1, <1>3, <2>1, <2>2, PfAssumption DEF Frames
  <2>4. s \notin HeadsOf(h)
    <3>1. s \in HeadsOf(h) => i + h[i].size < s
      BY <2>3, BesideHead, Zenon
    <3>. QED  BY <1>1, <2>3, <3>1
  <2>5. s # i /\ s # h[i].prev /\ s # h[i].next
    BY <1>1, <2>3, <2>4, FrameTypes
  <2>6. PICK g, k : /\ Moved(ListOf(f, h), i, s, m) = ListOf(g, k)
                    /\ MoveOf(h, i, s, m, k)
                    /\ g = IF h[i].prev = NIL THEN s ELSE f
    <3>1. m \in Int
      BY <2>3
    <3>. QED  BY <2>3, <2>5, <3>1, MovedOf, Zenon
  <2>7. h[i].prev # NIL => h[i].prev + h[h[i].prev].size < s
    <3>1. SUFFICES ASSUME NEW x \in HeadsOf(h), x = h[i].prev, x < i PROVE x + h[x].size < s
      BY <1>1, Zenon
    <3>2. x + h[x].size < i /\ x \in Int
      BY <3>1, BesideHead
    <3>3. h[x].size \in Nat
      BY Neighbours
    <3>. QED  BY <1>1, <2>3, <3>2, <3>3
  <2>8. h[i].next # NIL => s + m < h[i].next
    BY <1>1, <2>3
  <2>9. MoveRoom(h, i, s, m)
    BY <1>1, <2>3, <2>4, <2>7, <2>8 DEF MoveRoom
  <2>10. /\ ListOK(g, k)
         /\ FreeIn(k) = (FreeIn(h) \ (i .. i + h[i].size - 1)) \cup (s .. s + m - 1)
    BY <2>6, <2>9, ListMove
  <2>11. FreeIn(k) = FreeIn(h) \ (i .. i + n - 1)
    <3>1. i .. i + h[i].size - 1 \subseteq FreeIn(h)
      BY <1>1, PfAssumption DEF FreeIn, Frames
    <3>2. i .. i + h[i].size - 1 = (i .. i + n - 1) \cup (s .. s + m - 1)
      BY <1>1, <2>1, <2>2, <2>3
    <3>3. (i .. i + n - 1) \cap (s .. s + m - 1) = {}
      BY <1>1, <2>1, <2>3
    <3>. QED  BY <2>10, <3>1, <3>2, <3>3, Zenon
  <2>12. l = ListOf(g, k)
    BY <1>3, <2>1, <2>2, <2>6
  <2>. QED  BY <2>10, <2>11, <2>12, Zenon
<1>. QED  BY <1>2, <1>3

\* __kpageframe_alloc_one: the first page of the first region is handed out.
LEMMA TakeOneOf ==
  ASSUME NEW f, NEW h, ListOK(f, h), f # NIL, NEW l,
         l = IF h[f].size # 1
             THEN WithHdr([WithPrev(WithHdr(ListOf(f, h), f, NoHdr), h[f].next, f + 1)
                             EXCEPT !.first = f + 1],
                          f + 1, Header(h[f].size - 1, NIL, h[f].next))
             ELSE WithPrev([WithHdr(ListOf(f, h), f, NoHdr) EXCEPT !.first = h[f].next],
                           h[f].next, NIL)
  PROVE  /\ f \in HeadsOf(h)
         /\ \E g, k : /\ l = ListOf(g, k)
                      /\ ListOK(g, k)
                      /\ FreeIn(k) = FreeIn(h) \ (f .. f + 1 - 1)
<1>1. f \in HeadsOf(h)
  BY DEF ListOK, IsFirst
<1>2. /\ f \in Frames /\ f \in Int /\ h \in [Frames -> Hdrs]
      /\ h[f].size \in Nat \ {0} /\ f + h[f].size <= PageCount
      /\ h[f].prev = NIL
      /\ h[f].next = NIL \/ (h[f].next \in HeadsOf(h) /\ h[f].next > f + h[f].size)
      /\ h[f].next # f
  BY <1>1, Neighbours, LinksOf, FrameTypes DEF ListOK
<1>3. PICK y \in Links : y = h[f].next
  BY <1>1, LinksOf
<1>4. PICK k1 : WithHdr(ListOf(f, h), f, NoHdr) = ListOf(f, k1) /\ HdrSet(h, f, NoHdr, k1)
  BY <1>2, WithHdrOf, FrameTypes, Zenon
<1>5. k1 \in [Frames -> Hdrs] /\ NIL \in Links
  BY <1>4 DEF HdrSet, Links
<1>6. CASE h[f].size = 1
  <2>1. PICK k : WithPrev(ListOf(y, k1), y, NIL) = ListOf(y, k) /\ PrevSet(k1, y, NIL, k)
    BY <1>5, WithPrevOf, Zenon
  <2>2. l = ListOf(y, k)
    <3>1. l = WithPrev([ListOf(f, k1) EXCEPT !.first = y], y, NIL)
      BY <1>3, <1>4, <1>6
    <3>. QED  BY <2>1, <3>1, FirstOf, ZenonT(30)
  <2>3. DropOf(h, f, k)
    BY <1>2, <1>3, <1>4, <2>1, FrameTypes DEF DropOf, PrevSet, HdrSet
  <2>4. y = IF h[f].prev = NIL THEN h[f].next ELSE f
    BY <1>2, <1>3
  <2>5. ListOK(y, k) /\ FreeIn(k) = FreeIn(h) \ (f .. f + h[f].size - 1)
    BY <1>1, <2>3, <2>4, ListDrop
  <2>. QED  BY <1>1, <1>6, <2>2, <2>5, Zenon
<1>7. CASE h[f].size # 1
  <2>1. PICK s : s = f + 1
    OBVIOUS
  <2>2. PICK m : m = h[f].size - 1
    OBVIOUS
  <2>3. /\ s \in Frames /\ s \in Links /\ s \in Int /\ m \in Nat \ {0}
        /\ s + m = f + h[f].size /\ s > f /\ s < f + h[f].size
    BY <1>2, <1>7, <2>1, <2>2, PfAssumption, SMTT(20) DEF Frames, Links
  <2>4. s \notin HeadsOf(h)
    <3>1. s \in HeadsOf(h) => f + h[f].size < s
      BY <1>1, <2>3, BesideHead
    <3>. QED  BY <1>2, <2>3, <3>1
  <2>5. Header(m, NIL, y) \in Hdrs
    BY <1>5, <2>3, HeaderType
  <2>6. PICK k2 : WithPrev(ListOf(f, k1), y, s) = ListOf(f, k2) /\ PrevSet(k1, y, s, k2)
    BY <1>5, <2>3, WithPrevOf, Zenon
  <2>7. PICK k : /\ WithHdr(ListOf(s, k2), s, Header(m, NIL, y)) = ListOf(s, k)
                 /\ HdrSet(k2, s, Header(m, NIL, y), k)
    <3>1. k2 \in [Frames -> Hdrs]
      BY <2>6 DEF PrevSet
    <3>. QED  BY <2>3, <2>5, <3>1, WithHdrOf, Zenon
  <2>8. l = ListOf(s, k)
    <3>1. l = WithHdr([ListOf(f, k2) EXCEPT !.first = s], s, Header(m, NIL, y))
      BY <1>3, <1>4, <1>7, <2>1, <2>2, <2>6
    <3>2. [ListOf(f, k2) EXCEPT !.first = s] = ListOf(s, k2)
      BY FirstOf
    <3>. QED  BY <2>7, <3>1, <3>2
  <2>9. MoveOf(h, f, s, m, k)
    <3>1. k \in [Frames -> Hdrs] /\ k[s] = Header(m, h[f].prev, h[f].next)
      BY <1>2, <1>3, <2>7 DEF HdrSet
    <3>2. k[f] = NoHdr
      BY <1>2, <1>3, <1>4, <2>3, <2>6, <2>7 DEF HdrSet, PrevSet
    <3>3. ASSUME NEW p \in Frames \ {f, s}
          PROVE  /\ k[p].size = h[p].size /\ k[p].next = h[p].next
                 /\ k[p].prev = IF p = y THEN s ELSE h[p].prev
                 /\ p # y => k[p] = h[p]
      <4>1. k1[p] = h[p] /\ k[p] = k2[p]
        BY <1>4, <2>7 DEF HdrSet
      <4>2. /\ k2[p].size = k1[p].size /\ k2[p].next = k1[p].next
            /\ k2[p].prev = IF p = y THEN s ELSE k1[p].prev
            /\ p # y => k2[p] = k1[p]
        BY <2>6, Zenon DEF PrevSet
      <4>. QED  BY <4>1, <4>2, Zenon
    <3>4. \A p \in Frames : p # h[f].prev
      BY <1>2, FrameTypes
    <3>. QED  BY <1>3, <3>1, <3>2, <3>3, <3>4, Zenon DEF MoveOf
  <2>10. MoveRoom(h, f, s, m)
    BY <1>2, <2>3, <2>4 DEF MoveRoom
  <2>11. s = IF h[f].prev = NIL THEN s ELSE f
    BY <1>2
  <2>12. /\ ListOK(s, k)
         /\ FreeIn(k) = (FreeIn(h) \ (f .. f + h[f].size - 1)) \cup (s .. s + m - 1)
    BY <1>1, <2>9, <2>10, <2>11, ListMove
  <2>13. FreeIn(k) = FreeIn(h) \ (f .. f + 1 - 1)
    <3>1. f .. f + h[f].size - 1 \subseteq FreeIn(h)
      BY <1>1, <1>2, PfAssumption DEF FreeIn, Frames
    <3>2. f .. f + h[f].size - 1 = (f .. f + 1 - 1) \cup (s .. s + m - 1)
      BY <1>2, <2>1, <2>2, <2>3
    <3>3. (f .. f + 1 - 1) \cap (s .. s + m - 1) = {}
      BY <1>2, <2>1, <2>3
    <3>. QED  BY <2>12, <3>1, <3>2, <3>3, Zenon
  <2>. QED  BY <1>1, <2>8, <2>12, <2>13, Zenon
<1>. QED  BY <1>6, <1>7

\* The n pages at s are given back: they join region i behind them.
LEMMA MergedBelowOf ==
  ASSUME NEW f, NEW h, ListOK(f, h), NEW i \in HeadsOf(h), NEW s \in Frames \ HeadsOf(h),
         NEW n \in Nat \ {0}, s + n = i, \A q \in HeadsOf(h) : q < i => q + h[q].size < s
  PROVE  \E g, k : /\ Moved(ListOf(f, h), i, s, n + h[i].size) = ListOf(g, k)
                   /\ ListOK(g, k)
                   /\ FreeIn(k) = FreeIn(h) \cup (s .. s + n - 1)
<1>1. /\ i \in Frames /\ i \in Int /\ s \in Int
      /\ h[i].size \in Nat \ {0} /\ i + h[i].size <= PageCount
      /\ h[i].prev = NIL \/ (h[i].prev \in HeadsOf(h) /\ h[i].prev < i)
      /\ h[i].next = NIL \/ (h[i].next \in HeadsOf(h) /\ h[i].next > i + h[i].size)
  BY Neighbours, FrameTypes
<1>2. PICK m : m = n + h[i].size
  OBVIOUS
<1>3. m \in Nat \ {0} /\ m \in Int /\ s + m = i + h[i].size /\ s # i
  BY <1>1, <1>2
<1>4. s # h[i].prev /\ s # h[i].next
  BY <1>1, FrameTypes
<1>5. PICK g, k : /\ Moved(ListOf(f, h), i, s, m) = ListOf(g, k)
                  /\ MoveOf(h, i, s, m, k)
                  /\ g = IF h[i].prev = NIL THEN s ELSE f
  BY <1>3, <1>4, MovedOf, ZenonT(30)
<1>6. h[i].prev # NIL => h[i].prev + h[h[i].prev].size < s
  BY <1>1, Zenon
<1>7. h[i].next # NIL => s + m < h[i].next
  BY <1>1, <1>3
<1>8. MoveRoom(h, i, s, m)
  BY <1>1, <1>3, <1>6, <1>7 DEF MoveRoom
<1>9. /\ ListOK(g, k)
      /\ FreeIn(k) = (FreeIn(h) \ (i .. i + h[i].size - 1)) \cup (s .. s + m - 1)
  BY <1>5, <1>8, ListMove
<1>10. FreeIn(k) = FreeIn(h) \cup (s .. s + n - 1)
  <2>1. i .. i + h[i].size - 1 \subseteq FreeIn(h)
    BY <1>1, PfAssumption DEF FreeIn, Frames
  <2>2. s .. s + m - 1 = (s .. s + n - 1) \cup (i .. i + h[i].size - 1)
    BY <1>1, <1>3
  <2>. QED  BY <1>9, <2>1, <2>2, Zenon
<1>. QED  BY <1>2, <1>5, <1>9, <1>10, Zenon

\* l has the n pages at s as a region of their own between the regions x and y.
InsertedAt(f, h, s, n, x, y, l) ==
  /\ x \in Links /\ y \in Links /\ RoomAt(h, s, n, x, y)
  /\ l = WithHdr(WithPrev(WithNext(ListOf(f, h), x, s), y, s), s, Header(n, x, y))

\* They become a region of their own.
LEMMA InsertedOf ==
  ASSUME NEW f, NEW h, ListOK(f, h), NEW s, NEW n, NEW x, NEW y, NEW l,
         InsertedAt(f, h, s, n, x, y, l)
  PROVE  \E g, k : /\ l = ListOf(g, k)
                   /\ ListOK(g, k)
                   /\ FreeIn(k) = FreeIn(h) \cup (s .. s + n - 1)
<1>. x \in Links /\ y \in Links /\ RoomAt(h, s, n, x, y)
  BY DEF InsertedAt
<1>1. h \in [Frames -> Hdrs]
  BY DEF ListOK
<1>2. s \in Frames /\ s \in Links /\ n \in Int
  BY DEF RoomAt, Links
<1>3. Header(n, x, y) \in Hdrs
  BY <1>2, HeaderType
<1>4. PICK g, k1 : /\ WithNext(ListOf(f, h), x, s) = ListOf(g, k1)
                   /\ g = IF x = NIL THEN s ELSE f
                   /\ NextSet(h, x, s, k1)
  BY <1>1, <1>2, WithNextOf, Zenon
<1>5. PICK k2 : WithPrev(ListOf(g, k1), y, s) = ListOf(g, k2) /\ PrevSet(k1, y, s, k2)
  <2>1. k1 \in [Frames -> Hdrs]
    BY <1>4 DEF NextSet
  <2>. QED  BY <1>2, <2>1, WithPrevOf, Zenon
<1>6. PICK k : /\ WithHdr(ListOf(g, k2), s, Header(n, x, y)) = ListOf(g, k)
               /\ HdrSet(k2, s, Header(n, x, y), k)
  <2>1. k2 \in [Frames -> Hdrs]
    BY <1>5 DEF PrevSet
  <2>. QED  BY <1>2, <1>3, <2>1, WithHdrOf, Zenon
<1>7. InsertOf(h, s, n, x, y, k)
  <2>1. k \in [Frames -> Hdrs] /\ k[s] = Header(n, x, y)
    BY <1>6 DEF HdrSet
  <2>2. ASSUME NEW p \in Frames \ {s}
        PROVE  /\ k[p].size = h[p].size
               /\ k[p].next = IF p = x THEN s ELSE h[p].next
               /\ k[p].prev = IF p = y THEN s ELSE h[p].prev
               /\ p # x /\ p # y => k[p] = h[p]
    <3>1. /\ k2[p].size = k1[p].size /\ k2[p].next = k1[p].next
          /\ k2[p].prev = IF p = y THEN s ELSE k1[p].prev
          /\ p # y => k2[p] = k1[p]
      BY <1>5, Zenon DEF PrevSet
    <3>2. /\ k1[p].size = h[p].size /\ k1[p].prev = h[p].prev
          /\ k1[p].next = IF p = x THEN s ELSE h[p].next
          /\ p # x => k1[p] = h[p]
      BY <1>4, Zenon DEF NextSet
    <3>3. k[p] = k2[p]
      BY <1>6 DEF HdrSet
    <3>. QED  BY <3>1, <3>2, <3>3
  <2>. QED  BY <2>1, <2>2, Zenon DEF InsertOf
<1>8. ListOK(g, k) /\ FreeIn(k) = FreeIn(h) \cup (s .. s + n - 1)
  BY <1>4, <1>7, ListInsert
<1>9. l = ListOf(g, k)
  BY <1>4, <1>5, <1>6, Zenon DEF InsertedAt
<1>. QED  BY <1>8, <1>9, Zenon

\* They join region i before them, and the region behind them if they meet it.
LEMMA MergedAboveOf ==
  ASSUME NEW f, NEW h, ListOK(f, h), NEW i \in HeadsOf(h), NEW n \in Nat \ {0},
         i + h[i].size + n <= PageCount,
         \A q \in HeadsOf(h) : q > i => i + h[i].size + n <= q,
         NEW l, l = IF h[i].next = i + (h[i].size + n)
                    THEN WithHdr(WithHdr(WithPrev(ListOf(f, h), h[h[i].next].next, i),
                                         h[i].next, NoHdr),
                                 i, Header(h[i].size + n + h[h[i].next].size, h[i].prev,
                                           h[h[i].next].next))
                    ELSE WithHdr(ListOf(f, h), i, Header(h[i].size + n, h[i].prev, h[i].next))
  PROVE  \E g, k : /\ l = ListOf(g, k)
                   /\ ListOK(g, k)
                   /\ FreeIn(k) = FreeIn(h) \cup (i + h[i].size .. i + h[i].size + n - 1)
<1>1. /\ i \in Frames /\ i \in Int /\ h \in [Frames -> Hdrs]
      /\ h[i].size \in Nat \ {0} /\ i + h[i].size <= PageCount
      /\ h[i].prev \in Links /\ h[i].next \in Links
      /\ h[i].next = NIL \/ (h[i].next \in HeadsOf(h) /\ h[i].next > i + h[i].size)
  BY Neighbours, LinksOf, FrameTypes
<1>2. PICK m : m = h[i].size + n
  OBVIOUS
<1>3. /\ m \in Nat \ {0} /\ i + m <= PageCount
      /\ \A q \in HeadsOf(h) : q > i => i + m <= q
  BY <1>1, <1>2, FrameTypes DEF HeadsOf
<1>4. i .. i + h[i].size - 1 \subseteq FreeIn(h)
  BY <1>1, PfAssumption DEF FreeIn, Frames
<1>5. i .. i + m - 1 = (i .. i + h[i].size - 1) \cup (i + h[i].size .. i + h[i].size + n - 1)
  BY <1>1, <1>2
<1>6. CASE h[i].next # i + m
  <2>1. Header(m, h[i].prev, h[i].next) \in Hdrs
    BY <1>1, <1>3, HeaderType
  <2>2. PICK k : /\ WithHdr(ListOf(f, h), i, Header(m, h[i].prev, h[i].next)) = ListOf(f, k)
                 /\ HdrSet(h, i, Header(m, h[i].prev, h[i].next), k)
    BY <1>1, <2>1, WithHdrOf, Zenon
  <2>3. ResizeOf(h, i, m, k)
    BY <2>2, Zenon DEF ResizeOf, HdrSet
  <2>4. h[i].next # NIL => i + m < h[i].next
    <3>1. SUFFICES ASSUME NEW y \in HeadsOf(h), y = h[i].next, y > i + h[i].size PROVE i + m < y
      BY <1>1, Zenon
    <3>2. y \in Int
      BY <3>1, BesideHead
    <3>. QED  BY <1>1, <1>3, <1>6, <3>1, <3>2
  <2>5. /\ ListOK(f, k)
        /\ FreeIn(k) = (FreeIn(h) \ (i .. i + h[i].size - 1)) \cup (i .. i + m - 1)
    BY <1>3, <2>3, <2>4, ListResize
  <2>6. FreeIn(k) = FreeIn(h) \cup (i + h[i].size .. i + h[i].size + n - 1)
    BY <1>4, <1>5, <2>5, Zenon
  <2>7. l = ListOf(f, k)
    BY <1>2, <1>6, <2>2
  <2>. QED  BY <2>5, <2>6, <2>7, Zenon
<1>7. CASE h[i].next = i + m
  <2>1. PICK j : j = h[i].next
    OBVIOUS
  <2>2. j \in HeadsOf(h) /\ j = i + m /\ j > i /\ j \in Int /\ j \in Frames
    <3>1. i + m # NIL
      BY <1>1, <1>3, PfAssumption DEF NIL, Frames
    <3>2. j \in HeadsOf(h)
      BY <1>1, <1>7, <2>1, <3>1
    <3>. QED  BY <1>1, <1>3, <1>7, <2>1, <3>2, FrameTypes DEF HeadsOf
  <2>3. /\ h[j].size \in Nat \ {0} /\ j + h[j].size <= PageCount
        /\ h[j].next = NIL \/ (h[j].next \in HeadsOf(h) /\ h[j].next > j + h[j].size)
        /\ h[j].next \in Links /\ h[j].next # j
    BY <2>2, Neighbours, LinksOf
  <2>4. h[j].prev = i /\ i # NIL
    <3>1. j # NIL /\ i # NIL
      BY <1>1, <2>2, FrameTypes
    <3>. QED  BY <2>1, <3>1, BackLinks
  <2>5. PICK y \in Links : y = h[j].next
    BY <2>3
  <2>6. y # i
    BY <1>1, <2>2, <2>3, <2>5, FrameTypes DEF HeadsOf
  <2>7. PICK g, k1 : /\ Unlinked(ListOf(f, h), j) = ListOf(g, k1)
                     /\ DropOf(h, j, k1)
                     /\ g = IF h[j].prev = NIL THEN h[j].next ELSE f
    BY <2>2, UnlinkedOf, Zenon
  <2>8. g = f
    BY <2>4, <2>7
  <2>9. /\ HeadsOf(k1) = HeadsOf(h) \ {j}
        /\ ListOK(f, k1)
        /\ FreeIn(k1) = FreeIn(h) \ (j .. j + h[j].size - 1)
    BY <2>2, <2>7, <2>8, ListDrop
  <2>10. i \in HeadsOf(k1) /\ i # j
    BY <1>1, <2>2, <2>9
  <2>11. k1[i].size = h[i].size /\ k1[i].next = y /\ k1[i].prev = h[i].prev
    BY <1>1, <2>4, <2>5, <2>6, <2>7, <2>10 DEF DropOf
  <2>12. PICK M : M = m + h[j].size
    OBVIOUS
  <2>13. /\ M \in Nat \ {0} /\ M \in Int /\ i + M = j + h[j].size /\ i + M <= PageCount
         /\ Header(M, h[i].prev, y) \in Hdrs
    BY <1>1, <1>3, <2>2, <2>3, <2>12, HeaderType
  <2>14. PICK k2 : WithPrev(ListOf(f, h), y, i) = ListOf(f, k2) /\ PrevSet(h, y, i, k2)
    <3>1. i \in Links
      BY <1>1 DEF Links
    <3>. QED  BY <1>1, <3>1, WithPrevOf, Zenon
  <2>15. PICK k3 : WithHdr(ListOf(f, k2), j, NoHdr) = ListOf(f, k3) /\ HdrSet(k2, j, NoHdr, k3)
    <3>1. k2 \in [Frames -> Hdrs]
      BY <2>14 DEF PrevSet
    <3>. QED  BY <2>2, <3>1, WithHdrOf, FrameTypes, Zenon
  <2>16. PICK k : /\ WithHdr(ListOf(f, k3), i, Header(M, h[i].prev, y)) = ListOf(f, k)
                  /\ HdrSet(k3, i, Header(M, h[i].prev, y), k)
    <3>1. k3 \in [Frames -> Hdrs]
      BY <2>15 DEF HdrSet
    <3>. QED  BY <1>1, <2>13, <3>1, WithHdrOf, Zenon
  <2>17. l = ListOf(f, k)
    <3>1. h[i].next = i + (h[i].size + n)
      BY <1>2, <1>7
    <3>2. l = WithHdr(WithHdr(WithPrev(ListOf(f, h), y, i), j, NoHdr), i, Header(M, h[i].prev, y))
      BY <1>2, <2>1, <2>5, <2>12, <3>1
    <3>. QED  BY <2>14, <2>15, <2>16, <3>2, Zenon
  <2>18. ResizeOf(k1, i, M, k)
    <3>1. k \in [Frames -> Hdrs] /\ k[i] = Header(M, k1[i].prev, k1[i].next)
      BY <2>11, <2>16 DEF HdrSet
    <3>2. ASSUME NEW p \in Frames \ {i} PROVE k[p] = k1[p]
      <4>1. CASE p = j
        BY <2>7, <2>15, <2>16, <3>2, <4>1 DEF HdrSet, DropOf
      <4>2. CASE p # j /\ p # y
        BY <2>4, <2>5, <2>7, <2>14, <2>15, <2>16, <3>2, <4>2, SMTT(20) DEF HdrSet, DropOf, PrevSet
      <4>3. CASE p = y
        <5>1. k[p] = k2[p]
          BY <2>3, <2>5, <2>15, <2>16, <3>2, <4>3 DEF HdrSet
        <5>2. k2[p].size = h[p].size /\ k2[p].next = h[p].next /\ k2[p].prev = i
          BY <2>14, <4>3 DEF PrevSet
        <5>3. k1[p].size = h[p].size /\ k1[p].next = h[p].next /\ k1[p].prev = i
          BY <2>3, <2>4, <2>5, <2>7, <3>2, <4>3 DEF DropOf
        <5>4. k2[p] \in Hdrs /\ k1[p] \in Hdrs
          BY <2>7, <2>14, SMTT(20) DEF DropOf, PrevSet
        <5>. QED  BY <5>1, <5>2, <5>3, <5>4 DEF Hdrs
      <4>. QED  BY <4>1, <4>2, <4>3
    <3>. QED  BY <3>1, <3>2, Zenon DEF ResizeOf
  <2>19. k1[i].next # NIL => i + M < k1[i].next
    BY <2>3, <2>5, <2>11, <2>13, SMTT(20)
  <2>20. /\ ListOK(f, k)
         /\ FreeIn(k) = (FreeIn(k1) \ (i .. i + k1[i].size - 1)) \cup (i .. i + M - 1)
    BY <2>9, <2>10, <2>13, <2>18, <2>19, ListResize
  <2>21. i .. i + M - 1 = (i .. i + m - 1) \cup (j .. j + h[j].size - 1)
    BY <1>1, <1>3, <2>2, <2>3, <2>13
  <2>22. j .. j + h[j].size - 1 \subseteq FreeIn(h)
    BY <2>2, <2>3, PfAssumption DEF FreeIn, Frames
  <2>23. FreeIn(k) = FreeIn(h) \cup (i + h[i].size .. i + h[i].size + n - 1)
    BY <1>4, <1>5, <2>9, <2>11, <2>20, <2>21, <2>22, Zenon
  <2>. QED  BY <2>17, <2>20, <2>23, Zenon
<1>. QED  BY <1>6, <1>7
=============================================================================
