--------------------------- MODULE ProcessProofs ----------------------------
(***************************************************************************)
(* The descriptor tables are sound and implement FdTable, for any number   *)
(* of processes, threads, files and calls and any size of the tables.      *)
(*                                                                         *)
(* The argument looks at the files that descriptors and threads refer to.  *)
(* Whatever vectors and counters do, a step either exchanges the file of   *)
(* one descriptor with the one in a thread's hand, or gives a hand a       *)
(* reference or takes it away, or copies or empties a whole table.  Each   *)
(* of these keeps the reference counts exact and is a step of FdTable.     *)
(***************************************************************************)
EXTENDS FdMan, FiniteSetTheorems, WellFoundedInduction, TLAPS

----------------------------------------------------------------------------
(* Least and greatest elements *)

\* The order of the natural numbers as a relation.
LEMMA Below ==
  ASSUME NEW x \in Nat, NEW y \in Nat
  PROVE  <<y, x>> \in OpToRel(<, Nat) <=> y < x
BY Zenon DEF OpToRel

\* The smallest descriptor of a set (the searches of the insertions).
LEMMA MinIs ==
  ASSUME NEW S, S \subseteq Nat, S # {}
  PROVE  Min(S) \in S /\ \A y \in S : Min(S) <= y
<1>1. PICK x \in S : \A y \in S : ~(<<y, x>> \in OpToRel(<, Nat))
  BY NatLessThanWellFounded, WFMin, Zenon
<1>2. \A y \in S : ~(y < x)
  BY <1>1, Below, Zenon
<1>3. \A y \in S : x <= y
  BY <1>2
<1>. QED  BY <1>3, Zenon DEF Min

\* The largest descriptor of a set (kproc_free_unused_fd_memory).
LEMMA MaxIs ==
  ASSUME NEW n \in Nat, NEW S, S \subseteq 0..n - 1, S # {}
  PROVE  Max(S) \in S /\ \A y \in S : y <= Max(S)
<1>. DEFINE Bounds == {b \in Nat : \A y \in S : y <= b}
<1>1. n \in Bounds /\ S \subseteq Nat
  OBVIOUS
<1>2. Min(Bounds) \in Bounds /\ \A b \in Bounds : Min(Bounds) <= b
  BY <1>1, MinIs, Zenon
<1>3. PICK x \in Nat : x = Min(Bounds)
  BY <1>2, Zenon
<1>4. \A y \in S : y <= x
  BY <1>2, <1>3
<1>5. x \in S
  <2>. SUFFICES ASSUME x \notin S PROVE FALSE
    OBVIOUS
  <2>1. \A y \in S : y < x
    BY <1>1, <1>4
  <2>2. x - 1 \in Nat
    <3>1. PICK y \in S : y \in Nat /\ y < x
      BY <1>1, <2>1, Zenon
    <3>. QED  BY <3>1
  <2>3. \A y \in S : y <= x - 1
    BY <1>1, <2>1
  <2>4. x - 1 \in Bounds
    BY <2>2, <2>3
  <2>. QED  BY <1>2, <1>3, <2>4
<1>. QED  BY <1>1, <1>4, <1>5, Zenon DEF Max

\* There are n numbers below n.
LEMMA FirstNumbers ==
  ASSUME NEW n \in Nat
  PROVE  IsFiniteSet(0..n - 1) /\ Cardinality(0..n - 1) = n
<1>1. PICK b \in Int : b = n - 1
  OBVIOUS
<1>2. 0 \in Int
  OBVIOUS
<1>3. IsFiniteSet(0..b) /\ Cardinality(0..b) = IF 0 > b THEN 0 ELSE b - 0 + 1
  BY <1>2, FS_Interval
<1>4. (IF 0 > b THEN 0 ELSE b - 0 + 1) = n
  BY <1>1
<1>. QED  BY <1>1, <1>3, <1>4

----------------------------------------------------------------------------
(* Tables *)

\* The special descriptors are the negative ones.
LEMMA FdFacts ==
  /\ fdm_max \in Nat /\ fdm_max > 0
  /\ Special \subseteq Fds /\ 0..fdm_max - 1 \subseteq Fds
  /\ \A fd \in Fds : fd \in Int /\ fd < fdm_max
  /\ \A fd \in Fds : fd \in Special <=> fd < 0
  /\ \A fd \in Fds : fd \notin Special <=> fd \in 0..fdm_max - 1
BY FdAssumption DEF Fds, Special, KFD_ROOT, KFD_CWD

\* There are finitely many descriptors.
LEMMA FdsFinite == IsFiniteSet(Fds)
<1>1. 0 \in Int /\ fdm_max - 1 \in Int
  BY FdFacts
<1>2. IsFiniteSet(0..fdm_max - 1)
  BY <1>1, FS_Interval
<1>3. IsFiniteSet({KFD_ROOT}) /\ IsFiniteSet({KFD_CWD})
  BY FS_Singleton
<1>4. IsFiniteSet({KFD_ROOT} \cup {KFD_CWD})
  BY <1>3, FS_Union, Zenon
<1>5. Fds = ({KFD_ROOT} \cup {KFD_CWD}) \cup 0..fdm_max - 1
  BY DEF Fds, Special
<1>. QED  BY <1>2, <1>4, <1>5, FS_Union, Zenon

\* Entries: an open one has a file.
LEMMA SlotFacts ==
  /\ NoSlot \in Slot /\ ~NoSlot.open /\ NoSlot.data = NoFile
  /\ \A s \in Slot : s.open \in BOOLEAN /\ s.data \in Files \cup {NoFile}
  /\ \A s \in Slot : s.open => s.data \in Files /\ s.data # NoFile
BY FdAssumption DEF Slot, NoSlot

\* What a table consists of,
LEMMA ManFacts ==
  ASSUME NEW m \in Man
  PROVE  /\ m = [fdm_cnt |-> m.fdm_cnt, fdm_fre |-> m.fdm_fre, fdm_fda |-> m.fdm_fda,
                 fdm_fdv |-> m.fdm_fdv, special |-> m.special]
         /\ m.fdm_cnt \in Nat /\ m.fdm_fre \in 0..fdm_max /\ m.fdm_fda \in 0..fdm_max
         /\ m.fdm_fda \in Nat /\ m.fdm_fda <= fdm_max
         /\ m.fdm_fdv \in [0..m.fdm_fda - 1 -> Slot]
         /\ m.special \in [Special -> Slot]
<1>1. m \in [fdm_cnt : Nat, fdm_fre : 0..fdm_max, fdm_fda : 0..fdm_max,
             fdm_fdv : UNION {[0..n - 1 -> Slot] : n \in 0..fdm_max}, special : [Special -> Slot]]
      /\ DOMAIN m.fdm_fdv = 0..m.fdm_fda - 1
  BY DEF Man
<1>2. PICK n \in 0..fdm_max : m.fdm_fdv \in [0..n - 1 -> Slot]
  BY <1>1
<1>3. m.fdm_fdv \in [0..m.fdm_fda - 1 -> Slot]
  BY <1>1, <1>2
<1>. QED  BY <1>1, <1>3, FdFacts

\* and what makes one.
LEMMA ManIntro ==
  ASSUME NEW c \in Nat, NEW r \in 0..fdm_max, NEW a \in 0..fdm_max,
         NEW v \in [0..a - 1 -> Slot], NEW s \in [Special -> Slot]
  PROVE  [fdm_cnt |-> c, fdm_fre |-> r, fdm_fda |-> a, fdm_fdv |-> v, special |-> s] \in Man
<1>1. v \in UNION {[0..n - 1 -> Slot] : n \in 0..fdm_max}
  OBVIOUS
<1>. QED  BY <1>1 DEF Man

\* A grown or shrunk vector keeps the slots it still has; the new ones are free.
LEMMA ResizedFacts ==
  ASSUME NEW m \in Man, NEW n \in 0..fdm_max
  PROVE  /\ Resized(m, n) \in Man
         /\ Resized(m, n).fdm_cnt = m.fdm_cnt /\ Resized(m, n).fdm_fre = m.fdm_fre
         /\ Resized(m, n).fdm_fda = n /\ Resized(m, n).special = m.special
         /\ \A i \in 0..n - 1 : Resized(m, n).fdm_fdv[i] =
                                  IF i < m.fdm_fda THEN m.fdm_fdv[i] ELSE NoSlot
<1>. DEFINE v == [i \in 0..n - 1 |-> IF i < m.fdm_fda THEN m.fdm_fdv[i] ELSE NoSlot]
<1>1. v \in [0..n - 1 -> Slot]
  BY ManFacts, SlotFacts
<1>. HIDE DEF v
<1>2. Resized(m, n) = [fdm_cnt |-> m.fdm_cnt, fdm_fre |-> m.fdm_fre, fdm_fda |-> n,
                       fdm_fdv |-> v, special |-> m.special]
  <2>1. Resized(m, n) = [m EXCEPT !.fdm_fda = n, !.fdm_fdv = v]
    BY Zenon DEF Resized, v
  <2>2. PICK c, r, a, w, s : /\ m = [fdm_cnt |-> c, fdm_fre |-> r, fdm_fda |-> a,
                                     fdm_fdv |-> w, special |-> s]
    BY ManFacts
  <2>. QED  BY <2>1, <2>2, Zenon
<1>3. Resized(m, n) \in Man
  BY <1>1, <1>2, ManFacts, ManIntro
<1>4. \A i \in 0..n - 1 : v[i] = IF i < m.fdm_fda THEN m.fdm_fdv[i] ELSE NoSlot
  BY DEF v
<1>. QED  BY <1>2, <1>3, <1>4

\* A counter changed by k.
LEMMA CountedFacts ==
  ASSUME NEW m \in Man, NEW k \in Int, m.fdm_cnt + k >= 0
  PROVE  /\ Counted(m, k) \in Man
         /\ Counted(m, k).fdm_cnt = m.fdm_cnt + k /\ Counted(m, k).fdm_fre = m.fdm_fre
         /\ Counted(m, k).fdm_fda = m.fdm_fda
         /\ Counted(m, k).fdm_fdv = m.fdm_fdv /\ Counted(m, k).special = m.special
<1>1. Counted(m, k) = [fdm_cnt |-> m.fdm_cnt + k, fdm_fre |-> m.fdm_fre,
                       fdm_fda |-> m.fdm_fda, fdm_fdv |-> m.fdm_fdv, special |-> m.special]
  BY ManFacts DEF Counted
<1>2. m.fdm_cnt + k \in Nat
  BY ManFacts
<1>. QED  BY <1>1, <1>2, ManFacts, ManIntro

\* The hint of the search for a free slot.
LEMMA HintFacts ==
  ASSUME NEW m \in Man, NEW r \in 0..fdm_max
  PROVE  /\ [m EXCEPT !.fdm_fre = r] \in Man
         /\ [m EXCEPT !.fdm_fre = r].fdm_cnt = m.fdm_cnt
         /\ [m EXCEPT !.fdm_fre = r].fdm_fda = m.fdm_fda
         /\ [m EXCEPT !.fdm_fre = r].fdm_fdv = m.fdm_fdv
         /\ [m EXCEPT !.fdm_fre = r].special = m.special
<1>1. [m EXCEPT !.fdm_fre = r] =
         [fdm_cnt |-> m.fdm_cnt, fdm_fre |-> r, fdm_fda |-> m.fdm_fda,
          fdm_fdv |-> m.fdm_fdv, special |-> m.special]
  BY ManFacts
<1>. QED  BY <1>1, ManFacts, ManIntro

\* One slot is overwritten.
LEMMA WithSlotFacts ==
  ASSUME NEW m \in Man, NEW fd \in Fds, HasSlot(m, fd), NEW s \in Slot
  PROVE  /\ WithSlot(m, fd, s) \in Man
         /\ WithSlot(m, fd, s).fdm_cnt = m.fdm_cnt /\ WithSlot(m, fd, s).fdm_fre = m.fdm_fre
         /\ WithSlot(m, fd, s).fdm_fda = m.fdm_fda
         /\ \A i \in 0..m.fdm_fda - 1 :
               WithSlot(m, fd, s).fdm_fdv[i] = IF i = fd THEN s ELSE m.fdm_fdv[i]
         /\ \A i \in Special :
               WithSlot(m, fd, s).special[i] = IF i = fd THEN s ELSE m.special[i]
<1>1. CASE fd < 0
  <2>1. WithSlot(m, fd, s) =
           [fdm_cnt |-> m.fdm_cnt, fdm_fre |-> m.fdm_fre, fdm_fda |-> m.fdm_fda,
            fdm_fdv |-> m.fdm_fdv, special |-> [m.special EXCEPT ![fd] = s]]
    BY <1>1, ManFacts DEF WithSlot
  <2>2. fd \in Special /\ [m.special EXCEPT ![fd] = s] \in [Special -> Slot]
    BY <1>1, ManFacts, FdFacts
  <2>3. WithSlot(m, fd, s) \in Man
    BY <2>1, <2>2, ManFacts, ManIntro
  <2>4. \A i \in 0..m.fdm_fda - 1 : i # fd
    BY <1>1, ManFacts
  <2>5. \A i \in Special : [m.special EXCEPT ![fd] = s][i] = IF i = fd THEN s ELSE m.special[i]
    BY <2>2, ManFacts
  <2>. QED  BY <2>1, <2>3, <2>4, <2>5
<1>2. CASE ~(fd < 0)
  <2>1. WithSlot(m, fd, s) =
           [fdm_cnt |-> m.fdm_cnt, fdm_fre |-> m.fdm_fre, fdm_fda |-> m.fdm_fda,
            fdm_fdv |-> [m.fdm_fdv EXCEPT ![fd] = s], special |-> m.special]
    <3>1. WithSlot(m, fd, s) = [m EXCEPT !.fdm_fdv[fd] = s]
      BY <1>2 DEF WithSlot
    <3>. QED  BY <3>1, ManFacts
  <2>2. /\ fd \notin Special /\ fd \in 0..m.fdm_fda - 1
        /\ [m.fdm_fdv EXCEPT ![fd] = s] \in [0..m.fdm_fda - 1 -> Slot]
    BY <1>2, ManFacts, FdFacts DEF HasSlot
  <2>3. WithSlot(m, fd, s) \in Man
    <3>1. PICK v \in [0..m.fdm_fda - 1 -> Slot] : v = [m.fdm_fdv EXCEPT ![fd] = s]
      BY <2>2, Zenon
    <3>2. m.fdm_cnt \in Nat /\ m.fdm_fre \in 0..fdm_max /\ m.fdm_fda \in 0..fdm_max
          /\ m.special \in [Special -> Slot]
      BY ManFacts
    <3>3. [fdm_cnt |-> m.fdm_cnt, fdm_fre |-> m.fdm_fre, fdm_fda |-> m.fdm_fda,
           fdm_fdv |-> v, special |-> m.special] \in Man
      BY <3>2, ManIntro
    <3>. QED  BY <2>1, <3>1, <3>3
  <2>4. \A i \in 0..m.fdm_fda - 1 :
           [m.fdm_fdv EXCEPT ![fd] = s][i] = IF i = fd THEN s ELSE m.fdm_fdv[i]
    BY <2>2, ManFacts
  <2>. QED  BY <2>1, <2>2, <2>3, <2>4
<1>. QED  BY <1>1, <1>2

\* Which file a descriptor refers to: the open slots decide.
FileOf(s) == IF s.open THEN s.data ELSE NoFile

\* FileAt, by the kind of the descriptor.
LEMMA FileAtFacts ==
  ASSUME NEW m \in Man, NEW fd \in Fds
  PROVE  /\ fd \in Special => FileAt(m, fd) = FileOf(m.special[fd])
         /\ fd \in 0..m.fdm_fda - 1 => FileAt(m, fd) = FileOf(m.fdm_fdv[fd])
         /\ fd \notin Special /\ fd \notin 0..m.fdm_fda - 1 => FileAt(m, fd) = NoFile
         /\ HasSlot(m, fd) <=> fd \in Special \/ fd \in 0..m.fdm_fda - 1
         /\ HasSlot(m, fd) => At(m, fd) \in Slot /\ FileAt(m, fd) = FileOf(At(m, fd))
         /\ FileAt(m, fd) \in Files \cup {NoFile}
<1>1. m.fdm_fda \in Nat /\ m.fdm_fda <= fdm_max /\ fd \in Int
  BY ManFacts, FdFacts
<1>2. HasSlot(m, fd) <=> fd \in Special \/ fd \in 0..m.fdm_fda - 1
  BY <1>1 DEF HasSlot
<1>3. CASE fd \in Special
  <2>1. fd < 0 /\ ~(fd \in 0..m.fdm_fda - 1)
    BY <1>1, <1>3, FdFacts
  <2>2. At(m, fd) = m.special[fd] /\ m.special[fd] \in Slot
    BY <1>3, <2>1, ManFacts DEF At
  <2>. QED  BY <1>2, <1>3, <2>1, <2>2, SlotFacts DEF FileAt, FileOf
<1>4. CASE fd \in 0..m.fdm_fda - 1
  <2>1. ~(fd < 0) /\ fd \notin Special
    BY <1>1, <1>4, FdFacts
  <2>2. At(m, fd) = m.fdm_fdv[fd] /\ m.fdm_fdv[fd] \in Slot
    BY <1>4, <2>1, ManFacts DEF At
  <2>. QED  BY <1>2, <1>4, <2>1, <2>2, SlotFacts DEF FileAt, FileOf
<1>5. CASE fd \notin Special /\ fd \notin 0..m.fdm_fda - 1
  BY <1>2, <1>5 DEF FileAt
<1>. QED  BY <1>3, <1>4, <1>5

\* A step inside one table, seen through its files: at most descriptor fd changes.
Sets(m, n, fd, f) ==
  /\ FileAt(n, fd) = f
  /\ \A g \in Fds : g # fd => FileAt(n, g) = FileAt(m, g)

SameFiles(m, n) == \A g \in Fds : FileAt(n, g) = FileAt(m, g)

\* Overwriting a slot sets one descriptor.
LEMMA WithSlotSets ==
  ASSUME NEW m \in Man, NEW fd \in Fds, HasSlot(m, fd), NEW s \in Slot
  PROVE  Sets(m, WithSlot(m, fd, s), fd, FileOf(s))
<1>1. PICK n \in Man : n = WithSlot(m, fd, s)
  BY WithSlotFacts
<1>2. /\ n.fdm_fda = m.fdm_fda
      /\ \A i \in 0..m.fdm_fda - 1 : n.fdm_fdv[i] = IF i = fd THEN s ELSE m.fdm_fdv[i]
      /\ \A i \in Special : n.special[i] = IF i = fd THEN s ELSE m.special[i]
  BY <1>1, WithSlotFacts
<1>3. fd \in Special \/ fd \in 0..m.fdm_fda - 1
  BY FileAtFacts
<1>4. FileAt(n, fd) = FileOf(s)
  BY <1>2, <1>3, FileAtFacts
<1>5. ASSUME NEW g \in Fds, g # fd PROVE FileAt(n, g) = FileAt(m, g)
  BY <1>2, <1>5, FileAtFacts
<1>. QED  BY <1>1, <1>4, <1>5 DEF Sets

\* Two tables with the same slots name the same files,
LEMMA SameSlots ==
  ASSUME NEW m \in Man, NEW n \in Man, n.fdm_fda = m.fdm_fda, n.fdm_fdv = m.fdm_fdv,
         n.special = m.special
  PROVE  SameFiles(m, n)
<1>. SUFFICES ASSUME NEW g \in Fds PROVE FileAt(n, g) = FileAt(m, g)
  BY DEF SameFiles
<1>. QED  BY FileAtFacts

\* and so does a table whose vector loses or gains only slots that are not open.
LEMMA ResizedSame ==
  ASSUME NEW m \in Man, NEW n \in 0..fdm_max, \A i \in OpenFds(m) : i < n
  PROVE  SameFiles(m, Resized(m, n))
<1>1. PICK w \in Man : w = Resized(m, n)
  BY ResizedFacts
<1>2. /\ w.fdm_fda = n /\ w.special = m.special
      /\ \A i \in 0..n - 1 : w.fdm_fdv[i] = IF i < m.fdm_fda THEN m.fdm_fdv[i] ELSE NoSlot
  BY <1>1, ResizedFacts
<1>3. m.fdm_fda \in Nat /\ n \in Nat
  BY ManFacts, FdFacts
<1>4. ASSUME NEW g \in Fds PROVE FileAt(w, g) = FileAt(m, g)
  <2>1. g \in Int
    BY FdFacts
  <2>2. CASE g \in Special
    BY <1>2, <2>2, FileAtFacts
  <2>3. CASE g \notin Special /\ g \in 0..n - 1
    <3>1. FileAt(w, g) = FileOf(w.fdm_fdv[g])
      BY <1>2, <2>3, FileAtFacts
    <3>2. CASE g < m.fdm_fda
      <4>1. g \in 0..m.fdm_fda - 1 /\ w.fdm_fdv[g] = m.fdm_fdv[g]
        BY <1>2, <1>3, <2>1, <2>3, <3>2
      <4>. QED  BY <3>1, <4>1, FileAtFacts
    <3>3. CASE ~(g < m.fdm_fda)
      <4>1. g \notin 0..m.fdm_fda - 1 /\ w.fdm_fdv[g] = NoSlot
        BY <1>2, <1>3, <2>1, <2>3, <3>3
      <4>. QED  BY <2>3, <3>1, <4>1, FileAtFacts, SlotFacts DEF FileOf
    <3>. QED  BY <3>2, <3>3
  <2>4. CASE g \notin Special /\ g \notin 0..n - 1
    <3>1. FileAt(w, g) = NoFile
      BY <1>2, <2>4, FileAtFacts
    <3>2. CASE g \in 0..m.fdm_fda - 1
      <4>1. ~m.fdm_fdv[g].open
        BY <1>3, <2>1, <2>4, <3>2 DEF OpenFds
      <4>. QED  BY <3>1, <3>2, <4>1, FileAtFacts DEF FileOf
    <3>3. CASE g \notin 0..m.fdm_fda - 1
      BY <2>4, <3>1, <3>3, FileAtFacts
    <3>. QED  BY <3>2, <3>3
  <2>. QED  BY <2>2, <2>3, <2>4
<1>. QED  BY <1>1, <1>4 DEF SameFiles

----------------------------------------------------------------------------
(* The counter of a table *)

\* The slots that are not open are empty, and the counter counts the open ones.
Clean(m) == \A i \in 0..m.fdm_fda - 1 : m.fdm_fdv[i].open \/ m.fdm_fdv[i].data = NoFile
Counts(m) == m.fdm_cnt = Cardinality(OpenFds(m)) /\ Clean(m)

\* There is a vector exactly while something is counted (kfdman_initcopy asserts it).
Fits(m) == m.fdm_cnt = 0 <=> m.fdm_fda = 0

\* The open slots are the descriptors that refer to a file.
LEMMA OpenFacts ==
  ASSUME NEW m \in Man
  PROVE  /\ OpenFds(m) = {i \in 0..fdm_max - 1 : FileAt(m, i) # NoFile}
         /\ OpenFds(m) \subseteq 0..m.fdm_fda - 1
         /\ IsFiniteSet(OpenFds(m)) /\ Cardinality(OpenFds(m)) \in Nat
         /\ Cardinality(OpenFds(m)) <= m.fdm_fda
         /\ Cardinality(OpenFds(m)) = m.fdm_fda => OpenFds(m) = 0..m.fdm_fda - 1
         /\ Cardinality(OpenFds(m)) = 0 <=> OpenFds(m) = {}
<1>1. m.fdm_fda \in Nat /\ m.fdm_fda <= fdm_max /\ fdm_max \in Nat
  BY ManFacts, FdFacts
<1>2. ASSUME NEW i \in 0..fdm_max - 1
      PROVE  i \in OpenFds(m) <=> FileAt(m, i) # NoFile
  <2>1. i \in Fds /\ i \notin Special
    BY <1>1, FdFacts
  <2>2. CASE i \in 0..m.fdm_fda - 1
    <3>1. m.fdm_fdv[i] \in Slot /\ FileAt(m, i) = FileOf(m.fdm_fdv[i])
      BY <2>1, <2>2, FileAtFacts, ManFacts
    <3>. QED  BY <2>2, <3>1, SlotFacts DEF OpenFds, FileOf
  <2>3. CASE i \notin 0..m.fdm_fda - 1
    BY <2>1, <2>3, FileAtFacts DEF OpenFds
  <2>. QED  BY <2>2, <2>3
<1>3. OpenFds(m) \subseteq 0..m.fdm_fda - 1
  BY DEF OpenFds
<1>4. 0..m.fdm_fda - 1 \subseteq 0..fdm_max - 1
  BY <1>1
<1>6. IsFiniteSet(0..m.fdm_fda - 1) /\ Cardinality(0..m.fdm_fda - 1) = m.fdm_fda
  BY <1>1, FirstNumbers
<1>7. /\ IsFiniteSet(OpenFds(m))
      /\ Cardinality(OpenFds(m)) <= m.fdm_fda
      /\ Cardinality(OpenFds(m)) = m.fdm_fda => OpenFds(m) = 0..m.fdm_fda - 1
  BY <1>3, <1>6, FS_Subset, Zenon
<1>8. Cardinality(OpenFds(m)) \in Nat /\ (Cardinality(OpenFds(m)) = 0 <=> OpenFds(m) = {})
  BY <1>7, FS_CardinalityType, FS_EmptySet
<1>. QED  BY <1>2, <1>3, <1>4, <1>7, <1>8

\* A table with an exact counter passes the assertions, and a table that has a slot
\* to spare has one that the search finds.
LEMMA CountedTable ==
  ASSUME NEW m \in Man, Counts(m)
  PROVE  /\ m.fdm_cnt <= m.fdm_fda
         /\ TrimAsserts(m)
         /\ m.fdm_cnt < m.fdm_fda => FreeFrom(m, 0) # {}
<1>1. /\ m.fdm_fda \in Nat /\ m.fdm_fda <= fdm_max /\ m.fdm_cnt \in Nat
      /\ m.fdm_cnt = Cardinality(OpenFds(m))
  BY ManFacts, FdFacts DEF Counts
<1>2. TrimAsserts(m)
  <2>1. CASE OpenFds(m) = {}
    BY <1>1, <2>1, OpenFacts DEF TrimAsserts, NewAlloc
  <2>2. CASE OpenFds(m) # {}
    <3>1. Max(OpenFds(m)) \in OpenFds(m)
      BY <1>1, <2>2, MaxIs, OpenFacts
    <3>2. Max(OpenFds(m)) \in Nat
      BY <1>1, <3>1, OpenFacts
    <3>. QED  BY <1>1, <2>2, <3>2, OpenFacts DEF TrimAsserts, NewAlloc
  <2>. QED  BY <2>1, <2>2
<1>3. ASSUME m.fdm_cnt < m.fdm_fda, FreeFrom(m, 0) = {} PROVE FALSE
  <2>1. \A i \in 0..m.fdm_fda - 1 : m.fdm_fdv[i].open
    BY <1>3 DEF Counts, Clean, FreeFrom
  <2>2. OpenFds(m) = 0..m.fdm_fda - 1
    BY <2>1 DEF OpenFds
  <2>4. Cardinality(0..m.fdm_fda - 1) = m.fdm_fda
    BY <1>1, FirstNumbers
  <2>. QED  BY <1>1, <1>3, <2>2, <2>4
<1>. QED  BY <1>1, <1>2, <1>3, OpenFacts

\* An insertion into a slot that is not open, after the vector was made large enough.
LEMMA InsertFacts ==
  ASSUME NEW m \in Man, NEW w \in Man, SameFiles(m, w), w.fdm_cnt = m.fdm_cnt + 1,
         Clean(m) => Clean(w), NEW fd \in 0..w.fdm_fda - 1, FileAt(m, fd) = NoFile,
         NEW s \in Slot, s.open
  PROVE  /\ WithSlot(w, fd, s) \in Man /\ fd \in Fds
         /\ Sets(m, WithSlot(w, fd, s), fd, FileOf(s))
         /\ Counts(m) => Counts(WithSlot(w, fd, s)) /\ Fits(WithSlot(w, fd, s))
<1>1. /\ w.fdm_fda \in Nat /\ w.fdm_fda <= fdm_max /\ fdm_max \in Nat
      /\ m.fdm_cnt \in Nat /\ fd \in 0..fdm_max - 1 /\ fd \in Nat
  BY ManFacts, FdFacts
<1>2. fd \in Fds /\ HasSlot(w, fd)
  BY <1>1, FdFacts DEF HasSlot
<1>3. PICK n \in Man : n = WithSlot(w, fd, s)
  BY <1>2, WithSlotFacts
<1>4. /\ n.fdm_cnt = m.fdm_cnt + 1 /\ n.fdm_fda = w.fdm_fda
      /\ \A i \in 0..w.fdm_fda - 1 : n.fdm_fdv[i] = IF i = fd THEN s ELSE w.fdm_fdv[i]
  BY <1>2, <1>3, WithSlotFacts
<1>5. Sets(m, n, fd, FileOf(s))
  BY <1>2, <1>3, WithSlotSets DEF Sets, SameFiles
<1>6. ASSUME Counts(m) PROVE Counts(n) /\ Fits(n)
  <2>1. FileOf(s) # NoFile
    BY SlotFacts DEF FileOf
  <2>2. ASSUME NEW i \in 0..fdm_max - 1
        PROVE  FileAt(n, i) # NoFile <=> i = fd \/ FileAt(m, i) # NoFile
    <3>1. i \in Fds
      BY FdFacts
    <3>. QED  BY <1>5, <2>1, <3>1 DEF Sets
  <2>3. OpenFds(n) = OpenFds(m) \cup {fd} /\ fd \notin OpenFds(m)
    BY <1>1, <2>2, OpenFacts
  <2>4. Cardinality(OpenFds(n)) = Cardinality(OpenFds(m)) + 1
    <3>1. IsFiniteSet(OpenFds(m))
      BY OpenFacts
    <3>. QED  BY <2>3, <3>1, FS_AddElement, ZenonT(30)
  <2>5. Clean(n)
    BY <1>4, <1>6 DEF Clean, Counts
  <2>6. m.fdm_cnt + 1 # 0 /\ w.fdm_fda # 0
    BY <1>1
  <2>. QED  BY <1>4, <1>6, <2>4, <2>5, <2>6 DEF Counts, Fits
<1>. QED  BY <1>2, <1>3, <1>5, <1>6

\* Tables that name the same files have the same open slots.
LEMMA SameOpen ==
  ASSUME NEW m \in Man, NEW n \in Man, SameFiles(m, n)
  PROVE  OpenFds(n) = OpenFds(m)
<1>1. \A i \in 0..fdm_max - 1 : FileAt(n, i) = FileAt(m, i)
  BY FdFacts DEF SameFiles
<1>. QED  BY <1>1, OpenFacts, Zenon

\* An insertion into a slot that is in use, or into a special one.
LEMMA ReplaceFacts ==
  ASSUME NEW m \in Man, NEW fd \in Fds, HasSlot(m, fd), NEW s \in Slot, s.open
  PROVE  /\ WithSlot(m, fd, s) \in Man
         /\ Sets(m, WithSlot(m, fd, s), fd, FileOf(s))
         /\ fd \in Special \/ FileAt(m, fd) # NoFile =>
              (Counts(m) => Counts(WithSlot(m, fd, s)))
         /\ Fits(m) => Fits(WithSlot(m, fd, s))
<1>1. PICK n \in Man : n = WithSlot(m, fd, s)
  BY WithSlotFacts
<1>2. /\ n.fdm_cnt = m.fdm_cnt /\ n.fdm_fda = m.fdm_fda
      /\ \A i \in 0..m.fdm_fda - 1 : n.fdm_fdv[i] = IF i = fd THEN s ELSE m.fdm_fdv[i]
  BY <1>1, WithSlotFacts
<1>3. Sets(m, n, fd, FileOf(s))
  BY <1>1, WithSlotSets
<1>4. ASSUME fd \in Special \/ FileAt(m, fd) # NoFile, Counts(m) PROVE Counts(n)
  <2>1. FileOf(s) # NoFile
    BY SlotFacts DEF FileOf
  <2>2. ASSUME NEW i \in 0..fdm_max - 1
        PROVE  FileAt(n, i) # NoFile <=> FileAt(m, i) # NoFile
    <3>1. i \in Fds /\ i \notin Special
      BY FdFacts
    <3>. QED  BY <1>3, <1>4, <2>1, <3>1 DEF Sets
  <2>3. OpenFds(n) = OpenFds(m)
    BY <2>2, OpenFacts, Zenon
  <2>4. Clean(n)
    BY <1>2, <1>4 DEF Clean, Counts
  <2>. QED  BY <1>2, <1>4, <2>3, <2>4 DEF Counts
<1>5. Fits(m) => Fits(n)
  BY <1>2 DEF Fits
<1>. QED  BY <1>1, <1>3, <1>4, <1>5

\* A close; one of the regular descriptors keeps the counter exact.
LEMMA RemoveFacts ==
  ASSUME NEW m \in Man, NEW fd \in Fds, HasSlot(m, fd), NEW s \in Slot, ~s.open, m.fdm_cnt > 0
  PROVE  /\ Counted(WithSlot(m, fd, s), -1) \in Man
         /\ Counted(WithSlot(m, fd, s), -1).fdm_fda = m.fdm_fda
         /\ Sets(m, Counted(WithSlot(m, fd, s), -1), fd, NoFile)
         /\ fd \notin Special /\ s.data = NoFile /\ FileAt(m, fd) # NoFile =>
              (Counts(m) => Counts(Counted(WithSlot(m, fd, s), -1)))
<1>1. PICK w \in Man : w = WithSlot(m, fd, s)
  BY WithSlotFacts
<1>2. /\ w.fdm_cnt = m.fdm_cnt /\ w.fdm_fda = m.fdm_fda
      /\ \A i \in 0..m.fdm_fda - 1 : w.fdm_fdv[i] = IF i = fd THEN s ELSE m.fdm_fdv[i]
  BY <1>1, WithSlotFacts
<1>3. -1 \in Int /\ w.fdm_cnt + (-1) >= 0 /\ m.fdm_cnt \in Nat
  BY <1>2, ManFacts
<1>4. PICK n \in Man : n = Counted(w, -1)
  BY <1>3, CountedFacts
<1>5. /\ n.fdm_cnt = w.fdm_cnt + (-1) /\ n.fdm_fda = w.fdm_fda
      /\ n.fdm_fdv = w.fdm_fdv /\ n.special = w.special
  BY <1>3, <1>4, CountedFacts
<1>6. Sets(m, n, fd, NoFile)
  <2>1. Sets(m, w, fd, NoFile)
    BY <1>1, WithSlotSets DEF FileOf
  <2>2. SameFiles(w, n)
    BY <1>5, SameSlots
  <2>. QED  BY <2>1, <2>2 DEF Sets, SameFiles
<1>7. ASSUME fd \notin Special, s.data = NoFile, FileAt(m, fd) # NoFile, Counts(m)
      PROVE  Counts(n)
  <2>1. fd \in 0..fdm_max - 1
    BY <1>7, FdFacts
  <2>2. ASSUME NEW i \in 0..fdm_max - 1
        PROVE  FileAt(n, i) # NoFile <=> i # fd /\ FileAt(m, i) # NoFile
    <3>1. i \in Fds
      BY FdFacts
    <3>. QED  BY <1>6, <3>1 DEF Sets
  <2>3. OpenFds(n) = OpenFds(m) \ {fd} /\ fd \in OpenFds(m)
    BY <1>7, <2>1, <2>2, OpenFacts
  <2>4. Cardinality(OpenFds(n)) = Cardinality(OpenFds(m)) - 1
    <3>1. IsFiniteSet(OpenFds(m))
      BY OpenFacts
    <3>. QED  BY <2>3, <3>1, FS_RemoveElement, Zenon
  <2>5. Clean(n)
    BY <1>2, <1>5, <1>7 DEF Clean, Counts
  <2>6. n.fdm_cnt = Cardinality(OpenFds(m)) - 1
    BY <1>2, <1>3, <1>5, <1>7 DEF Counts
  <2>. QED  BY <2>4, <2>5, <2>6 DEF Counts
<1>. QED  BY <1>1, <1>2, <1>4, <1>5, <1>6, <1>7

\* kproc_free_unused_fd_memory drops only slots behind the last open one.
LEMMA TrimFacts ==
  ASSUME NEW m \in Man, NEW mem
  PROVE  /\ Trimmed(m, mem) \in Man
         /\ SameFiles(m, Trimmed(m, mem))
         /\ Trimmed(m, mem).fdm_cnt = m.fdm_cnt
         /\ Counts(m) => Counts(Trimmed(m, mem)) /\ Fits(Trimmed(m, mem))
<1>1. m.fdm_fda \in Nat /\ m.fdm_fda <= fdm_max /\ fdm_max \in Nat /\ m.fdm_cnt \in Nat
  BY ManFacts, FdFacts
<1>2. PICK a \in 0..fdm_max : /\ a = NewAlloc(m) /\ a <= m.fdm_fda
                              /\ \A i \in OpenFds(m) : i < a
                              /\ a = 0 <=> OpenFds(m) = {}
  <2>1. CASE OpenFds(m) = {}
    BY <1>1, <2>1 DEF NewAlloc
  <2>2. CASE OpenFds(m) # {}
    <3>1. Max(OpenFds(m)) \in OpenFds(m) /\ \A i \in OpenFds(m) : i <= Max(OpenFds(m))
      BY <1>1, <2>2, MaxIs, OpenFacts
    <3>2. PICK x \in 0..m.fdm_fda - 1 : x = Max(OpenFds(m))
      BY <3>1, OpenFacts
    <3>3. NewAlloc(m) = x + 1 /\ \A i \in OpenFds(m) : i <= x
      BY <2>2, <3>1, <3>2 DEF NewAlloc
    <3>4. \A i \in OpenFds(m) : i < x + 1
      BY <1>1, <3>3, OpenFacts
    <3>. QED  BY <1>1, <2>2, <3>3, <3>4
  <2>. QED  BY <2>1, <2>2
<1>3. PICK n \in Man : n = Resized(m, a)
  BY ResizedFacts
<1>4. /\ n.fdm_cnt = m.fdm_cnt /\ n.fdm_fda = a
      /\ \A i \in 0..a - 1 : n.fdm_fdv[i] = IF i < m.fdm_fda THEN m.fdm_fdv[i] ELSE NoSlot
  BY <1>3, ResizedFacts
<1>5. SameFiles(m, n)
  BY <1>2, <1>3, ResizedSame
<1>6. ASSUME Counts(m) PROVE Counts(n) /\ Fits(n)
  <2>1. OpenFds(n) = OpenFds(m)
    BY <1>5, SameOpen
  <2>2. Clean(n)
    <3>. SUFFICES ASSUME NEW i \in 0..a - 1
                  PROVE  n.fdm_fdv[i].open \/ n.fdm_fdv[i].data = NoFile
      BY <1>4 DEF Clean
    <3>1. i \in 0..m.fdm_fda - 1 /\ n.fdm_fdv[i] = m.fdm_fdv[i]
      BY <1>1, <1>2, <1>4
    <3>. QED  BY <1>6, <3>1 DEF Counts, Clean
  <2>. QED  BY <1>2, <1>4, <1>6, <2>1, <2>2, OpenFacts DEF Counts, Fits
<1>7. ASSUME Counts(m), NewAlloc(m) # 0 PROVE Fits(m)
  BY <1>1, <1>2, <1>7, OpenFacts DEF Counts, Fits
<1>8. SameFiles(m, m)
  BY DEF SameFiles
<1>9. CASE mem \/ NewAlloc(m) = 0
  BY <1>2, <1>3, <1>4, <1>5, <1>6, <1>9 DEF Trimmed
<1>10. CASE ~(mem \/ NewAlloc(m) = 0)
  BY <1>7, <1>8, <1>10 DEF Trimmed
<1>. QED  BY <1>9, <1>10

----------------------------------------------------------------------------
(* The inductive invariant *)

\* What a thread is about to do, with the descriptors kproc_closeall still has to
\* close; the hint of kproc_insfdh_inherited is not a special descriptor.
Pc == {c \in [op : Ops, fd : Fds \cup {fdm_max}, reg : Seq(Nat), spec : Seq(Special),
              n : Nat, trim : BOOLEAN] :
         c.op = "insh" => c.fd >= 0}

\* A thread between two calls, or about to take the lock in kproc_closeall, holds
\* nothing; the table of a process that does not exist is empty.
FdInv ==
  /\ FdTypeOK
  /\ fdpc \in [FdThreads -> Pc]
  /\ \A t \in FdThreads : fdpc[t].op \in {"idle", "closing"} => ~hand[t].open
  /\ \A p \in FdProcs \ live : fdman[p] = NewMan
  /\ FdRefs

\* Neither kproc_closeall nor a close of a special descriptor is called.
NoCloses == fduse.calls \cap {"closeall", "closespecial"} = {}

\* Then every vector is counted, clean and there exactly while it is needed.
FdCounted ==
  NoCloses => /\ \A t \in FdThreads : fdpc[t].op \notin {"dropall", "closing"}
              /\ \A p \in FdProcs : Counts(fdman[p]) /\ Fits(fdman[p])

\* Without duplicates as well, a thread that inserts an entry has one.
FdSafe ==
  Sound => /\ fault = "none"
           /\ \A t \in FdThreads : fdpc[t].op \in {"ins", "insat", "insh"} => hand[t].open

IInv == FdInv /\ FdCounted /\ FdSafe

----------------------------------------------------------------------------
(* Counting references *)

One(b) == IF b THEN 1 ELSE 0

CellsIn(T, f) == {d \in FdProcs \X Fds : FileAt(T[d[1]], d[2]) = f}
HandsIn(H, f) == {t \in FdThreads : FileOf(H[t]) = f}

\* Two sets that differ at most in x.
LEMMA Toggle ==
  ASSUME NEW S, NEW R, NEW x, IsFiniteSet(S), \A y : y # x => (y \in R <=> y \in S)
  PROVE  /\ IsFiniteSet(R) /\ Cardinality(S) \in Nat /\ Cardinality(R) \in Nat
         /\ Cardinality(R) + One(x \in S) = Cardinality(S) + One(x \in R)
<1>1. Cardinality(S) \in Nat
  BY FS_CardinalityType
<1>2. CASE x \in R
  <2>1. R = S \cup {x}
    BY <1>2
  <2>2. IsFiniteSet(R) /\ Cardinality(R) = IF x \in S THEN Cardinality(S) ELSE Cardinality(S) + 1
    BY <2>1, FS_AddElement
  <2>. QED  BY <1>1, <1>2, <2>2 DEF One
<1>3. CASE x \notin R
  <2>1. R = S \ {x}
    BY <1>3
  <2>2. IsFiniteSet(R) /\ Cardinality(R) = IF x \in S THEN Cardinality(S) - 1 ELSE Cardinality(S)
    BY <2>1, FS_RemoveElement
  <2>3. Cardinality(R) \in Nat
    BY <2>2, FS_CardinalityType
  <2>. QED  BY <1>1, <1>3, <2>2, <2>3 DEF One
<1>. QED  BY <1>2, <1>3

\* The places a reference can be are finitely many.
LEMMA PlacesFinite ==
  ASSUME NEW T, NEW H, NEW f
  PROVE  /\ IsFiniteSet(CellsIn(T, f)) /\ Cardinality(CellsIn(T, f)) \in Nat
         /\ Cardinality(CellsIn(T, f)) = 0 <=> CellsIn(T, f) = {}
         /\ IsFiniteSet(HandsIn(H, f)) /\ Cardinality(HandsIn(H, f)) \in Nat
         /\ Cardinality(HandsIn(H, f)) = 0 <=> HandsIn(H, f) = {}
<1>1. IsFiniteSet(FdThreads) /\ IsFiniteSet(FdProcs)
  BY FdAssumption
<1>2. IsFiniteSet(FdProcs \X Fds)
  BY <1>1, FdsFinite, FS_Product
<1>3. CellsIn(T, f) \in SUBSET (FdProcs \X Fds)
  BY DEF CellsIn
<1>4. HandsIn(H, f) \in SUBSET FdThreads
  BY DEF HandsIn
<1>5. IsFiniteSet(CellsIn(T, f)) /\ IsFiniteSet(HandsIn(H, f))
  BY <1>1, <1>2, <1>3, <1>4, FS_Subset
<1>. QED  BY <1>5, FS_CardinalityType, FS_EmptySet

\* One descriptor of one table changes,
LEMMA CellCount ==
  ASSUME NEW T, NEW U, NEW p \in FdProcs, NEW fd \in Fds, NEW g, NEW f,
         Sets(T[p], U[p], fd, g), \A q \in FdProcs : q # p => U[q] = T[q]
  PROVE  Cardinality(CellsIn(U, f)) + One(FileAt(T[p], fd) = f) =
           Cardinality(CellsIn(T, f)) + One(g = f)
<1>3. PICK x : x = <<p, fd>>
  BY Zenon
<1>4. x \in FdProcs \X Fds /\ x[1] = p /\ x[2] = fd
  BY <1>3
<1>5. ASSUME NEW y, y # x PROVE y \in CellsIn(U, f) <=> y \in CellsIn(T, f)
  <2>1. CASE y \notin FdProcs \X Fds
    BY <2>1 DEF CellsIn
  <2>2. CASE y \in FdProcs \X Fds
    <3>1. PICK q \in FdProcs, e \in Fds : y = <<q, e>>
      BY <2>2
    <3>2. y[1] = q /\ y[2] = e /\ ~(q = p /\ e = fd)
      BY <1>3, <1>5, <3>1
    <3>3. FileAt(U[q], e) = FileAt(T[q], e)
      BY <3>2 DEF Sets
    <3>. QED  BY <2>2, <3>2, <3>3 DEF CellsIn
  <2>. QED  BY <2>1, <2>2
<1>6. Cardinality(CellsIn(U, f)) + One(x \in CellsIn(T, f)) =
        Cardinality(CellsIn(T, f)) + One(x \in CellsIn(U, f))
  <2>1. IsFiniteSet(CellsIn(T, f))
    BY PlacesFinite
  <2>. QED  BY <1>5, <2>1, Toggle
<1>7. (x \in CellsIn(T, f) <=> FileAt(T[p], fd) = f) /\ (x \in CellsIn(U, f) <=> g = f)
  BY <1>4 DEF CellsIn, Sets
<1>. QED  BY <1>6, <1>7 DEF One

\* or the entry of one thread.
LEMMA HandCount ==
  ASSUME NEW H, NEW U, NEW t \in FdThreads, NEW f, \A u \in FdThreads : u # t => U[u] = H[u]
  PROVE  Cardinality(HandsIn(U, f)) + One(FileOf(H[t]) = f) =
           Cardinality(HandsIn(H, f)) + One(FileOf(U[t]) = f)
<1>1. \A y : y # t => (y \in HandsIn(U, f) <=> y \in HandsIn(H, f))
  BY DEF HandsIn
<1>4. Cardinality(HandsIn(U, f)) + One(t \in HandsIn(H, f)) =
        Cardinality(HandsIn(H, f)) + One(t \in HandsIn(U, f))
  <2>1. IsFiniteSet(HandsIn(H, f))
    BY PlacesFinite
  <2>. QED  BY <1>1, <2>1, Toggle
<1>5. (t \in HandsIn(H, f) <=> FileOf(H[t]) = f) /\ (t \in HandsIn(U, f) <=> FileOf(U[t]) = f)
  BY DEF HandsIn
<1>. QED  BY <1>4, <1>5 DEF One

\* A table that was empty is filled (kfdman_initcopy; backwards: kfdman_quit).
LEMMA RowCount ==
  ASSUME NEW T \in [FdProcs -> Man], NEW U \in [FdProcs -> Man], NEW p \in FdProcs,
         \A q \in FdProcs : q # p => U[q] = T[q], NEW f,
         \A fd \in Fds : FileAt(T[p], fd) # f
  PROVE  /\ FdRefsIn(U[p], f) \in Nat
         /\ Cardinality(CellsIn(U, f)) = Cardinality(CellsIn(T, f)) + FdRefsIn(U[p], f)
<1>1. PICK D : D = {fd \in Fds : FileAt(U[p], fd) = f}
  BY Zenon
<1>2. PICK R : R = {d \in FdProcs \X Fds : d[1] = p /\ FileAt(U[p], d[2]) = f}
  BY Zenon
<1>3. IsFiniteSet(D)
  <2>1. D \in SUBSET Fds
    BY <1>1
  <2>. QED  BY <2>1, FdsFinite, FS_Subset
<1>4. IsFiniteSet(R) /\ Cardinality(R) = Cardinality(D)
  <2>1. PICK b : b = [fd \in D |-> <<p, fd>>]
    BY Zenon
  <2>2. b \in [D -> R]
    BY <1>1, <1>2, <2>1
  <2>3. \A x, y \in D : b[x] = b[y] => x = y
    BY <2>1
  <2>4. ASSUME NEW r \in R PROVE \E x \in D : b[x] = r
    <3>1. PICK q \in FdProcs, e \in Fds : r = <<q, e>>
      BY <1>2
    <3>2. q = p /\ FileAt(U[p], e) = f
      BY <1>2, <3>1
    <3>. QED  BY <1>1, <2>1, <3>1, <3>2
  <2>5. b \in Bijection(D, R)
    BY <2>2, <2>3, <2>4 DEF Bijection, Injection, Surjection, IsInjective
  <2>6. ExistsBijection(D, R)
    BY <2>5 DEF ExistsBijection
  <2>. QED  BY <1>3, <2>6, FS_Bijection
<1>5. CellsIn(U, f) = CellsIn(T, f) \cup R /\ CellsIn(T, f) \cap R = {}
  <2>1. ASSUME NEW q \in FdProcs, NEW e \in Fds
        PROVE  /\ <<q, e>> \in CellsIn(U, f) <=> <<q, e>> \in CellsIn(T, f) \/ <<q, e>> \in R
               /\ ~(<<q, e>> \in CellsIn(T, f) /\ <<q, e>> \in R)
    BY <1>2 DEF CellsIn
  <2>2. CellsIn(U, f) \subseteq FdProcs \X Fds /\ CellsIn(T, f) \subseteq FdProcs \X Fds
        /\ R \subseteq FdProcs \X Fds
    BY <1>2 DEF CellsIn
  <2>. QED  BY <2>1, <2>2
<1>6. IsFiniteSet(CellsIn(T, f)) /\ Cardinality(CellsIn(T, f)) \in Nat
  BY PlacesFinite
<1>7. Cardinality(CellsIn(U, f)) = Cardinality(CellsIn(T, f)) + Cardinality(R)
                                   - Cardinality(CellsIn(T, f) \cap R)
  BY <1>4, <1>5, <1>6, FS_Union
<1>8. Cardinality(CellsIn(T, f) \cap R) = 0 /\ Cardinality(D) \in Nat
  BY <1>3, <1>5, FS_EmptySet, FS_CardinalityType, Zenon
<1>9. FdRefsIn(U[p], f) = Cardinality(D)
  BY <1>1 DEF FdRefsIn
<1>. QED  BY <1>4, <1>6, <1>7, <1>8, <1>9

\* The counts of FdRefs, by table and by entry.
LEMMA RefsAs ==
  /\ FdRefs <=> \A f \in Files : frefs[f] = Cardinality(CellsIn(fdman, f))
                                            + Cardinality(HandsIn(hand, f))
  /\ FdRefs' <=> \A f \in Files : frefs'[f] = Cardinality(CellsIn(fdman', f))
                                              + Cardinality(HandsIn(hand', f))
BY DEF FdRefs, Cells, Hands, HandFile, FileOf, CellsIn, HandsIn

\* A file is counted exactly while a descriptor or a thread refers to it.
LEMMA CountedFiles ==
  ASSUME NEW T, NEW H, NEW f,
         NEW r, r = Cardinality(CellsIn(T, f)) + Cardinality(HandsIn(H, f))
  PROVE  r > 0 <=> \/ \E p \in FdProcs, fd \in Fds : FileAt(T[p], fd) = f
                   \/ \E t \in FdThreads : FileOf(H[t]) = f
<1>1. r > 0 <=> CellsIn(T, f) # {} \/ HandsIn(H, f) # {}
  BY PlacesFinite
<1>2. CellsIn(T, f) # {} <=> \E p \in FdProcs, fd \in Fds : FileAt(T[p], fd) = f
  <2>1. ASSUME NEW d \in CellsIn(T, f)
        PROVE  \E p \in FdProcs, fd \in Fds : FileAt(T[p], fd) = f
    BY DEF CellsIn
  <2>2. ASSUME NEW p \in FdProcs, NEW fd \in Fds, FileAt(T[p], fd) = f
        PROVE  <<p, fd>> \in CellsIn(T, f)
    BY <2>2 DEF CellsIn
  <2>. QED  BY <2>1, <2>2, Zenon
<1>3. HandsIn(H, f) # {} <=> \E t \in FdThreads : FileOf(H[t]) = f
  BY DEF HandsIn
<1>. QED  BY <1>1, <1>2, <1>3

----------------------------------------------------------------------------
(* The step of a thread: the table of its process becomes n, its entry s,    *)
(* and it goes on with c.                                                   *)

Inserting == {"ins", "insat", "insh"}

Moves(t, n, s, c) ==
  /\ ProcOf[t] \in live
  /\ fdman' = [fdman EXCEPT ![ProcOf[t]] = n]
  /\ hand' = [hand EXCEPT ![t] = s]
  /\ fdpc' = [fdpc EXCEPT ![t] = c]
  /\ fdleft' \in Nat
  /\ live' = live /\ fault' = fault /\ fduse' = fduse
  /\ c.op \in {"idle", "closing"} => ~s.open
  /\ NoCloses => Counts(n) /\ Fits(n) /\ c.op \notin {"dropall", "closing"}
  /\ Sound => (c.op \in Inserting => s.open)

\* At most descriptor fd changes, to g, and the references are moved with the files.
Step(t, n, s, c, fd, g) ==
  /\ Moves(t, n, s, c)
  /\ frefs' \in [Files -> 0..RefMax]
  /\ Sets(fdman[ProcOf[t]], n, fd, g)
  /\ \A f \in Files : frefs'[f] + One(FileAt(fdman[ProcOf[t]], fd) = f) + One(HandFile(t) = f) =
                        frefs[f] + One(g = f) + One(FileOf(s) = f)

\* The references stay accounted for,
LEMMA StepRefs ==
  ASSUME FdInv, NEW t \in FdThreads, NEW n \in Man, NEW s \in Slot, NEW c \in Pc,
         NEW fd \in Fds, NEW g, Step(t, n, s, c, fd, g)
  PROVE  FdRefs'
<1>1. /\ ProcOf[t] \in FdProcs /\ fdman \in [FdProcs -> Man] /\ hand \in [FdThreads -> Slot]
      /\ frefs \in [Files -> 0..RefMax] /\ RefMax \in Nat
  BY FdAssumption DEF FdInv, FdTypeOK
<1>2. SUFFICES ASSUME NEW f \in Files
               PROVE  frefs'[f] = Cardinality(CellsIn(fdman', f)) + Cardinality(HandsIn(hand', f))
  BY RefsAs
<1>3. frefs[f] = Cardinality(CellsIn(fdman, f)) + Cardinality(HandsIn(hand, f))
  BY RefsAs DEF FdInv
<1>4. Cardinality(CellsIn(fdman', f)) + One(FileAt(fdman[ProcOf[t]], fd) = f) =
        Cardinality(CellsIn(fdman, f)) + One(g = f)
  <2>1. PICK p \in FdProcs : p = ProcOf[t]
    BY <1>1
  <2>2. Sets(fdman[p], fdman'[p], fd, g) /\ \A q \in FdProcs : q # p => fdman'[q] = fdman[q]
    BY <1>1, <2>1 DEF Step, Moves
  <2>3. Cardinality(CellsIn(fdman', f)) + One(FileAt(fdman[p], fd) = f) =
          Cardinality(CellsIn(fdman, f)) + One(g = f)
    BY <2>2, CellCount
  <2>. QED  BY <2>1, <2>3
<1>5. Cardinality(HandsIn(hand', f)) + One(FileOf(hand[t]) = f) =
        Cardinality(HandsIn(hand, f)) + One(FileOf(s) = f)
  <2>1. hand'[t] = s /\ \A u \in FdThreads : u # t => hand'[u] = hand[u]
    BY <1>1 DEF Step, Moves
  <2>. QED  BY <1>1, <2>1, HandCount
<1>6. FileOf(hand[t]) = HandFile(t)
  BY DEF FileOf, HandFile
<1>7. frefs'[f] + One(FileAt(fdman[ProcOf[t]], fd) = f) + One(HandFile(t) = f) =
        frefs[f] + One(g = f) + One(FileOf(s) = f)
  BY DEF Step, Moves
<1>8. /\ Cardinality(CellsIn(fdman, f)) \in Nat /\ Cardinality(CellsIn(fdman', f)) \in Nat
      /\ Cardinality(HandsIn(hand, f)) \in Nat /\ Cardinality(HandsIn(hand', f)) \in Nat
  BY PlacesFinite, Zenon
<1>9. /\ frefs'[f] \in Int /\ frefs[f] \in Int
      /\ One(FileAt(fdman[ProcOf[t]], fd) = f) \in Int /\ One(HandFile(t) = f) \in Int
      /\ One(g = f) \in Int /\ One(FileOf(s) = f) \in Int
  BY <1>1 DEF One, Step, Moves
<1>. QED  BY <1>3, <1>4, <1>5, <1>6, <1>7, <1>8, <1>9

\* and so does the invariant.
LEMMA StepKeeps ==
  ASSUME IInv, NEW t \in FdThreads, NEW n \in Man, NEW s \in Slot, NEW c \in Pc,
         NEW fd \in Fds, NEW g, Step(t, n, s, c, fd, g)
  PROVE  IInv'
<1>1. /\ ProcOf[t] \in FdProcs /\ fdman \in [FdProcs -> Man] /\ hand \in [FdThreads -> Slot]
      /\ fdpc \in [FdThreads -> Pc]
  BY FdAssumption DEF IInv, FdInv, FdTypeOK
<1>2. /\ fdman' \in [FdProcs -> Man] /\ fdman'[ProcOf[t]] = n
      /\ \A p \in FdProcs : p # ProcOf[t] => fdman'[p] = fdman[p]
  BY <1>1 DEF Step, Moves
<1>3. hand' \in [FdThreads -> Slot] /\ hand'[t] = s /\ \A u \in FdThreads : u # t => hand'[u] = hand[u]
  BY <1>1 DEF Step, Moves
<1>4. fdpc' \in [FdThreads -> Pc] /\ fdpc'[t] = c /\ \A u \in FdThreads : u # t => fdpc'[u] = fdpc[u]
  BY <1>1 DEF Step, Moves
<1>5. FdTypeOK'
  <2>1. \A u \in FdThreads : fdpc'[u].op \in Ops
    BY <1>4 DEF Pc
  <2>. QED  BY <1>2, <1>3, <2>1 DEF IInv, FdInv, FdTypeOK, Step, Moves
<1>6. FdRefs'
  BY StepRefs DEF IInv
<1>7. FdInv'
  BY <1>2, <1>3, <1>4, <1>5, <1>6, ZenonT(30) DEF IInv, FdInv, Step, Moves
<1>8. FdCounted'
  BY <1>2, <1>4 DEF IInv, FdCounted, NoCloses, Step, Moves
<1>9. FdSafe'
  BY <1>3, <1>4 DEF IInv, FdSafe, Sound, Step, Moves, Inserting
<1>. QED  BY <1>7, <1>8, <1>9 DEF IInv

\* What the step means for FdTable.
Allowed(t, fd, g, h, op) ==
  LET cell == FileAt(fdman[ProcOf[t]], fd)
      held == HandFile(t)
      doing == fdpc[t].op
  IN
  \/ /\ doing = "idle" /\ op \in Inserting \cup {"drop"} /\ g = cell
     /\ h \notin FdAlive \/ \E e \in Fds : FileAt(fdman[ProcOf[t]], e) = h
  \/ doing \in Inserting /\ cell = NoFile /\ g = held /\ h = NoFile /\ op = "idle"
  \/ doing = "insat" /\ g = held /\ h = cell /\ op = "drop"
  \/ doing \in Inserting /\ g = cell /\ h = held /\ op = "drop"
  \/ doing \in {"idle", "closing"} /\ cell # NoFile /\ g = NoFile /\ h = cell
     /\ op \in {"drop", "dropall"}
  \/ /\ g = cell /\ h = NoFile
     /\ (doing = "drop" /\ op = "idle") \/ (doing = "dropall" /\ op = "closing")
  \/ doing = "closing" /\ op = "idle" /\ g = cell /\ h = held
  \/ doing = op /\ g = cell /\ h = held

\* A file exists, for FdTable, exactly while something refers to it.
LEMMA AliveIsReferred ==
  (IInv => FdAlive = Table!Referred) /\ (IInv' => FdAlive' = Table!Referred')
<1>1. ASSUME IInv PROVE FdAlive = Table!Referred
  <2>1. \A f \in Files : frefs[f] = Cardinality(CellsIn(fdman, f)) + Cardinality(HandsIn(hand, f))
    BY <1>1, RefsAs DEF IInv, FdInv
  <2>2. ASSUME NEW f \in Files
        PROVE  frefs[f] > 0 <=> \/ \E p \in FdProcs, fd \in Fds : FileAt(fdman[p], fd) = f
                              \/ \E t \in FdThreads : FileOf(hand[t]) = f
    <3>1. frefs[f] = Cardinality(CellsIn(fdman, f)) + Cardinality(HandsIn(hand, f))
      BY <2>1
    <3>. QED  BY <3>1, CountedFiles
  <2>3. /\ \A p \in FdProcs, fd \in Fds : FdTables[p][fd] = FileAt(fdman[p], fd)
        /\ \A t \in FdThreads : FdHeld[t] = FileOf(hand[t])
    BY DEF FdTables, FdHeld, HandFile, FileOf
  <2>. QED  BY <2>2, <2>3 DEF FdAlive, Table!Referred
<1>2. ASSUME IInv' PROVE FdAlive' = Table!Referred'
  <2>1. \A f \in Files : frefs'[f] = Cardinality(CellsIn(fdman', f)) + Cardinality(HandsIn(hand', f))
    BY <1>2, RefsAs DEF IInv, FdInv
  <2>2. ASSUME NEW f \in Files
        PROVE  frefs'[f] > 0 <=> \/ \E p \in FdProcs, fd \in Fds : FileAt(fdman'[p], fd) = f
                               \/ \E t \in FdThreads : FileOf(hand'[t]) = f
    <3>1. frefs'[f] = Cardinality(CellsIn(fdman', f)) + Cardinality(HandsIn(hand', f))
      BY <2>1
    <3>. QED  BY <3>1, CountedFiles
  <2>3. /\ \A p \in FdProcs, fd \in Fds : FdTables'[p][fd] = FileAt(fdman'[p], fd)
        /\ \A t \in FdThreads : FdHeld'[t] = FileOf(hand'[t])
    BY DEF FdTables, FdHeld, HandFile, FileOf
  <2>. QED  BY <2>2, <2>3 DEF FdAlive, Table!Referred
<1>. QED  BY <1>1, <1>2

\* While nothing changes for FdTable, the same files exist.
LEMMA QuietForTable ==
  ASSUME IInv, IInv', FdTables' = FdTables, FdHeld' = FdHeld, FdDoing' = FdDoing
  PROVE  UNCHANGED Table!avars
<1>1. FdAlive' = FdAlive
  BY AliveIsReferred DEF Table!Referred
<1>. QED  BY <1>1 DEF Table!avars

\* The step as FdTable sees it.
LEMMA StepMaps ==
  ASSUME IInv, NEW t \in FdThreads, NEW n \in Man, NEW s \in Slot, NEW c \in Pc,
         NEW fd \in Fds, NEW g, Step(t, n, s, c, fd, g)
  PROVE  /\ FdTables' = [FdTables EXCEPT ![ProcOf[t]][fd] = g]
         /\ FdHeld' = [FdHeld EXCEPT ![t] = FileOf(s)]
         /\ FdDoing' = [FdDoing EXCEPT ![t] = c.op]
<1>1. /\ ProcOf[t] \in FdProcs /\ fdman \in [FdProcs -> Man] /\ hand \in [FdThreads -> Slot]
      /\ fdpc \in [FdThreads -> Pc]
  BY FdAssumption DEF IInv, FdInv, FdTypeOK
<1>2. FdTables' = [FdTables EXCEPT ![ProcOf[t]][fd] = g]
  <2>1. PICK p \in FdProcs : p = ProcOf[t]
    BY <1>1
  <2>2. /\ FileAt(fdman'[p], fd) = g
        /\ \A e \in Fds : e # fd => FileAt(fdman'[p], e) = FileAt(fdman[p], e)
        /\ \A q \in FdProcs : q # p => fdman'[q] = fdman[q]
    BY <1>1, <2>1 DEF Step, Moves, Sets
  <2>3. ASSUME NEW q \in FdProcs
        PROVE  [e \in Fds |-> FileAt(fdman'[q], e)] =
                 IF q = p THEN [[e \in Fds |-> FileAt(fdman[p], e)] EXCEPT ![fd] = g]
                 ELSE [e \in Fds |-> FileAt(fdman[q], e)]
    BY <2>2
  <2>. QED  BY <2>1, <2>3, Zenon DEF FdTables
<1>3. FdHeld' = [FdHeld EXCEPT ![t] = FileOf(s)]
  <2>1. hand'[t] = s /\ \A u \in FdThreads : u # t => hand'[u] = hand[u]
    BY <1>1 DEF Step, Moves
  <2>. QED  BY <2>1, Zenon DEF FdHeld, HandFile, FileOf
<1>4. FdDoing' = [FdDoing EXCEPT ![t] = c.op]
  <2>1. fdpc'[t] = c /\ \A u \in FdThreads : u # t => fdpc'[u] = fdpc[u]
    BY <1>1 DEF Step, Moves
  <2>. QED  BY <2>1, Zenon DEF FdDoing
<1>. QED  BY <1>2, <1>3, <1>4

\* An allowed step is a step of FdTable, or none.
LEMMA StepImplements ==
  ASSUME IInv, NEW t \in FdThreads, NEW n \in Man, NEW s \in Slot, NEW c \in Pc,
         NEW fd \in Fds, NEW g, Step(t, n, s, c, fd, g), Allowed(t, fd, g, FileOf(s), c.op)
  PROVE  IInv' /\ (Table!ANext \/ UNCHANGED Table!avars)
<1>1. IInv'
  BY StepKeeps
<1>2. FdAlive' = Table!Referred'
  BY <1>1, AliveIsReferred
<1>3. /\ ProcOf[t] \in FdProcs /\ fdman \in [FdProcs -> Man] /\ hand \in [FdThreads -> Slot]
      /\ fdpc \in [FdThreads -> Pc]
  BY FdAssumption DEF IInv, FdInv, FdTypeOK
<1>4. PICK h : h = FileOf(s)
  OBVIOUS
<1>5. /\ FdTables' = [FdTables EXCEPT ![ProcOf[t]][fd] = g]
      /\ FdHeld' = [FdHeld EXCEPT ![t] = h]
      /\ FdDoing' = [FdDoing EXCEPT ![t] = c.op]
  BY <1>4, StepMaps
<1>6. /\ \A e \in Fds : FdTables[ProcOf[t]][e] = FileAt(fdman[ProcOf[t]], e)
      /\ FdHeld[t] = HandFile(t) /\ FdDoing[t] = fdpc[t].op
  BY <1>3, Zenon DEF FdTables, FdHeld, FdDoing
<1>7. g = FileAt(fdman[ProcOf[t]], fd) => FdTables' = FdTables
  BY <1>3, <1>5, <1>6, SMTT(20) DEF FdTables
<1>8. h = HandFile(t) => FdHeld' = FdHeld
  BY <1>5, <1>6, Zenon DEF FdHeld
<1>9. c.op = fdpc[t].op => FdDoing' = FdDoing
  BY <1>5, <1>6, Zenon DEF FdDoing
<1>10. h \in Files \cup {NoFile}
  BY <1>4, SlotFacts DEF FileOf
<1>11. \/ Table!Take(t) \/ Table!Put(t) \/ Table!Replace(t) \/ Table!GiveUp(t)
       \/ Table!TakeOut(t) \/ Table!Release(t) \/ Table!AllClosed(t)
       \/ UNCHANGED <<FdTables, FdHeld, FdDoing>>
  <2>1. CASE /\ fdpc[t].op = "idle" /\ c.op \in Inserting \cup {"drop"}
             /\ g = FileAt(fdman[ProcOf[t]], fd)
             /\ h \notin FdAlive \/ \E e \in Fds : FileAt(fdman[ProcOf[t]], e) = h
    BY <1>5, <1>6, <1>7, <1>10, <2>1, Zenon DEF Table!Take, Table!Inserts, Inserting
  <2>2. CASE /\ fdpc[t].op \in Inserting /\ FileAt(fdman[ProcOf[t]], fd) = NoFile
             /\ g = HandFile(t) /\ h = NoFile /\ c.op = "idle"
    BY <1>5, <1>6, <2>2, Zenon DEF Table!Put, Table!Inserts, Inserting
  <2>3. CASE /\ fdpc[t].op = "insat" /\ g = HandFile(t)
             /\ h = FileAt(fdman[ProcOf[t]], fd) /\ c.op = "drop"
    BY <1>5, <1>6, <2>3, Zenon DEF Table!Replace
  <2>4. CASE /\ fdpc[t].op \in Inserting /\ g = FileAt(fdman[ProcOf[t]], fd)
             /\ h = HandFile(t) /\ c.op = "drop"
    BY <1>5, <1>6, <1>7, <1>8, <2>4 DEF Table!GiveUp, Table!Inserts, Inserting
  <2>5. CASE /\ fdpc[t].op \in {"idle", "closing"} /\ FileAt(fdman[ProcOf[t]], fd) # NoFile
             /\ g = NoFile /\ h = FileAt(fdman[ProcOf[t]], fd) /\ c.op \in {"drop", "dropall"}
    BY <1>5, <1>6, <2>5, Zenon DEF Table!TakeOut
  <2>6. CASE /\ g = FileAt(fdman[ProcOf[t]], fd) /\ h = NoFile
             /\ \/ fdpc[t].op = "drop" /\ c.op = "idle"
                \/ fdpc[t].op = "dropall" /\ c.op = "closing"
    BY <1>5, <1>6, <1>7, <2>6, ZenonT(30) DEF Table!Release
  <2>7. CASE /\ fdpc[t].op = "closing" /\ c.op = "idle"
             /\ g = FileAt(fdman[ProcOf[t]], fd) /\ h = HandFile(t)
    BY <1>5, <1>6, <1>7, <1>8, <2>7, Zenon DEF Table!AllClosed
  <2>8. CASE fdpc[t].op = c.op /\ g = FileAt(fdman[ProcOf[t]], fd) /\ h = HandFile(t)
    BY <1>7, <1>8, <1>9, <2>8, Zenon
  <2>. QED  BY <1>4, <2>1, <2>2, <2>3, <2>4, <2>5, <2>6, <2>7, <2>8, Zenon DEF Allowed
<1>. QED  BY <1>1, <1>2, <1>11, QuietForTable DEF Table!ANext

\* What every step has to show: the invariant, and a step of FdTable or none.
Refines == IInv' /\ (Table!ANext \/ UNCHANGED Table!avars)

\* The types a thread's step starts from.
LEMMA ThreadFacts ==
  ASSUME IInv, NEW t \in FdThreads
  PROVE  /\ ProcOf[t] \in FdProcs /\ fdman[ProcOf[t]] \in Man /\ hand[t] \in Slot
         /\ fdpc[t] \in Pc /\ fdleft \in Nat /\ RefMax \in Nat /\ RefMax > 0
         /\ frefs \in [Files -> 0..RefMax] /\ HandFile(t) = FileOf(hand[t])
         /\ fdpc[t].op \in {"idle", "closing"} => ~hand[t].open /\ HandFile(t) = NoFile
         /\ NoCloses => /\ fdpc[t].op \notin {"dropall", "closing"}
                        /\ Counts(fdman[ProcOf[t]]) /\ Fits(fdman[ProcOf[t]])
         /\ Sound => NoCloses /\ (fdpc[t].op \in Inserting => hand[t].open)
<1>1. ProcOf[t] \in FdProcs /\ fdman[ProcOf[t]] \in Man
  BY FdAssumption DEF IInv, FdInv, FdTypeOK
<1>2. hand[t] \in Slot /\ fdpc[t] \in Pc /\ fdleft \in Nat /\ frefs \in [Files -> 0..RefMax]
      /\ RefMax \in Nat /\ RefMax > 0
  BY FdAssumption DEF IInv, FdInv, FdTypeOK
<1>3. HandFile(t) = FileOf(hand[t])
  BY DEF HandFile, FileOf
<1>4. fdpc[t].op \in {"idle", "closing"} => ~hand[t].open /\ HandFile(t) = NoFile
  BY DEF IInv, FdInv, HandFile
<1>5. NoCloses => /\ fdpc[t].op \notin {"dropall", "closing"}
                  /\ Counts(fdman[ProcOf[t]]) /\ Fits(fdman[ProcOf[t]])
  BY <1>1 DEF IInv, FdCounted
<1>6. Sound => NoCloses
  BY DEF Sound, NoCloses
<1>7. Sound => (fdpc[t].op \in Inserting => hand[t].open)
  BY Zenon DEF IInv, FdSafe, Inserting
<1>. QED  BY <1>1, <1>2, <1>3, <1>4, <1>5, <1>6, <1>7

\* The assertions at the head of the three insertions hold while the calls are Sound
LEMMA InsertAsserts ==
  ASSUME IInv, NEW t \in FdThreads, fdpc[t].op \in Inserting, Sound
  PROVE  hand[t].open /\ ~(fdman[ProcOf[t]].fdm_cnt > fdman[ProcOf[t]].fdm_fda)
<1>1. PICK m \in Man : m = fdman[ProcOf[t]] /\ Counts(m)
  BY ThreadFacts
<1>2. m.fdm_cnt <= m.fdm_fda /\ m.fdm_cnt \in Nat /\ m.fdm_fda \in Nat
  BY <1>1, CountedTable, ManFacts
<1>3. hand[t].open
  BY ThreadFacts
<1>. QED  BY <1>1, <1>2, <1>3

\* The tables of all processes keep their files.
LEMMA KeepsCells ==
  ASSUME IInv, NEW t \in FdThreads, NEW n \in Man, NEW s \in Slot, NEW c \in Pc,
         Moves(t, n, s, c), SameFiles(fdman[ProcOf[t]], n), frefs' \in [Files -> 0..RefMax],
         \A f \in Files : frefs'[f] + One(HandFile(t) = f) = frefs[f] + One(FileOf(s) = f),
         \/ /\ fdpc[t].op = "idle" /\ c.op \in Inserting \cup {"drop"}
            /\ FileOf(s) \notin FdAlive \/ \E e \in Fds : FileAt(fdman[ProcOf[t]], e) = FileOf(s)
         \/ fdpc[t].op \in Inserting /\ c.op = "drop" /\ FileOf(s) = HandFile(t)
         \/ /\ FileOf(s) = NoFile
            /\ \/ fdpc[t].op = "drop" /\ c.op = "idle"
               \/ fdpc[t].op = "dropall" /\ c.op = "closing"
         \/ fdpc[t].op = "closing" /\ c.op = "idle" /\ FileOf(s) = HandFile(t)
         \/ fdpc[t].op = c.op /\ FileOf(s) = HandFile(t)
  PROVE  Refines
<1>1. PICK fd \in Fds, g \in Files \cup {NoFile} : g = FileAt(fdman[ProcOf[t]], fd)
  BY ThreadFacts, FileAtFacts, FdFacts, Zenon DEF Special, KFD_CWD
<1>2. Sets(fdman[ProcOf[t]], n, fd, g)
  BY <1>1, Zenon DEF SameFiles, Sets
<1>3. ASSUME NEW f \in Files
      PROVE  frefs'[f] + One(FileAt(fdman[ProcOf[t]], fd) = f) + One(HandFile(t) = f) =
               frefs[f] + One(g = f) + One(FileOf(s) = f)
  <2>1. /\ One(g = f) \in Int /\ One(HandFile(t) = f) \in Int /\ One(FileOf(s) = f) \in Int
        /\ frefs'[f] \in Int /\ frefs[f] \in Int
    BY ThreadFacts DEF One
  <2>2. One(FileAt(fdman[ProcOf[t]], fd) = f) = One(g = f)
    BY <1>1, Zenon
  <2>. QED  BY <2>1, <2>2, SMTT(20)
<1>4. Step(t, n, s, c, fd, g)
  BY <1>2, <1>3, Zenon DEF Step
<1>5. Allowed(t, fd, g, FileOf(s), c.op)
  BY <1>1, Zenon DEF Allowed
<1>. QED  BY <1>4, <1>5, StepImplements, Zenon DEF Refines

\* Descriptor fd and the thread exchange what they refer to.
LEMMA SwapsCell ==
  ASSUME IInv, NEW t \in FdThreads, NEW n \in Man, NEW s \in Slot, NEW c \in Pc, NEW fd \in Fds,
         Moves(t, n, s, c), Sets(fdman[ProcOf[t]], n, fd, HandFile(t)),
         FileOf(s) = FileAt(fdman[ProcOf[t]], fd), frefs' = frefs,
         \/ fdpc[t].op \in Inserting /\ FileOf(s) = NoFile /\ c.op = "idle"
         \/ fdpc[t].op = "insat" /\ c.op = "drop"
         \/ /\ fdpc[t].op \in {"idle", "closing"} /\ FileOf(s) # NoFile
            /\ c.op \in {"drop", "dropall"}
  PROVE  Refines
<1>1. PICK g : g = HandFile(t)
  BY Zenon
<1>2. ASSUME NEW f \in Files
      PROVE  frefs'[f] + One(FileAt(fdman[ProcOf[t]], fd) = f) + One(HandFile(t) = f) =
               frefs[f] + One(g = f) + One(FileOf(s) = f)
  <2>1. One(g = f) \in Int /\ One(FileOf(s) = f) \in Int /\ frefs[f] \in Int
    BY ThreadFacts DEF One
  <2>2. One(FileAt(fdman[ProcOf[t]], fd) = f) = One(FileOf(s) = f)
        /\ One(HandFile(t) = f) = One(g = f)
    BY <1>1, Zenon
  <2>. QED  BY <2>1, <2>2, SMTT(20)
<1>3. Step(t, n, s, c, fd, g)
  BY <1>1, <1>2, ThreadFacts, Zenon DEF Step
<1>4. Allowed(t, fd, g, FileOf(s), c.op)
  BY <1>1, ThreadFacts, Zenon DEF Allowed
<1>. QED  BY <1>3, <1>4, StepImplements, Zenon DEF Refines

\* An assertion fails: nothing else changes.
LEMMA StopKeeps ==
  ASSUME IInv, NEW kind \in Faults, Stop(kind), fdleft' \in Nat, ~Sound
  PROVE  Refines
<1>1. UNCHANGED <<fdman, live, frefs, hand, fdpc, fduse>> /\ fault' \in Faults
  BY Zenon DEF Stop
<1>2. IInv'
  BY <1>1, Zenon DEF IInv, FdInv, FdTypeOK, FdRefs, Cells, Hands, HandFile, FdCounted, NoCloses, FdSafe, Sound
<1>3. UNCHANGED Table!avars
  BY <1>1 DEF Table!avars, FdTables, FdHeld, FdDoing, FdAlive, HandFile
<1>. QED  BY <1>2, <1>3 DEF Refines

----------------------------------------------------------------------------
(* The steps of threads *)

\* What a thread goes on with is well formed.
LEMMA PcFacts ==
  /\ \A op \in Ops, fd \in Fds \cup {fdm_max} :
        (op = "insh" => fd >= 0) => Todo(op, fd) \in Pc /\ Todo(op, fd).op = op
  /\ \A op \in Ops \ {"insh"}, c \in Pc :
        [c EXCEPT !.op = op] \in Pc /\ [c EXCEPT !.op = op].op = op
  /\ 0 \in Fds
<1>1. 0 \in Fds
  BY FdFacts
<1>2. Idle \in Pc
  <2>1. <<>> \in Seq(Nat) /\ <<>> \in Seq(Special) /\ "idle" \in Ops
    BY DEF Ops
  <2>. QED  BY <1>1, <2>1 DEF Idle, Pc
<1>3. ASSUME NEW op \in Ops, NEW fd \in Fds \cup {fdm_max}, op = "insh" => fd >= 0
      PROVE  Todo(op, fd) \in Pc /\ Todo(op, fd).op = op
  <2>1. PICK i \in Pc : i = Idle
    BY <1>2
  <2>2. [i EXCEPT !.op = op, !.fd = fd] \in Pc /\ [i EXCEPT !.op = op, !.fd = fd].op = op
    BY <1>3, Zenon DEF Pc
  <2>. QED  BY <2>1, <2>2 DEF Todo
<1>4. ASSUME NEW op \in Ops \ {"insh"}, NEW c \in Pc
      PROVE  [c EXCEPT !.op = op] \in Pc /\ [c EXCEPT !.op = op].op = op
  BY Zenon DEF Pc
<1>. QED  BY <1>1, <1>3, <1>4

\* A call is counted.
LEMMA PayFacts ==
  ASSUME IInv
  PROVE  \A call : FdPay(call) => fdleft' \in Nat
BY DEF IInv, FdInv, FdTypeOK, FdPay

\* Every table names the files it names.
LEMMA SameFilesSelf == \A m : SameFiles(m, m)
BY Zenon DEF SameFiles

\* A file is opened.
LEMMA OpenKeeps ==
  ASSUME IInv, NEW t \in FdThreads, Open(t)
  PROVE  Refines
<1>1. fdpc[t].op = "idle" /\ ProcOf[t] \in live /\ fault = "none"
  BY DEF Open, Running
<1>2. PICK f \in Files : /\ frefs[f] = 0 /\ frefs' = [frefs EXCEPT ![f] = @ + 1]
                         /\ hand' = [hand EXCEPT ![t] = [open |-> TRUE, data |-> f]]
  BY Zenon DEF Open, Ref
<1>3. PICK s \in Slot : s = [open |-> TRUE, data |-> f]
  BY FdAssumption, Zenon DEF Slot
<1>4. s.open /\ FileOf(s) = f
  BY <1>3 DEF FileOf
<1>5. PICK c \in Pc : fdpc' = [fdpc EXCEPT ![t] = c] /\ c.op \in Inserting
  <2>1. \A fd \in 0..fdm_max : fd \in Fds \cup {fdm_max} /\ fd >= 0
    BY FdFacts
  <2>2. Inserting \subseteq Ops
    BY DEF Inserting, Ops
  <2>3. PICK op \in Inserting, fd \in Fds \cup {fdm_max} :
          fdpc' = [fdpc EXCEPT ![t] = Todo(op, fd)] /\ (op = "insh" => fd >= 0)
    BY <2>1, PcFacts DEF Open, Then, ThenAt, Inserting
  <2>4. Todo(op, fd) \in Pc /\ Todo(op, fd).op \in Inserting
    BY <2>2, <2>3, PcFacts
  <2>. QED  BY <2>3, <2>4, Zenon
<1>6. fdleft' \in Nat
  BY PayFacts DEF Open
<1>7. Moves(t, fdman[ProcOf[t]], s, c)
  <2>1. fdman' = [fdman EXCEPT ![ProcOf[t]] = fdman[ProcOf[t]]]
    BY DEF Open, IInv, FdInv, FdTypeOK
  <2>. QED  BY <1>1, <1>2, <1>3, <1>4, <1>5, <1>6, <2>1, ThreadFacts, ZenonT(30) DEF Moves, Open, Inserting
<1>8. frefs' \in [Files -> 0..RefMax]
  BY <1>2, ThreadFacts
<1>9. ASSUME NEW x \in Files
      PROVE  frefs'[x] + One(HandFile(t) = x) = frefs[x] + One(FileOf(s) = x)
  <2>1. HandFile(t) # x
    BY <1>1, ThreadFacts, FdAssumption
  <2>2. frefs'[x] = (IF x = f THEN frefs[x] + 1 ELSE frefs[x]) /\ frefs[x] \in Int
    BY <1>2, ThreadFacts
  <2>. QED  BY <1>4, <2>1, <2>2, SMTT(20) DEF One
<1>10. FileOf(s) \notin FdAlive
  BY <1>2, <1>4 DEF FdAlive
<1>. QED  BY <1>1, <1>5, <1>7, <1>8, <1>9, <1>10, ThreadFacts, SameFilesSelf, KeepsCells, ZenonT(30)

\* A file a thread refers to is counted.
LEMMA HeldIsCounted ==
  ASSUME IInv, NEW t \in FdThreads, hand[t].open
  PROVE  hand[t].data \in Files /\ frefs[hand[t].data] > 0
<1>1. hand[t].data \in Files /\ FileOf(hand[t]) = hand[t].data
  BY ThreadFacts, SlotFacts DEF FileOf
<1>2. PICK f \in Files : f = hand[t].data
  BY <1>1
<1>3. frefs[f] = Cardinality(CellsIn(fdman, f)) + Cardinality(HandsIn(hand, f))
  BY RefsAs DEF IInv, FdInv
<1>4. frefs[f] > 0
  BY <1>1, <1>2, <1>3, CountedFiles
<1>. QED  BY <1>1, <1>2, <1>4

\* kfdentry_quit drops the reference.
LEMMA QuitKeeps ==
  ASSUME IInv, NEW t \in FdThreads, NEW op, NEW next, Quit(t, op, next),
         (op = "drop" /\ next = "idle") \/ (op = "dropall" /\ next = "closing")
  PROVE  Refines
<1>1. fdpc[t].op = op /\ ProcOf[t] \in live /\ fault = "none"
  BY DEF Quit, Running
<1>2. PICK c \in Pc : fdpc' = [fdpc EXCEPT ![t] = c] /\ c.op = next
  <2>1. fdpc' = [fdpc EXCEPT ![t] = [fdpc[t] EXCEPT !.op = next]]
    BY DEF Quit
  <2>2. next \in Ops \ {"insh"}
    BY DEF Ops
  <2>. QED  BY <2>1, <2>2, ThreadFacts, PcFacts, Zenon
<1>3. NoSlot \in Slot /\ ~NoSlot.open /\ FileOf(NoSlot) = NoFile
  BY SlotFacts DEF FileOf
<1>4. Moves(t, fdman[ProcOf[t]], NoSlot, c)
  <2>1. fdman' = [fdman EXCEPT ![ProcOf[t]] = fdman[ProcOf[t]]]
    BY DEF Quit, IInv, FdInv, FdTypeOK
  <2>2. NoCloses => next \notin {"dropall", "closing"}
    BY <1>1, ThreadFacts
  <2>. QED  BY <1>1, <1>2, <1>3, <2>1, <2>2, ThreadFacts, ZenonT(30) DEF Moves, Quit, Inserting
<1>5. CASE hand[t].open
  <2>1. PICK f \in Files : f = hand[t].data /\ frefs[f] > 0 /\ HandFile(t) = f
    BY <1>5, HeldIsCounted DEF HandFile
  <2>2. frefs' = [frefs EXCEPT ![f] = @ + (-1)]
    BY <1>5, <2>1 DEF Quit, Ref
  <2>3. frefs' \in [Files -> 0..RefMax]
    BY <2>1, <2>2, ThreadFacts
  <2>4. ASSUME NEW x \in Files
        PROVE  frefs'[x] + One(HandFile(t) = x) = frefs[x] + One(FileOf(NoSlot) = x)
    <3>1. NoFile # x
      BY FdAssumption
    <3>2. frefs'[x] = (IF x = f THEN frefs[x] + (-1) ELSE frefs[x]) /\ frefs[x] \in Int
      BY <2>2, ThreadFacts, SMTT(20)
    <3>. QED  BY <1>3, <2>1, <3>1, <3>2 DEF One
  <2>. QED  BY <1>1, <1>2, <1>3, <1>4, <2>3, <2>4, ThreadFacts, SameFilesSelf, KeepsCells, ZenonT(30)
<1>6. CASE ~hand[t].open
  <2>1. frefs' = frefs /\ HandFile(t) = NoFile
    BY <1>6 DEF Quit, HandFile
  <2>2. ASSUME NEW x \in Files
        PROVE  frefs'[x] + One(HandFile(t) = x) = frefs[x] + One(FileOf(NoSlot) = x)
    BY <1>3, <2>1, Zenon
  <2>. QED  BY <1>1, <1>2, <1>3, <1>4, <2>1, <2>2, ThreadFacts, SameFilesSelf, KeepsCells, Zenon
<1>. QED  BY <1>5, <1>6

\* An entry is copied, with a reference when it is open.
LEMMA CopyEntryKeeps ==
  ASSUME IInv, NEW t \in FdThreads, Running(t, "idle"), CopyEntry(t, fdman[ProcOf[t]])
  PROVE  Refines
<1>1. fdpc[t].op = "idle" /\ ProcOf[t] \in live /\ fault = "none"
  BY DEF Running
<1>2. PICK m \in Man : m = fdman[ProcOf[t]]
  BY ThreadFacts, Zenon
<1>3. PICK fd \in Fds :
        /\ HasSlot(m, fd)
        /\ \/ ~At(m, fd).open /\ UNCHANGED frefs
           \/ At(m, fd).open /\ frefs[At(m, fd).data] < RefMax /\ Ref(At(m, fd).data, 1)
        /\ hand' = [hand EXCEPT ![t] = IF At(m, fd).open THEN At(m, fd) ELSE NoSlot]
  BY <1>2, ZenonT(30) DEF CopyEntry
<1>4. At(m, fd) \in Slot /\ FileAt(m, fd) = FileOf(At(m, fd))
  BY <1>3, FileAtFacts
<1>5. PICK s \in Slot : s = IF At(m, fd).open THEN At(m, fd) ELSE NoSlot
  BY <1>4, SlotFacts, Zenon
<1>6. FileOf(s) = FileAt(m, fd) /\ hand' = [hand EXCEPT ![t] = s]
  BY <1>3, <1>4, <1>5, SlotFacts DEF FileOf
<1>7. PICK c \in Pc : /\ fdpc' = [fdpc EXCEPT ![t] = c] /\ c.op \in Inserting \cup {"drop"}
                      /\ Sound => c.op = "drop"
  <2>1. \A fd2 \in 0..fdm_max : fd2 \in Fds \cup {fdm_max} /\ fd2 >= 0
    BY FdFacts
  <2>2. Inserting \cup {"drop"} \subseteq Ops
    BY DEF Inserting, Ops
  <2>3. PICK op \in Inserting \cup {"drop"}, fd2 \in Fds \cup {fdm_max} :
          /\ fdpc' = [fdpc EXCEPT ![t] = Todo(op, fd2)] /\ (op = "insh" => fd2 >= 0)
          /\ Sound => op = "drop"
    BY <2>1, PcFacts DEF CopyEntry, Then, ThenAt, Inserting, FdPay, Sound
  <2>4. Todo(op, fd2) \in Pc /\ Todo(op, fd2).op = op
    BY <2>2, <2>3, PcFacts, ZenonT(30)
  <2>. QED  BY <2>3, <2>4, Zenon
<1>8. fdleft' \in Nat
  BY PayFacts DEF CopyEntry
<1>9. Moves(t, m, s, c)
  <2>1. fdman' = [fdman EXCEPT ![ProcOf[t]] = m]
    BY <1>2 DEF CopyEntry, IInv, FdInv, FdTypeOK
  <2>. QED  BY <1>1, <1>2, <1>6, <1>7, <1>8, <2>1, ThreadFacts, ZenonT(30) DEF Moves, CopyEntry, Inserting
<1>10. \A x \in Files : HandFile(t) # x /\ frefs[x] \in 0..RefMax /\ frefs[x] \in Int
  BY <1>1, ThreadFacts, FdAssumption
<1>11. CASE At(m, fd).open
  <2>1. PICK f \in Files : f = At(m, fd).data /\ FileOf(s) = f
    BY <1>4, <1>6, <1>11, SlotFacts, ZenonT(30) DEF FileOf
  <2>2. frefs' = [frefs EXCEPT ![f] = @ + 1] /\ frefs[f] < RefMax
    BY <1>3, <1>11, <2>1, Zenon DEF Ref
  <2>3. frefs' \in [Files -> 0..RefMax]
    BY <1>10, <2>2, ThreadFacts, SMTT(20)
  <2>4. ASSUME NEW x \in Files
        PROVE  frefs'[x] + One(HandFile(t) = x) = frefs[x] + One(FileOf(s) = x)
    <3>1. frefs'[x] = IF x = f THEN frefs[x] + 1 ELSE frefs[x]
      BY <2>2, ThreadFacts, Zenon
    <3>. QED  BY <1>10, <2>1, <3>1, SMTT(20) DEF One
  <2>. QED  BY <1>1, <1>2, <1>6, <1>7, <1>9, <2>3, <2>4, SameFilesSelf, KeepsCells, ZenonT(30)
<1>12. CASE ~At(m, fd).open
  <2>1. frefs' = frefs /\ FileOf(s) = NoFile
    BY <1>3, <1>5, <1>12, SlotFacts, Zenon DEF FileOf
  <2>2. ASSUME NEW x \in Files
        PROVE  frefs'[x] + One(HandFile(t) = x) = frefs[x] + One(FileOf(s) = x)
    BY <1>10, <2>1, FdAssumption, ZenonT(30) DEF One
  <2>3. FileOf(s) \notin FdAlive /\ frefs' \in [Files -> 0..RefMax]
    BY <2>1, FdAssumption, ThreadFacts DEF FdAlive
  <2>. QED  BY <1>1, <1>2, <1>7, <1>9, <2>2, <2>3, SameFilesSelf, KeepsCells, Zenon
<1>. QED  BY <1>11, <1>12

\* kproc_getfd, with its assertion.
LEMMA GetFdKeeps ==
  ASSUME IInv, NEW t \in FdThreads, GetFd(t)
  PROVE  Refines
<1>1. CASE fdman[ProcOf[t]].fdm_cnt <= fdman[ProcOf[t]].fdm_fda
  BY <1>1, CopyEntryKeeps DEF GetFd
<1>2. CASE ~(fdman[ProcOf[t]].fdm_cnt <= fdman[ProcOf[t]].fdm_fda)
  <2>1. ~Sound
    BY <1>2, ThreadFacts, CountedTable, Zenon
  <2>2. Stop("assert") /\ fdleft' \in Nat /\ "assert" \in Faults
    BY <1>2, ThreadFacts, Zenon DEF GetFd, Fail, Faults
  <2>. QED  BY <2>1, <2>2, StopKeeps
<1>. QED  BY <1>1, <1>2

\* The entry is stored under a descriptor that named nothing,
LEMMA InheritedKeeps ==
  ASSUME IInv, NEW t \in FdThreads, NEW op, Running(t, op), op \in Inserting,
         NEW w, NEW fd \in Fds, Inherited(t, w, fd), FileAt(fdman[ProcOf[t]], fd) = NoFile,
         WithSlot(w, fd, hand[t]) \in Man,
         Sets(fdman[ProcOf[t]], WithSlot(w, fd, hand[t]), fd, FileOf(hand[t])),
         NoCloses => Counts(WithSlot(w, fd, hand[t])) /\ Fits(WithSlot(w, fd, hand[t]))
  PROVE  Refines
<1>1. fdpc[t].op \in Inserting /\ ProcOf[t] \in live
  BY ZenonT(30) DEF Running
<1>2. PICK n \in Man : n = WithSlot(w, fd, hand[t])
  BY ZenonT(30)
<1>3. NoSlot \in Slot /\ ~NoSlot.open /\ FileOf(NoSlot) = NoFile
  BY SlotFacts DEF FileOf
<1>4. PICK c \in Pc : c = Todo("idle", 0) /\ c.op = "idle"
  BY PcFacts DEF Ops
<1>5. Moves(t, n, NoSlot, c)
  BY <1>1, <1>2, <1>3, <1>4, ThreadFacts, Zenon DEF Moves, Inherited, Store, Then, ThenAt, Inserting
<1>6. frefs' = frefs
  BY ZenonT(30) DEF Inherited
<1>7. Sets(fdman[ProcOf[t]], n, fd, HandFile(t))
  BY <1>2, ThreadFacts, ZenonT(30)
<1>. QED  BY <1>1, <1>3, <1>4, <1>5, <1>6, <1>7, SwapsCell, ZenonT(30)

\* or replaces another one,
LEMMA ReplacedKeeps ==
  ASSUME IInv, NEW t \in FdThreads, Running(t, "insat"), hand[t].open,
         NEW fd \in Fds, HasSlot(fdman[ProcOf[t]], fd), Replaced(t, fdman[ProcOf[t]], fd),
         NoCloses => fd \in Special \/ FileAt(fdman[ProcOf[t]], fd) # NoFile
  PROVE  Refines
<1>1. fdpc[t].op = "insat" /\ ProcOf[t] \in live
  BY Zenon DEF Running
<1>2. PICK m \in Man : m = fdman[ProcOf[t]]
  BY ThreadFacts, ZenonT(30)
<1>3. PICK n \in Man : n = WithSlot(m, fd, hand[t])
  BY <1>2, ReplaceFacts, ThreadFacts, Zenon
<1>4. Sets(m, n, fd, HandFile(t)) /\ (NoCloses => Counts(n) /\ Fits(n))
  BY <1>2, <1>3, ReplaceFacts, ThreadFacts, ZenonT(30)
<1>5. PICK s \in Slot : s = At(m, fd) /\ FileOf(s) = FileAt(m, fd)
  BY <1>2, FileAtFacts
<1>6. PICK c \in Pc : c = Todo("drop", 0) /\ c.op = "drop"
  BY PcFacts DEF Ops
<1>7. Moves(t, n, s, c)
  BY <1>1, <1>2, <1>3, <1>4, <1>5, <1>6, ThreadFacts, Zenon
     DEF Moves, Replaced, Store, Then, ThenAt, Inserting
<1>8. frefs' = frefs
  BY ZenonT(30) DEF Replaced
<1>. QED  BY <1>1, <1>2, <1>4, <1>5, <1>6, <1>7, <1>8, SwapsCell, ZenonT(30)

\* or is not stored.
LEMMA RejectedKeeps ==
  ASSUME IInv, NEW t \in FdThreads, NEW op, Running(t, op), op \in Inserting, Rejected(t)
  PROVE  Refines
<1>1. fdpc[t].op \in Inserting /\ ProcOf[t] \in live
  BY DEF Running
<1>2. PICK c \in Pc : c = Todo("drop", 0) /\ c.op = "drop"
  BY PcFacts DEF Ops
<1>3. Moves(t, fdman[ProcOf[t]], hand[t], c)
  <2>1. /\ fdman' = [fdman EXCEPT ![ProcOf[t]] = fdman[ProcOf[t]]]
        /\ hand' = [hand EXCEPT ![t] = hand[t]]
    BY DEF Rejected, IInv, FdInv, FdTypeOK
  <2>. QED  BY <1>1, <1>2, <2>1, ThreadFacts, Zenon DEF Moves, Rejected, Then, ThenAt, Inserting
<1>4. ASSUME NEW x \in Files
      PROVE  frefs'[x] + One(HandFile(t) = x) = frefs[x] + One(FileOf(hand[t]) = x)
  BY ThreadFacts DEF Rejected
<1>5. frefs' \in [Files -> 0..RefMax] /\ FileOf(hand[t]) = HandFile(t)
  BY ThreadFacts DEF Rejected
<1>. QED  BY <1>1, <1>2, <1>3, <1>4, <1>5, ThreadFacts, SameFilesSelf, KeepsCells, Zenon

\* A slot that is not open names nothing; in a clean table fd_data tells them apart.
LEMMA VectorFacts ==
  ASSUME NEW m \in Man, NEW i \in 0..m.fdm_fda - 1
  PROVE  /\ i \in Fds /\ i \notin Special /\ i \in Nat /\ i < fdm_max /\ HasSlot(m, i)
         /\ m.fdm_fdv[i] \in Slot /\ At(m, i) = m.fdm_fdv[i]
         /\ ~m.fdm_fdv[i].open \/ m.fdm_fdv[i].data = NoFile => FileAt(m, i) = NoFile
         /\ Clean(m) /\ m.fdm_fdv[i].data # NoFile => FileAt(m, i) # NoFile
<1>1. m.fdm_fda \in Nat /\ m.fdm_fda <= fdm_max /\ m.fdm_fdv \in [0..m.fdm_fda - 1 -> Slot]
  BY ManFacts
<1>2. i \in Nat /\ i < m.fdm_fda /\ i < fdm_max /\ i \in 0..fdm_max - 1
  BY <1>1, FdFacts
<1>3. i \in Fds /\ i \notin Special
  BY <1>2, FdFacts
<1>4. m.fdm_fdv[i] \in Slot /\ At(m, i) = m.fdm_fdv[i]
  BY <1>1, <1>2 DEF At
<1>5. FileAt(m, i) = FileOf(m.fdm_fdv[i]) /\ HasSlot(m, i)
  BY <1>3, FileAtFacts
<1>6. ~m.fdm_fdv[i].open \/ m.fdm_fdv[i].data = NoFile => FileAt(m, i) = NoFile
  BY <1>4, <1>5, SlotFacts DEF FileOf
<1>7. Clean(m) /\ m.fdm_fdv[i].data # NoFile => FileAt(m, i) # NoFile
  BY <1>5 DEF Clean, FileOf
<1>. QED  BY <1>2, <1>3, <1>4, <1>5, <1>6, <1>7

\* The search for a free slot finds one.
LEMMA NextFreeFacts ==
  ASSUME NEW m \in Man, FreeFrom(m, 0) # {}
  PROVE  NextFree(m) \in 0..m.fdm_fda - 1 /\ m.fdm_fdv[NextFree(m)].data = NoFile
<1>1. m.fdm_fda \in Nat /\ m.fdm_fre \in Nat
  BY ManFacts, FdFacts
<1>2. ASSUME NEW i \in Nat, FreeFrom(m, i) # {} PROVE Min(FreeFrom(m, i)) \in FreeFrom(m, i)
  <2>1. FreeFrom(m, i) \subseteq Nat
    BY <1>1 DEF FreeFrom
  <2>. QED  BY <1>2, <2>1, MinIs
<1>3. ASSUME NEW i \in Nat PROVE FreeFrom(m, i) \subseteq FreeFrom(m, 0)
  BY <1>1 DEF FreeFrom
<1>4. PICK i \in Nat : i = IF m.fdm_fre >= m.fdm_fda THEN 0 ELSE m.fdm_fre
  BY <1>1
<1>5. NextFree(m) = IF FreeFrom(m, i) # {} THEN Min(FreeFrom(m, i)) ELSE Min(FreeFrom(m, 0))
  BY <1>4 DEF NextFree
<1>6. NextFree(m) \in FreeFrom(m, 0)
  BY <1>2, <1>3, <1>5, Zenon
<1>. QED  BY <1>6 DEF FreeFrom

\* The table with one more entry counted and its vector grown.
LEMMA GrownFacts ==
  ASSUME NEW m \in Man, NEW a \in 0..fdm_max, m.fdm_fda <= a
  PROVE  /\ Counted(Resized(m, a), 1) \in Man /\ SameFiles(m, Counted(Resized(m, a), 1))
         /\ Counted(Resized(m, a), 1).fdm_cnt = m.fdm_cnt + 1
         /\ Counted(Resized(m, a), 1).fdm_fda = a
         /\ Clean(m) => Clean(Counted(Resized(m, a), 1))
<1>1. m.fdm_fda \in Nat /\ m.fdm_cnt \in Nat /\ fdm_max \in Nat
  BY ManFacts, FdFacts
<1>2. PICK r \in Man : r = Resized(m, a)
  BY ResizedFacts
<1>3. /\ r.fdm_cnt = m.fdm_cnt /\ r.fdm_fda = a
      /\ \A i \in 0..a - 1 : r.fdm_fdv[i] = IF i < m.fdm_fda THEN m.fdm_fdv[i] ELSE NoSlot
  BY <1>2, ResizedFacts
<1>4. r.fdm_cnt + 1 >= 0 /\ 1 \in Int
  BY <1>1, <1>3
<1>5. PICK w \in Man : w = Counted(r, 1)
  BY <1>4, CountedFacts
<1>6. /\ w.fdm_cnt = r.fdm_cnt + 1 /\ w.fdm_fda = r.fdm_fda /\ w.fdm_fdv = r.fdm_fdv
      /\ w.special = r.special
  BY <1>4, <1>5, CountedFacts
<1>7. SameFiles(m, w)
  <2>1. \A i \in OpenFds(m) : i < a
    BY <1>1, OpenFacts
  <2>2. SameFiles(m, r)
    BY <1>2, <2>1, ResizedSame
  <2>3. SameFiles(r, w)
    BY <1>6, SameSlots
  <2>. QED  BY <2>2, <2>3 DEF SameFiles
<1>8. ASSUME Clean(m), NEW i \in 0..w.fdm_fda - 1
      PROVE  w.fdm_fdv[i].open \/ w.fdm_fdv[i].data = NoFile
  <2>1. i \in 0..a - 1 /\ w.fdm_fdv[i] = IF i < m.fdm_fda THEN m.fdm_fdv[i] ELSE NoSlot
    BY <1>3, <1>6, <1>8
  <2>2. i < m.fdm_fda => i \in 0..m.fdm_fda - 1
    BY <1>1, <2>1
  <2>. QED  BY <1>8, <2>1, <2>2, SlotFacts DEF Clean
<1>. QED  BY <1>2, <1>3, <1>5, <1>6, <1>7, <1>8 DEF Clean

\* The same without a new vector,
LEMMA OneMoreFacts ==
  ASSUME NEW m \in Man
  PROVE  /\ Counted(m, 1) \in Man /\ SameFiles(m, Counted(m, 1))
         /\ Counted(m, 1).fdm_cnt = m.fdm_cnt + 1 /\ Counted(m, 1).fdm_fda = m.fdm_fda
         /\ Clean(m) => Clean(Counted(m, 1))
<1>1. m.fdm_cnt + 1 >= 0 /\ 1 \in Int
  BY ManFacts
<1>2. PICK w \in Man : w = Counted(m, 1)
  BY <1>1, CountedFacts
<1>3. /\ w.fdm_cnt = m.fdm_cnt + 1 /\ w.fdm_fda = m.fdm_fda /\ w.fdm_fdv = m.fdm_fdv
      /\ w.special = m.special
  BY <1>1, <1>2, CountedFacts
<1>. QED  BY <1>2, <1>3, SameSlots DEF Clean

\* and with another hint.
LEMMA NewHintFacts ==
  ASSUME NEW m \in Man, NEW r \in 0..fdm_max
  PROVE  /\ [m EXCEPT !.fdm_fre = r] \in Man /\ SameFiles(m, [m EXCEPT !.fdm_fre = r])
         /\ [m EXCEPT !.fdm_fre = r].fdm_cnt = m.fdm_cnt
         /\ [m EXCEPT !.fdm_fre = r].fdm_fda = m.fdm_fda
         /\ Clean(m) => Clean([m EXCEPT !.fdm_fre = r])
<1>1. PICK w \in Man : w = [m EXCEPT !.fdm_fre = r]
  BY HintFacts, ZenonT(30)
<1>2. /\ w.fdm_cnt = m.fdm_cnt /\ w.fdm_fda = m.fdm_fda /\ w.fdm_fdv = m.fdm_fdv
      /\ w.special = m.special
  BY <1>1, HintFacts
<1>. QED  BY <1>1, <1>2, SameSlots, Zenon DEF Clean

\* One more entry, under a descriptor that named nothing.
LEMMA InsertKeeps ==
  ASSUME IInv, NEW t \in FdThreads, NEW op, Running(t, op), op \in Inserting, hand[t].open,
         NEW w \in Man, SameFiles(fdman[ProcOf[t]], w), w.fdm_cnt = fdman[ProcOf[t]].fdm_cnt + 1,
         Clean(fdman[ProcOf[t]]) => Clean(w), NEW fd \in 0..w.fdm_fda - 1,
         FileAt(fdman[ProcOf[t]], fd) = NoFile, Inherited(t, w, fd)
  PROVE  Refines
<1>1. PICK m \in Man, s \in Slot : m = fdman[ProcOf[t]] /\ s = hand[t]
  BY ThreadFacts, ZenonT(30)
<1>2. /\ WithSlot(w, fd, s) \in Man /\ fd \in Fds
      /\ Sets(m, WithSlot(w, fd, s), fd, FileOf(s))
      /\ Counts(m) => Counts(WithSlot(w, fd, s)) /\ Fits(WithSlot(w, fd, s))
  BY <1>1, InsertFacts, ZenonT(30)
<1>3. NoCloses => Counts(m)
  BY <1>1, ThreadFacts, Zenon
<1>. QED  BY <1>1, <1>2, <1>3, InheritedKeeps, ZenonT(30)

\* kproc_insfd_inherited
LEMMA InsFdKeeps ==
  ASSUME IInv, NEW t \in FdThreads, InsFd(t)
  PROVE  Refines
<1>1. PICK m \in Man : m = fdman[ProcOf[t]]
  BY ThreadFacts
<1>2. Running(t, "ins") /\ "ins" \in Inserting /\ fdpc[t].op = "ins"
  BY DEF InsFd, Inserting, Running
<1>3. m.fdm_cnt \in Nat /\ m.fdm_fda \in Nat /\ m.fdm_fda <= fdm_max /\ fdm_max \in Nat
  BY ManFacts, FdFacts
<1>4. NoCloses => Counts(m)
  BY <1>1, ThreadFacts
<1>5. CASE (~hand[t].open \/ m.fdm_cnt > m.fdm_fda) /\ Fail("assert")
  <2>1. ~Sound
    BY <1>1, <1>2, <1>5, InsertAsserts
  <2>2. Stop("assert") /\ fdleft' \in Nat /\ "assert" \in Faults
    BY <1>5, ThreadFacts DEF Fail, Faults
  <2>. QED  BY <2>1, <2>2, StopKeeps, Zenon
<1>6. CASE m.fdm_cnt < m.fdm_fda /\ FreeFrom(m, 0) = {} /\ Fail("loop")
  <2>1. ~Sound
    BY <1>4, <1>6, ThreadFacts, CountedTable, ZenonT(30)
  <2>2. Stop("loop") /\ fdleft' \in Nat /\ "loop" \in Faults
    BY <1>6, ThreadFacts DEF Fail, Faults
  <2>. QED  BY <2>1, <2>2, StopKeeps
<1>7. CASE /\ hand[t].open /\ FreeFrom(m, 0) # {}
           /\ Inherited(t, [Counted(m, 1) EXCEPT !.fdm_fre = NextFree(m)], NextFree(m))
  <2>1. PICK fd \in 0..m.fdm_fda - 1 : fd = NextFree(m) /\ m.fdm_fdv[fd].data = NoFile
    BY <1>7, NextFreeFacts
  <2>2. FileAt(m, fd) = NoFile /\ fd \in 0..fdm_max
    BY <1>3, <2>1, VectorFacts
  <2>3. PICK v \in Man : v = Counted(m, 1)
    BY OneMoreFacts
  <2>4. /\ SameFiles(m, v) /\ v.fdm_cnt = m.fdm_cnt + 1 /\ v.fdm_fda = m.fdm_fda
        /\ Clean(m) => Clean(v)
    BY <2>3, OneMoreFacts
  <2>5. PICK w \in Man : w = [v EXCEPT !.fdm_fre = fd]
    BY <2>2, HintFacts, Zenon
  <2>6. /\ SameFiles(v, w) /\ w.fdm_cnt = v.fdm_cnt /\ w.fdm_fda = v.fdm_fda
        /\ Clean(v) => Clean(w)
    BY <2>2, <2>5, NewHintFacts
  <2>7. SameFiles(m, w)
    BY <2>4, <2>6 DEF SameFiles
  <2>8. Inherited(t, w, fd)
    BY <1>7, <2>1, <2>3, <2>5
  <2>. QED  BY <1>1, <1>2, <1>7, <2>1, <2>2, <2>4, <2>6, <2>7, <2>8, InsertKeeps, Zenon
<1>8. CASE /\ hand[t].open /\ m.fdm_cnt = m.fdm_fda /\ m.fdm_cnt # fdm_max
           /\ Inherited(t, [Counted(Resized(m, Min({IF m.fdm_fda = 0 THEN 2 ELSE 2 * m.fdm_fda, fdm_max})), 1)
                              EXCEPT !.fdm_fre = m.fdm_fda + 1], m.fdm_fda)
  <2>1. PICK a \in 0..fdm_max :
          a = Min({IF m.fdm_fda = 0 THEN 2 ELSE 2 * m.fdm_fda, fdm_max}) /\ m.fdm_fda < a
    <3>1. PICK d \in Nat : d = (IF m.fdm_fda = 0 THEN 2 ELSE 2 * m.fdm_fda) /\ m.fdm_fda < d
      BY <1>3
    <3>2. {d, fdm_max} \subseteq Nat /\ {d, fdm_max} # {}
      BY <1>3
    <3>3. Min({d, fdm_max}) \in {d, fdm_max} /\ Min({d, fdm_max}) <= fdm_max
      BY <3>2, MinIs
    <3>4. PICK a \in Nat : a = Min({d, fdm_max}) /\ (a = d \/ a = fdm_max) /\ a <= fdm_max
      BY <1>3, <3>3
    <3>5. a \in 0..fdm_max /\ m.fdm_fda < a
      BY <1>3, <1>8, <3>1, <3>4
    <3>. QED  BY <3>1, <3>4, <3>5
  <2>2. PICK v \in Man : v = Counted(Resized(m, a), 1)
    BY <1>3, <2>1, GrownFacts
  <2>3. /\ SameFiles(m, v) /\ v.fdm_cnt = m.fdm_cnt + 1 /\ v.fdm_fda = a
        /\ Clean(m) => Clean(v)
    BY <1>3, <2>1, <2>2, GrownFacts
  <2>4. PICK r \in 0..fdm_max : r = m.fdm_fda + 1
    BY <1>3, <2>1
  <2>5. PICK w \in Man : w = [v EXCEPT !.fdm_fre = r]
    BY HintFacts, Zenon
  <2>6. /\ SameFiles(v, w) /\ w.fdm_cnt = v.fdm_cnt /\ w.fdm_fda = v.fdm_fda
        /\ Clean(v) => Clean(w)
    BY <2>5, NewHintFacts
  <2>7. SameFiles(m, w)
    BY <2>3, <2>6 DEF SameFiles
  <2>8. PICK fd \in 0..w.fdm_fda - 1 : fd = m.fdm_fda
    BY <1>3, <2>1, <2>3, <2>6
  <2>9. Inherited(t, w, fd)
    BY <1>8, <2>1, <2>2, <2>4, <2>5, <2>8, ZenonT(30)
  <2>10. FileAt(m, fd) = NoFile
    <3>1. fd \in Fds /\ fd \notin Special
      BY <2>8, VectorFacts
    <3>2. fd \notin 0..m.fdm_fda - 1
      BY <1>3, <2>8
    <3>. QED  BY <3>1, <3>2, FileAtFacts
  <2>. QED  BY <1>1, <1>2, <1>8, <2>3, <2>6, <2>7, <2>9, <2>10, InsertKeeps, ZenonT(30)
<1>9. CASE Rejected(t)
  BY <1>2, <1>9, RejectedKeeps, Zenon
<1>. QED  BY <1>1, <1>5, <1>6, <1>7, <1>8, <1>9, Zenon DEF InsFd

\* A descriptor behind the vector names nothing; the vector grows for it.
LEMMA AppendKeeps ==
  ASSUME IInv, NEW t \in FdThreads, NEW op, Running(t, op), op \in Inserting, hand[t].open,
         NEW fd \in 0..fdm_max - 1, fd >= fdman[ProcOf[t]].fdm_fda,
         Inherited(t, Counted(Resized(fdman[ProcOf[t]], fd + 1), 1), fd)
  PROVE  Refines
<1>1. PICK m \in Man : m = fdman[ProcOf[t]]
  BY ThreadFacts
<1>2. m.fdm_cnt \in Nat /\ m.fdm_fda \in Nat /\ m.fdm_fda <= fdm_max /\ fdm_max \in Nat
  BY ManFacts, FdFacts, Zenon
<1>3. PICK a \in 0..fdm_max : a = fd + 1 /\ m.fdm_fda <= a
  BY <1>1, <1>2, SMTT(20)
<1>4. PICK w \in Man : w = Counted(Resized(m, a), 1)
  BY <1>3, GrownFacts, Zenon
<1>5. /\ SameFiles(m, w) /\ w.fdm_cnt = m.fdm_cnt + 1 /\ w.fdm_fda = a
      /\ Clean(m) => Clean(w)
  BY <1>3, <1>4, GrownFacts, ZenonT(30)
<1>6. fd \in 0..w.fdm_fda - 1
  BY <1>3, <1>5, SMTT(20)
<1>7. FileAt(m, fd) = NoFile
  <2>1. fd \in Fds /\ fd \notin Special
    BY FdFacts
  <2>2. fd \notin 0..m.fdm_fda - 1
    BY <1>1, <1>2
  <2>. QED  BY <2>1, <2>2, FileAtFacts, Zenon
<1>8. Inherited(t, w, fd)
  BY <1>1, <1>3, <1>4, Zenon
<1>. QED  BY <1>1, <1>5, <1>6, <1>7, <1>8, InsertKeeps, ZenonT(30)

\* A slot of the vector that names nothing is taken.
LEMMA FillKeeps ==
  ASSUME IInv, NEW t \in FdThreads, NEW op, Running(t, op), op \in Inserting, hand[t].open,
         NEW fd \in 0..fdman[ProcOf[t]].fdm_fda - 1,
         \/ ~fdman[ProcOf[t]].fdm_fdv[fd].open
         \/ fdman[ProcOf[t]].fdm_fdv[fd].data = NoFile,
         Inherited(t, Counted(fdman[ProcOf[t]], 1), fd)
  PROVE  Refines
<1>1. PICK m \in Man : m = fdman[ProcOf[t]]
  BY ThreadFacts, Zenon
<1>2. FileAt(m, fd) = NoFile
  BY <1>1, VectorFacts, ZenonT(30)
<1>3. PICK w \in Man : w = Counted(m, 1)
  BY OneMoreFacts, Zenon
<1>4. /\ SameFiles(m, w) /\ w.fdm_cnt = m.fdm_cnt + 1 /\ w.fdm_fda = m.fdm_fda
      /\ Clean(m) => Clean(w)
  BY <1>3, OneMoreFacts, Zenon
<1>. QED  BY <1>1, <1>2, <1>3, <1>4, InsertKeeps, Zenon

\* kproc_insfdat_inherited
LEMMA InsFdAtKeeps ==
  ASSUME IInv, NEW t \in FdThreads, InsFdAt(t)
  PROVE  Refines
<1>1. PICK m \in Man : m = fdman[ProcOf[t]]
  BY ThreadFacts
<1>2. Running(t, "insat") /\ "insat" \in Inserting /\ fdpc[t].op = "insat"
  BY ZenonT(30) DEF InsFdAt, Inserting, Running
<1>3. m.fdm_cnt \in Nat /\ m.fdm_fda \in Nat /\ m.fdm_fda <= fdm_max /\ fdm_max \in Nat
  BY ManFacts, FdFacts
<1>4. NoCloses => Counts(m) /\ Fits(m)
  BY <1>1, ThreadFacts, ZenonT(30)
<1>5. PICK fd \in Fds \cup {fdm_max} : fd = fdpc[t].fd
  BY ThreadFacts, Zenon DEF Pc
<1>6. CASE (~hand[t].open \/ m.fdm_cnt > m.fdm_fda) /\ Fail("assert")
  <2>1. ~Sound
    BY <1>1, <1>2, <1>6, InsertAsserts, Zenon
  <2>2. Stop("assert") /\ fdleft' \in Nat /\ "assert" \in Faults
    BY <1>6, ThreadFacts, ZenonT(30) DEF Fail, Faults
  <2>. QED  BY <2>1, <2>2, StopKeeps, ZenonT(30)
<1>7. CASE hand[t].open /\ fd \in Special /\ At(m, fd).open /\ Replaced(t, m, fd)
  <2>1. fd \in Fds /\ HasSlot(m, fd)
    BY <1>7, FdFacts DEF HasSlot
  <2>. QED  BY <1>1, <1>2, <1>7, <2>1, ReplacedKeeps
<1>8. CASE hand[t].open /\ fd \in Special /\ ~At(m, fd).open /\ Inherited(t, m, fd)
  <2>1. fd \in Fds /\ HasSlot(m, fd)
    BY <1>8, FdFacts DEF HasSlot
  <2>2. FileAt(m, fd) = NoFile
    BY <1>8, <2>1, ZenonT(30) DEF FileAt
  <2>3. PICK s \in Slot : s = hand[t] /\ s.open
    BY <1>8, ThreadFacts
  <2>4. /\ WithSlot(m, fd, s) \in Man /\ Sets(m, WithSlot(m, fd, s), fd, FileOf(s))
        /\ NoCloses => Counts(WithSlot(m, fd, s)) /\ Fits(WithSlot(m, fd, s))
    BY <1>4, <1>8, <2>1, <2>3, ReplaceFacts, Zenon
  <2>. QED  BY <1>1, <1>2, <1>8, <2>1, <2>2, <2>3, <2>4, InheritedKeeps, Zenon
<1>9. CASE hand[t].open /\ fd >= 0 /\ fd < m.fdm_fda /\ At(m, fd).data # NoFile /\ Replaced(t, m, fd)
  <2>1. fd \in 0..m.fdm_fda - 1
    BY <1>3, <1>9, FdFacts, SMTT(20)
  <2>2. fd \in Fds /\ HasSlot(m, fd) /\ (Clean(m) => FileAt(m, fd) # NoFile)
    BY <1>9, <2>1, VectorFacts, Zenon
  <2>. QED  BY <1>1, <1>2, <1>4, <1>9, <2>2, ReplacedKeeps, Zenon DEF Counts
<1>10. CASE /\ hand[t].open /\ fd >= 0 /\ fd < m.fdm_fda /\ ~(At(m, fd).data # NoFile)
            /\ Inherited(t, Counted(m, 1), fd)
  <2>1. fd \in 0..m.fdm_fda - 1
    BY <1>3, <1>10, FdFacts
  <2>2. m.fdm_fdv[fd].data = NoFile
    BY <1>10, <2>1, VectorFacts, Zenon
  <2>. QED  BY <1>1, <1>2, <1>10, <2>1, <2>2, FillKeeps, ZenonT(30)
<1>11. CASE /\ hand[t].open /\ fd >= 0 /\ fd < fdm_max /\ fd >= m.fdm_fda
            /\ Inherited(t, Counted(Resized(m, fd + 1), 1), fd)
  <2>1. fd \in 0..fdm_max - 1
    BY <1>3, <1>11, FdFacts
  <2>. QED  BY <1>1, <1>2, <1>11, <2>1, AppendKeeps
<1>12. CASE Rejected(t)
  BY <1>2, <1>12, RejectedKeeps, Zenon
<1>. QED  BY <1>1, <1>5, <1>6, <1>7, <1>8, <1>9, <1>10, <1>11, <1>12, ZenonT(30) DEF InsFdAt

\* kproc_insfdh_inherited
LEMMA InsFdHKeeps ==
  ASSUME IInv, NEW t \in FdThreads, InsFdH(t)
  PROVE  Refines
<1>1. PICK m \in Man : m = fdman[ProcOf[t]]
  BY ThreadFacts
<1>2. Running(t, "insh") /\ "insh" \in Inserting /\ fdpc[t].op = "insh"
  BY ZenonT(30) DEF InsFdH, Inserting, Running
<1>3. m.fdm_cnt \in Nat /\ m.fdm_fda \in Nat /\ m.fdm_fda <= fdm_max /\ fdm_max \in Nat
  BY ManFacts, FdFacts
<1>4. NoCloses => Counts(m)
  BY <1>1, ThreadFacts
<1>5. CASE (~hand[t].open \/ m.fdm_cnt > m.fdm_fda) /\ Fail("assert")
  <2>1. ~Sound
    BY <1>1, <1>2, <1>5, InsertAsserts
  <2>2. Stop("assert") /\ fdleft' \in Nat /\ "assert" \in Faults
    BY <1>5, ThreadFacts DEF Fail, Faults
  <2>. QED  BY <2>1, <2>2, StopKeeps
<1>6. PICK closed : closed = {j \in fdpc[t].fd..m.fdm_fda - 1 : ~m.fdm_fdv[j].open}
  BY Zenon
<1>7. CASE hand[t].open /\ closed # {} /\ Inherited(t, Counted(m, 1), Min(closed))
  <2>1. PICK i \in Fds \cup {fdm_max} : i = fdpc[t].fd /\ i >= 0
    BY <1>2, ThreadFacts DEF Pc
  <2>3. closed \subseteq 0..m.fdm_fda - 1 /\ closed \subseteq Nat
    BY <1>3, <1>6, <2>1, FdFacts
  <2>4. Min(closed) \in closed
    BY <1>7, <2>3, MinIs, Zenon
  <2>5. PICK fd \in 0..m.fdm_fda - 1 : fd = Min(closed) /\ ~m.fdm_fdv[fd].open
    BY <1>6, <2>3, <2>4, Zenon
  <2>. QED  BY <1>1, <1>2, <1>7, <2>5, FillKeeps, ZenonT(30)
<1>8. CASE /\ hand[t].open /\ m.fdm_fda < fdm_max
           /\ Inherited(t, Counted(Resized(m, m.fdm_fda + 1), 1), m.fdm_fda)
  <2>1. PICK fd \in 0..fdm_max - 1 : fd = m.fdm_fda /\ fd >= m.fdm_fda
    BY <1>3, <1>8
  <2>. QED  BY <1>1, <1>2, <1>8, <2>1, AppendKeeps
<1>9. CASE Rejected(t)
  BY <1>2, <1>9, RejectedKeeps
<1>. QED  BY <1>1, <1>5, <1>6, <1>7, <1>8, <1>9, ZenonT(30) DEF InsFdH

\* An open descriptor of the vector is counted.
LEMMA OpenIsCounted ==
  ASSUME NEW m \in Man, Counts(m), NEW fd \in Fds, fd \notin Special, FileAt(m, fd) # NoFile
  PROVE  m.fdm_cnt > 0
<1>1. fd \in OpenFds(m)
  BY FdFacts, OpenFacts, Zenon
<1>. QED  BY <1>1, OpenFacts, ManFacts DEF Counts

\* kproc_closefd
LEMMA CloseFdKeeps ==
  ASSUME IInv, NEW t \in FdThreads, CloseFd(t)
  PROVE  Refines
<1>1. PICK m \in Man : m = fdman[ProcOf[t]]
  BY ThreadFacts
<1>2. fdpc[t].op = "idle" /\ ProcOf[t] \in live /\ HandFile(t) = NoFile
  BY ThreadFacts, ZenonT(30) DEF CloseFd, Running
<1>3. PICK fd \in Fds :
        /\ fd \in Special => "closespecial" \in fduse.calls
        /\ HasSlot(m, fd) /\ At(m, fd).open
        /\ \/ (m.fdm_cnt = 0 \/ ~TrimAsserts(Counted(WithSlot(m, fd, NoSlot), -1))) /\ "close" \in fduse.calls /\ Fail("assert")
           \/ /\ m.fdm_cnt > 0
              /\ TrimAsserts(Counted(WithSlot(m, fd, NoSlot), -1))
              /\ FdPay("close")
              /\ \E mem \in Mem : Store(t, Trimmed(Counted(WithSlot(m, fd, NoSlot), -1), mem))
              /\ hand' = [hand EXCEPT ![t] = At(m, fd)]
              /\ Then(t, "drop")
              /\ UNCHANGED <<live, frefs, fault, fduse>>
  BY <1>1, Zenon DEF CloseFd
<1>4. PICK rest : rest = Counted(WithSlot(m, fd, NoSlot), -1)
  BY Zenon
<1>5. PICK s \in Slot : s = At(m, fd) /\ s.open /\ FileOf(s) = FileAt(m, fd) /\ FileOf(s) # NoFile
  BY <1>3, FileAtFacts, SlotFacts, ZenonT(30) DEF FileOf
<1>6. NoCloses => fd \notin Special /\ Counts(m) /\ m.fdm_cnt > 0
  BY <1>1, <1>3, <1>5, ThreadFacts, OpenIsCounted, Zenon DEF NoCloses
<1>7. m.fdm_cnt \in Nat
  BY ManFacts, Zenon
<1>8. ASSUME m.fdm_cnt > 0
      PROVE  rest \in Man /\ Sets(m, rest, fd, NoFile) /\ (NoCloses => Counts(rest))
  BY <1>3, <1>4, <1>5, <1>6, <1>8, RemoveFacts, SlotFacts, Zenon
<1>9. CASE (m.fdm_cnt = 0 \/ ~TrimAsserts(rest)) /\ Fail("assert")
  <2>1. ASSUME Sound
        PROVE  FALSE
    <3>1. NoCloses
      BY <2>1, ThreadFacts
    <3>2. m.fdm_cnt > 0
      BY <1>6, <3>1
    <3>3. rest \in Man /\ Counts(rest)
      BY <1>8, <3>1, <3>2
    <3>4. TrimAsserts(rest)
      BY <3>3, CountedTable, ZenonT(30)
    <3>. QED  BY <1>7, <1>9, <3>2, <3>4
  <2>2. Stop("assert") /\ fdleft' \in Nat /\ "assert" \in Faults
    BY <1>9, ThreadFacts DEF Fail, Faults
  <2>. QED  BY <2>1, <2>2, StopKeeps, Zenon
<1>10. CASE /\ m.fdm_cnt > 0
           /\ FdPay("close")
           /\ \E mem \in Mem : Store(t, Trimmed(rest, mem))
           /\ hand' = [hand EXCEPT ![t] = At(m, fd)]
           /\ Then(t, "drop")
           /\ UNCHANGED <<live, frefs, fault, fduse>>
  <2>1. rest \in Man /\ Sets(m, rest, fd, NoFile) /\ (NoCloses => Counts(rest))
    BY <1>8, <1>10
  <2>2. PICK n \in Man : /\ fdman' = [fdman EXCEPT ![ProcOf[t]] = n] /\ SameFiles(rest, n)
                         /\ NoCloses => Counts(n) /\ Fits(n)
    BY <1>10, <2>1, TrimFacts, Zenon DEF Store
  <2>3. Sets(m, n, fd, HandFile(t))
    BY <1>2, <2>1, <2>2 DEF Sets, SameFiles
  <2>4. PICK c \in Pc : c = Todo("drop", 0) /\ c.op = "drop"
    BY PcFacts DEF Ops
  <2>5. fdleft' \in Nat
    BY <1>10, PayFacts
  <2>6. Moves(t, n, s, c)
    BY <1>2, <1>5, <1>10, <2>2, <2>4, <2>5, Zenon DEF Moves, Then, ThenAt, Inserting
  <2>. QED  BY <1>1, <1>2, <1>5, <1>10, <2>3, <2>4, <2>6, SwapsCell, Zenon
<1>. QED  BY <1>3, <1>4, <1>9, <1>10, ZenonT(30)

\* kproc_closeall closes one descriptor.
LEMMA CloseSlotKeeps ==
  ASSUME IInv, NEW t \in FdThreads, fdpc[t].op \in {"idle", "closing"}, ProcOf[t] \in live,
         ~NoCloses, fdleft' \in Nat, NEW w \in Man, SameFiles(fdman[ProcOf[t]], w), w.fdm_cnt > 0,
         NEW fd \in Fds, FileAt(w, fd) # NoFile, NEW c \in Pc, c.op = "dropall",
         CloseSlot(t, w, fd, c)
  PROVE  Refines
<1>1. HasSlot(w, fd) /\ At(w, fd).open
  BY ZenonT(30) DEF FileAt
<1>2. PICK s \in Slot : s = At(w, fd) /\ s.open /\ FileOf(s) = FileAt(w, fd)
  BY <1>1, FileAtFacts
<1>3. PICK e \in Slot : e = [s EXCEPT !.open = FALSE] /\ ~e.open
  <2>1. [s EXCEPT !.open = FALSE] \in Slot
    BY Zenon DEF Slot
  <2>2. ~[s EXCEPT !.open = FALSE].open
    BY DEF Slot
  <2>. QED  BY <2>1, <2>2, Zenon
<1>4. PICK n \in Man : n = Counted(WithSlot(w, fd, e), -1) /\ Sets(w, n, fd, NoFile)
  BY <1>1, <1>3, RemoveFacts, ZenonT(30)
<1>5. HandFile(t) = NoFile /\ FileOf(s) = FileAt(fdman[ProcOf[t]], fd)
  BY <1>2, ThreadFacts, ZenonT(30) DEF SameFiles
<1>6. Sets(fdman[ProcOf[t]], n, fd, HandFile(t))
  BY <1>4, <1>5 DEF Sets, SameFiles
<1>7. fdman' = [fdman EXCEPT ![ProcOf[t]] = n] /\ hand' = [hand EXCEPT ![t] = s]
  BY <1>2, <1>3, <1>4, ZenonT(30) DEF CloseSlot, Store
<1>8. ~Sound
  BY ThreadFacts, ZenonT(30)
<1>9. Moves(t, n, s, c)
  BY <1>7, <1>8, Zenon DEF Moves, CloseSlot
<1>10. frefs' = frefs
  BY ZenonT(30) DEF CloseSlot
<1>. QED  BY <1>2, <1>5, <1>6, <1>9, <1>10, SwapsCell, ZenonT(30)

\* What kproc_closeall has left to do after one more descriptor.
LEMMA LeftFacts ==
  ASSUME NEW reg \in Seq(Nat), NEW spec \in Seq(Special), NEW n \in Nat, NEW trim \in BOOLEAN
  PROVE  Left(reg, spec, n, trim) \in Pc /\ Left(reg, spec, n, trim).op = "dropall"
<1>1. "dropall" \in Ops /\ 0 \in Fds
  BY PcFacts DEF Ops
<1>. QED  BY <1>1 DEF Left, Pc

\* The tail of a sequence.
LEMMA TailFacts ==
  ASSUME NEW S, NEW q \in Seq(S), NEW k \in 1..Len(q)
  PROVE  SubSeq(q, k + 1, Len(q)) \in Seq(S) /\ q[k] \in S
OBVIOUS

\* kproc_closeall between two regions under the lock
LEMMA CloseSomeKeeps ==
  ASSUME IInv, NEW t \in FdThreads, fdpc[t].op \in {"idle", "closing"}, ProcOf[t] \in live,
         ~NoCloses, fdleft' \in Nat, NEW c \in Pc, CloseSome(t, c)
  PROVE  Refines
<1>1. PICK m \in Man : m = fdman[ProcOf[t]]
  BY ThreadFacts, Zenon
<1>2. m.fdm_cnt \in Nat /\ m.fdm_fda \in Nat /\ m.fdm_fda <= fdm_max /\ fdm_max \in Nat
  BY ManFacts, FdFacts
<1>3. c.reg \in Seq(Nat) /\ c.spec \in Seq(Special) /\ c.n + 1 \in Nat /\ c.trim \in BOOLEAN
  BY DEF Pc
<1>4. ~Sound /\ {"assert", "bounds"} \subseteq Faults
  BY ThreadFacts, Zenon DEF Faults
<1>5. PICK hit : hit = {k \in 1..Len(c.reg) : c.reg[k] >= m.fdm_fda \/ m.fdm_fdv[c.reg[k]].open}
  BY Zenon
<1>6. PICK special : special = {k \in 1..Len(c.spec) : m.special[c.spec[k]].open}
  BY Zenon
<1>7. CASE Stop("bounds") \/ Stop("assert")
  BY <1>4, <1>7, StopKeeps
<1>8. CASE /\ hit # {} /\ c.reg[Min(hit)] < m.fdm_fda /\ m.fdm_cnt > 0
           /\ CloseSlot(t, m, c.reg[Min(hit)],
                        Left(SubSeq(c.reg, Min(hit) + 1, Len(c.reg)), c.spec, c.n + 1, c.trim))
  <2>1. hit \subseteq Nat /\ hit \subseteq 1..Len(c.reg)
    BY <1>3, <1>5
  <2>2. PICK k \in 1..Len(c.reg) : k = Min(hit) /\ k \in hit
    BY <1>8, <2>1, MinIs, Zenon
  <2>3. PICK r \in Seq(Nat) : r = SubSeq(c.reg, k + 1, Len(c.reg))
    BY <1>3, TailFacts, Zenon
  <2>4. PICK fd \in Nat : fd = c.reg[k]
    BY <1>3, TailFacts
  <2>5. fd < m.fdm_fda /\ fd \in 0..m.fdm_fda - 1 /\ m.fdm_fdv[fd].open
    <3>1. fd < m.fdm_fda /\ fd \in 0..m.fdm_fda - 1
      BY <1>2, <1>8, <2>2, <2>4, SMTT(20)
    <3>2. fd >= m.fdm_fda \/ m.fdm_fdv[fd].open
      BY <1>5, <2>2, <2>4, Zenon
    <3>3. ~(fd >= m.fdm_fda)
      BY <1>2, <3>1
    <3>. QED  BY <3>1, <3>2, <3>3, ZenonT(30)
  <2>6. fd \in Fds /\ FileAt(m, fd) # NoFile
    <3>1. fd \in Fds /\ m.fdm_fdv[fd] \in Slot
      BY <2>5, VectorFacts, Zenon
    <3>2. FileAt(m, fd) = FileOf(m.fdm_fdv[fd])
      BY <2>5, <3>1, FileAtFacts
    <3>. QED  BY <2>5, <3>1, <3>2, SlotFacts, Zenon DEF FileOf
  <2>7. PICK d \in Pc : d = Left(r, c.spec, c.n + 1, c.trim) /\ d.op = "dropall"
    BY <1>3, LeftFacts, Zenon
  <2>8. CloseSlot(t, m, fd, d)
    BY <1>8, <2>2, <2>3, <2>4, <2>7, Zenon
  <2>. QED  BY <1>1, <1>8, <2>6, <2>7, <2>8, SameFilesSelf, CloseSlotKeeps, ZenonT(30)
<1>9. ASSUME NEW mem
      PROVE  \E left \in Man : /\ left = IF c.trim /\ c.n > 0 THEN Trimmed(m, mem) ELSE m
                               /\ SameFiles(m, left) /\ left.fdm_cnt = m.fdm_cnt
  BY <1>3, TrimFacts, SameFilesSelf, ZenonT(30)
<1>10. ASSUME NEW mem, special = {},
              Store(t, IF c.trim /\ c.n > 0 THEN Trimmed(m, mem) ELSE m), Then(t, "idle"),
              UNCHANGED <<live, frefs, hand, fault, fduse>>
       PROVE  Refines
  <2>1. PICK n \in Man : /\ n = IF c.trim /\ c.n > 0 THEN Trimmed(m, mem) ELSE m
                         /\ SameFiles(m, n)
    BY <1>9
  <2>2. PICK d \in Pc : d = Todo("idle", 0) /\ d.op = "idle"
    BY PcFacts DEF Ops
  <2>3. hand' = [hand EXCEPT ![t] = hand[t]]
    BY <1>10 DEF IInv, FdInv, FdTypeOK
  <2>4. Moves(t, n, hand[t], d)
    BY <1>4, <1>10, <2>1, <2>2, <2>3, ThreadFacts, ZenonT(30) DEF Moves, Store, Then, ThenAt
  <2>5. ASSUME NEW x \in Files
        PROVE  frefs'[x] + One(HandFile(t) = x) = frefs[x] + One(FileOf(hand[t]) = x)
    BY <1>10, ThreadFacts, Zenon
  <2>6. frefs' \in [Files -> 0..RefMax] /\ FileOf(hand[t]) = HandFile(t)
    BY <1>10, ThreadFacts, ZenonT(30)
  <2>7. hand[t] \in Slot
    BY ThreadFacts
  <2>8. fdpc[t].op = "closing" \/ fdpc[t].op = d.op
    BY <2>2
  <2>9. SameFiles(fdman[ProcOf[t]], n)
    BY <1>1, <2>1, Zenon
  <2>. QED  BY <2>2, <2>4, <2>5, <2>6, <2>7, <2>8, <2>9, KeepsCells, ZenonT(30)
<1>11. ASSUME NEW mem, special # {}, m.fdm_cnt > 0,
              CloseSlot(t, IF c.trim /\ c.n > 0 THEN Trimmed(m, mem) ELSE m, c.spec[Min(special)],
                Left(<<>>, SubSeq(c.spec, Min(special) + 1, Len(c.spec)), c.n + 1, FALSE))
       PROVE  Refines
  <2>1. special \subseteq Nat /\ special \subseteq 1..Len(c.spec)
    BY <1>3, <1>6
  <2>2. PICK k \in 1..Len(c.spec) : k = Min(special) /\ k \in special
    BY <1>11, <2>1, MinIs, Zenon
  <2>3. PICK r \in Seq(Special) : r = SubSeq(c.spec, k + 1, Len(c.spec))
    BY <1>3, TailFacts, ZenonT(30)
  <2>4. PICK fd \in Special : fd = c.spec[k]
    BY <1>3, TailFacts
  <2>5. m.special[fd].open /\ fd \in Fds
    BY <1>6, <2>2, <2>4, FdFacts, Zenon
  <2>6. FileAt(m, fd) # NoFile
    <3>1. FileAt(m, fd) = FileOf(m.special[fd]) /\ m.special[fd] \in Slot
      BY <2>5, FileAtFacts, ManFacts, Zenon
    <3>. QED  BY <2>5, <3>1, SlotFacts DEF FileOf
  <2>7. PICK w \in Man : /\ w = IF c.trim /\ c.n > 0 THEN Trimmed(m, mem) ELSE m
                         /\ SameFiles(m, w) /\ w.fdm_cnt = m.fdm_cnt
    BY <1>9
  <2>8. PICK d \in Pc : d = Left(<<>>, r, c.n + 1, FALSE) /\ d.op = "dropall"
    <3>1. <<>> \in Seq(Nat) /\ FALSE \in BOOLEAN
      OBVIOUS
    <3>2. PICK e \in Seq(Nat) : e = <<>>
      BY <3>1, Zenon
    <3>. QED  BY <1>3, <3>1, <3>2, LeftFacts, Zenon
  <2>9. CloseSlot(t, w, fd, d) /\ FileAt(w, fd) # NoFile
    BY <1>11, <2>2, <2>3, <2>4, <2>5, <2>6, <2>7, <2>8, Zenon DEF SameFiles
  <2>. QED  BY <1>1, <1>11, <2>5, <2>7, <2>8, <2>9, CloseSlotKeeps, ZenonT(30)
<1>. QED  BY <1>1, <1>5, <1>6, <1>7, <1>8, <1>10, <1>11, ZenonT(30) DEF CloseSome

\* The range of descriptors kproc_closeall is called with.
LEMMA RangeFacts ==
  /\ \A low \in Int : Max({0, low}) \in Nat
  /\ \A lo \in Nat, hi \in Int : FdRange(lo, hi) \in Seq(Nat)
  /\ \A low, high \in Int :
        InRange(KFD_ROOT, low, high) \o InRange(KFD_CWD, low, high) \in Seq(Special)
<1>1. ASSUME NEW low \in Int PROVE Max({0, low}) \in Nat
  <2>1. \E x \in {0, low} : \A y \in {0, low} : x >= y
    BY <1>1
  <2>2. Max({0, low}) \in {0, low} /\ Max({0, low}) >= 0
    BY <2>1 DEF Max
  <2>. QED  BY <2>2
<1>2. ASSUME NEW lo \in Nat, NEW hi \in Int PROVE FdRange(lo, hi) \in Seq(Nat)
  <2>1. PICK k \in Nat : k = IF hi < lo THEN 0 ELSE hi - lo + 1
    <3>1. (IF hi < lo THEN 0 ELSE hi - lo + 1) \in Nat
      OBVIOUS
    <3>. QED  BY <3>1, Zenon
  <2>2. [i \in 1..k |-> lo + i - 1] \in Seq(Nat)
    <3>1. \A i \in 1..k : lo + i - 1 \in Nat
      OBVIOUS
    <3>. QED  BY <3>1
  <2>. QED  BY <2>1, <2>2 DEF FdRange
<1>3. ASSUME NEW low \in Int, NEW high \in Int
      PROVE  InRange(KFD_ROOT, low, high) \o InRange(KFD_CWD, low, high) \in Seq(Special)
  <2>1. ASSUME NEW fd \in Special PROVE InRange(fd, low, high) \in Seq(Special)
    BY DEF InRange
  <2>2. InRange(KFD_ROOT, low, high) \in Seq(Special) /\ InRange(KFD_CWD, low, high) \in Seq(Special)
    BY <2>1, ZenonT(30) DEF Special
  <2>. QED  BY <2>2
<1>. QED  BY <1>1, <1>2, <1>3, Zenon

\* kproc_closeall
LEMMA CloseAllKeeps ==
  ASSUME IInv, NEW t \in FdThreads, CloseAll(t)
  PROVE  Refines
<1>1. PICK m \in Man : m = fdman[ProcOf[t]]
  BY ThreadFacts
<1>2. m.fdm_fda \in Nat /\ m.fdm_fda <= fdm_max /\ fdm_max \in Nat
  BY ManFacts, FdFacts, Zenon
<1>3. fdpc[t].op = "idle" /\ ProcOf[t] \in live
  BY Zenon DEF CloseAll, Running
<1>. DEFINE Called(low, high, last, first) ==
              /\ last = IF m.fdm_fda = 0 THEN high ELSE Min({high, m.fdm_fda - 1})
              /\ first = Max({0, low})
              /\ FdPay("closeall")
              /\ IF high >= 0 /\ last + 1 < first
                 THEN Stop("assert")
                 ELSE CloseSome(t, [op |-> "closing", fd |-> 0, n |-> 0, trim |-> high >= 0,
                        reg |-> IF high >= 0 THEN FdRange(first, last) ELSE <<>>,
                        spec |-> InRange(KFD_ROOT, low, high) \o InRange(KFD_CWD, low, high)])
<1>15. PICK low \in Int, high \in Int : \E last, first : Called(low, high, last, first)
  <2>1. {KFD_CWD} \cup 0..fdm_max \subseteq Int
    BY <1>2, SMTT(20) DEF KFD_CWD
  <2>. QED  BY <1>1, <2>1, Zenon DEF CloseAll
<1>4. PICK last, first : Called(low, high, last, first)
  BY <1>15, Zenon
<1>5. ~NoCloses /\ ~Sound
  BY <1>4 DEF FdPay, NoCloses, Sound
<1>6. fdleft' \in Nat
  BY <1>4, PayFacts
<1>7. first \in Nat
  BY <1>4, RangeFacts, Zenon
<1>8. high >= 0 => last \in Int
  <2>1. ASSUME high >= 0, m.fdm_fda # 0 PROVE Min({high, m.fdm_fda - 1}) \in Nat
    <3>1. PICK b \in Nat : b = m.fdm_fda - 1
      BY <1>2, <2>1
    <3>2. {high, b} \subseteq Nat /\ {high, b} # {}
      BY <2>1
    <3>. QED  BY <3>1, <3>2, MinIs, Zenon
  <2>. QED  BY <1>4, <2>1
<1>9. PICK reg \in Seq(Nat) : reg = IF high >= 0 THEN FdRange(first, last) ELSE <<>>
  <2>1. <<>> \in Seq(Nat)
    OBVIOUS
  <2>2. high >= 0 => FdRange(first, last) \in Seq(Nat)
    BY <1>7, <1>8, RangeFacts
  <2>3. (IF high >= 0 THEN FdRange(first, last) ELSE <<>>) \in Seq(Nat)
    BY <2>1, <2>2
  <2>. QED  BY <2>3, Zenon
<1>10. PICK spec \in Seq(Special) :
         spec = InRange(KFD_ROOT, low, high) \o InRange(KFD_CWD, low, high)
  BY RangeFacts, Zenon
<1>11. PICK trim \in BOOLEAN : trim = (high >= 0)
  <2>1. (high >= 0) \in BOOLEAN
    OBVIOUS
  <2>. QED  BY <2>1, Zenon
<1>12. PICK c \in Pc : c = [op |-> "closing", fd |-> 0, n |-> 0, trim |-> trim, reg |-> reg, spec |-> spec]
  <2>1. "closing" \in Ops /\ 0 \in Fds
    BY PcFacts DEF Ops
  <2>. QED  BY <2>1, Zenon DEF Pc
<1>13. CASE Stop("assert")
  BY <1>5, <1>6, <1>13, StopKeeps DEF Faults
<1>14. CASE CloseSome(t, c)
  BY <1>3, <1>5, <1>6, <1>14, CloseSomeKeeps
<1>. QED  BY <1>4, <1>9, <1>10, <1>11, <1>12, <1>13, <1>14

\* kproc_closeall takes the lock again, or returns.
LEMMA CloseAllGoesOnKeeps ==
  ASSUME IInv, NEW t \in FdThreads, CloseAllGoesOn(t)
  PROVE  Refines
<1>1. fdpc[t].op = "closing" /\ ProcOf[t] \in live /\ fdleft' \in Nat /\ fdpc[t] \in Pc
  BY ThreadFacts, Zenon DEF CloseAllGoesOn, Running
<1>2. ~NoCloses /\ ~Sound
  BY <1>1, ThreadFacts, Zenon
<1>3. CASE CloseSome(t, fdpc[t])
  BY <1>1, <1>2, <1>3, CloseSomeKeeps, Zenon
<1>4. CASE Then(t, "idle") /\ UNCHANGED <<fdman, live, frefs, hand, fault, fduse>>
  <2>1. PICK d \in Pc : d = Todo("idle", 0) /\ d.op = "idle"
    BY PcFacts DEF Ops
  <2>2. /\ fdman' = [fdman EXCEPT ![ProcOf[t]] = fdman[ProcOf[t]]]
        /\ hand' = [hand EXCEPT ![t] = hand[t]]
    BY <1>4 DEF IInv, FdInv, FdTypeOK
  <2>3. Moves(t, fdman[ProcOf[t]], hand[t], d)
    BY <1>1, <1>2, <1>4, <2>1, <2>2, ThreadFacts, ZenonT(30) DEF Moves, Then, ThenAt
  <2>4. ASSUME NEW x \in Files
        PROVE  frefs'[x] + One(HandFile(t) = x) = frefs[x] + One(FileOf(hand[t]) = x)
    BY <1>4, ThreadFacts, ZenonT(30)
  <2>5. frefs' \in [Files -> 0..RefMax] /\ FileOf(hand[t]) = HandFile(t)
    BY <1>4, ThreadFacts
  <2>. QED  BY <1>1, <2>1, <2>3, <2>4, <2>5, ThreadFacts, SameFilesSelf, KeepsCells, Zenon
<1>. QED  BY <1>3, <1>4, Zenon DEF CloseAllGoesOn

----------------------------------------------------------------------------
(* Processes *)

\* The table kfdman_init leaves.
LEMMA NewManFacts ==
  /\ NewMan \in Man /\ Counts(NewMan) /\ Fits(NewMan)
  /\ \A fd \in Fds : FileAt(NewMan, fd) = NoFile
<1>1. PICK v, sp : v = <<>> /\ sp = [fd \in Special |-> NoSlot]
  BY Zenon
<1>2. /\ 0 \in Nat /\ 0 \in 0..fdm_max /\ v \in [0..0 - 1 -> Slot] /\ sp \in [Special -> Slot]
  BY <1>1, FdFacts, SlotFacts
<1>3. NewMan = [fdm_cnt |-> 0, fdm_fre |-> 0, fdm_fda |-> 0, fdm_fdv |-> v, special |-> sp]
  BY <1>1 DEF NewMan
<1>4. NewMan \in Man
  BY <1>2, <1>3, ManIntro, Zenon
<1>5. NewMan.fdm_cnt = 0 /\ NewMan.fdm_fda = 0 /\ NewMan.special = sp
  BY <1>3
<1>6. OpenFds(NewMan) = {} /\ Clean(NewMan)
  BY <1>5 DEF OpenFds, Clean
<1>7. Counts(NewMan) /\ Fits(NewMan)
  BY <1>5, <1>6, FS_EmptySet DEF Counts, Fits
<1>8. ASSUME NEW fd \in Fds PROVE FileAt(NewMan, fd) = NoFile
  <2>1. CASE fd \in Special
    BY <1>1, <1>4, <1>5, <2>1, FileAtFacts, SlotFacts, ZenonT(30) DEF FileOf
  <2>2. CASE fd \notin Special
    <3>1. fd \notin 0..NewMan.fdm_fda - 1
      BY <1>5
    <3>. QED  BY <1>4, <2>2, <3>1, FileAtFacts
  <2>. QED  BY <2>1, <2>2, Zenon
<1>. QED  BY <1>4, <1>7, <1>8

\* The order in which two parts of a count grow does not matter.
LEMMA AddLast ==
  ASSUME NEW a \in Nat, NEW b \in Nat, NEW r \in Nat
  PROVE  (a + b) + r = (a + r) + b
  OBVIOUS

\* A table is filled or emptied as a whole; the threads do not move.
LEMMA RowKeeps ==
  ASSUME IInv, FdRefs', NEW p \in FdProcs, NEW n \in Man, fdman' = [fdman EXCEPT ![p] = n],
         p \in live' \/ n = NewMan, live' \subseteq FdProcs, live' \cup {p} = live \cup {p},
         frefs' \in [Files -> 0..RefMax], fdleft' \in Nat, NoCloses => Counts(n) /\ Fits(n),
         UNCHANGED <<hand, fdpc, fault, fduse>>
  PROVE  /\ IInv'
         /\ FdTables' = [FdTables EXCEPT ![p] = [fd \in Fds |-> FileAt(n, fd)]]
         /\ FdHeld' = FdHeld /\ FdDoing' = FdDoing
<1>1. fdman \in [FdProcs -> Man]
  BY DEF IInv, FdInv, FdTypeOK
<1>2. fdman' \in [FdProcs -> Man] /\ fdman'[p] = n /\ \A q \in FdProcs : q # p => fdman'[q] = fdman[q]
  BY <1>1
<1>3. FdTypeOK'
  BY <1>2 DEF IInv, FdInv, FdTypeOK
<1>4. \A q \in FdProcs \ live' : fdman'[q] = NewMan
  BY <1>2 DEF IInv, FdInv
<1>5. FdInv'
  BY <1>3, <1>4, ZenonT(30) DEF IInv, FdInv
<1>6. FdCounted'
  BY <1>2 DEF IInv, FdCounted, NoCloses
<1>7. FdSafe'
  BY DEF IInv, FdSafe, Sound
<1>8. FdTables' = [FdTables EXCEPT ![p] = [fd \in Fds |-> FileAt(n, fd)]]
  BY <1>2, Zenon DEF FdTables
<1>9. FdHeld' = FdHeld /\ FdDoing' = FdDoing
  BY DEF FdHeld, FdDoing, HandFile
<1>. QED  BY <1>5, <1>6, <1>7, <1>8, <1>9 DEF IInv

\* kfdman_initcopy
LEMMA ForkKeeps ==
  ASSUME IInv, NEW t \in FdThreads, Fork(t)
  PROVE  Refines
<1>1. PICK m \in Man : m = fdman[ProcOf[t]]
  BY ThreadFacts
<1>2. m.fdm_cnt \in Nat /\ m.fdm_fda \in Nat
  BY ManFacts
<1>3. fdleft' \in Nat
  BY PayFacts DEF Fork
<1>4. PICK q \in FdProcs \ live :
        \/ /\ ~((m.fdm_cnt # 0) = (m.fdm_fda # 0) /\ m.fdm_cnt <= m.fdm_fda)
           /\ Stop("assert")
        \/ /\ \A f \in Files : frefs[f] + FdRefsIn(m, f) <= RefMax
           /\ frefs' = [f \in Files |-> frefs[f] + FdRefsIn(m, f)]
           /\ fdman' = [fdman EXCEPT ![q] = m]
           /\ live' = live \cup {q}
           /\ UNCHANGED <<hand, fdpc, fault, fduse>>
  BY <1>1, ZenonT(30) DEF Fork
<1>5. NoCloses => Counts(m) /\ Fits(m)
  BY <1>1, ThreadFacts
<1>6. CASE /\ ~((m.fdm_cnt # 0) = (m.fdm_fda # 0) /\ m.fdm_cnt <= m.fdm_fda)
           /\ Stop("assert")
  <2>1. ~Sound
    <3>1. ASSUME Sound PROVE m.fdm_cnt <= m.fdm_fda /\ (m.fdm_cnt = 0 <=> m.fdm_fda = 0)
      BY <1>5, <3>1, ThreadFacts, CountedTable, ZenonT(30) DEF Fits
    <3>. QED  BY <1>6, <3>1, Zenon
  <2>. QED  BY <1>3, <1>6, <2>1, StopKeeps DEF Faults
<1>7. CASE /\ \A f \in Files : frefs[f] + FdRefsIn(m, f) <= RefMax
           /\ frefs' = [f \in Files |-> frefs[f] + FdRefsIn(m, f)]
           /\ fdman' = [fdman EXCEPT ![q] = m]
           /\ live' = live \cup {q}
           /\ UNCHANGED <<hand, fdpc, fault, fduse>>
  <2>1. fdman \in [FdProcs -> Man] /\ fdman[q] = NewMan /\ live \subseteq FdProcs
    BY DEF IInv, FdInv, FdTypeOK
  <2>2. fdman' \in [FdProcs -> Man] /\ fdman'[q] = m /\ \A p \in FdProcs : p # q => fdman'[p] = fdman[p]
    BY <1>7, <2>1
  <2>3. ASSUME NEW f \in Files
        PROVE  /\ FdRefsIn(m, f) \in Nat
               /\ Cardinality(CellsIn(fdman', f)) = Cardinality(CellsIn(fdman, f)) + FdRefsIn(m, f)
    <3>1. \A fd \in Fds : FileAt(fdman[q], fd) # f
      BY <2>1, NewManFacts, FdAssumption, ZenonT(30)
    <3>. QED  BY <2>1, <2>2, <3>1, RowCount
  <2>4. ASSUME NEW f \in Files
        PROVE  /\ frefs'[f] = frefs[f] + FdRefsIn(m, f) /\ frefs[f] \in Nat /\ frefs'[f] \in 0..RefMax
    <3>1. frefs \in [Files -> 0..RefMax] /\ RefMax \in Nat
      BY ThreadFacts
    <3>2. PICK g \in 0..RefMax : g = frefs[f]
      BY <3>1
    <3>3. PICK r \in Nat : r = FdRefsIn(m, f)
      BY <2>3, Zenon
    <3>4. frefs'[f] = g + r /\ g + r <= RefMax
      BY <1>7, <3>2, <3>3, Zenon
    <3>5. g \in Nat /\ g + r \in 0..RefMax
      BY <3>1, <3>3, <3>4
    <3>. QED  BY <3>2, <3>3, <3>4, <3>5, Zenon
  <2>5. frefs' \in [Files -> 0..RefMax]
    BY <1>7, <2>4, ZenonT(30)
  <2>6. FdRefs'
    <3>. SUFFICES ASSUME NEW f \in Files
                  PROVE  frefs'[f] = Cardinality(CellsIn(fdman', f)) + Cardinality(HandsIn(hand', f))
      BY RefsAs, ZenonT(30)
    <3>1. frefs[f] = Cardinality(CellsIn(fdman, f)) + Cardinality(HandsIn(hand, f))
      BY RefsAs DEF IInv, FdInv
    <3>2. hand' = hand /\ Cardinality(CellsIn(fdman, f)) \in Nat /\ Cardinality(HandsIn(hand, f)) \in Nat
      BY <1>7, PlacesFinite
    <3>3. Cardinality(HandsIn(hand', f)) = Cardinality(HandsIn(hand, f))
      BY <3>2, Zenon
    <3>4. PICK r \in Nat : /\ r = FdRefsIn(m, f)
                           /\ Cardinality(CellsIn(fdman', f)) = Cardinality(CellsIn(fdman, f)) + r
                           /\ frefs'[f] = frefs[f] + r
      BY <2>3, <2>4, Zenon
    <3>5. PICK a \in Nat, b \in Nat : /\ a = Cardinality(CellsIn(fdman, f))
                                      /\ b = Cardinality(HandsIn(hand, f))
      BY <3>2, Zenon
    <3>6. frefs'[f] = (a + b) + r
      BY <3>1, <3>4, <3>5, Zenon
    <3>7. Cardinality(CellsIn(fdman', f)) + Cardinality(HandsIn(hand', f)) = (a + r) + b
      BY <3>3, <3>4, <3>5, Zenon
    <3>. QED  BY <3>5, <3>6, <3>7, AddLast, Zenon
  <2>7. /\ IInv'
        /\ FdTables' = [FdTables EXCEPT ![q] = [fd \in Fds |-> FileAt(m, fd)]]
        /\ FdHeld' = FdHeld /\ FdDoing' = FdDoing
    BY <1>3, <1>5, <1>7, <2>1, <2>5, <2>6, RowKeeps, ZenonT(30)
  <2>8. Table!CopyTable(ProcOf[t], q)
    <3>1. \A fd \in Fds : FdTables[q][fd] = NoFile
      BY <2>1, NewManFacts DEF FdTables
    <3>2. FdTables[ProcOf[t]] = [fd \in Fds |-> FileAt(m, fd)]
      BY <1>1, ThreadFacts, Zenon DEF FdTables
    <3>. QED  BY <2>7, <3>1, <3>2 DEF Table!CopyTable
  <2>. QED  BY <2>7, <2>8, AliveIsReferred, ThreadFacts, Zenon DEF Refines, Table!ANext
<1>. QED  BY <1>4, <1>6, <1>7

\* kfdman_quit
LEMMA ProcExitKeeps ==
  ASSUME IInv, NEW p \in FdProcs, ProcExit(p)
  PROVE  Refines
<1>1. /\ fdman \in [FdProcs -> Man] /\ live \subseteq FdProcs /\ fdleft \in Nat
      /\ frefs \in [Files -> 0..RefMax] /\ RefMax \in Nat
  BY FdAssumption, ZenonT(30) DEF IInv, FdInv, FdTypeOK
<1>2. /\ p \in live /\ live' = live \ {p} /\ fdman' = [fdman EXCEPT ![p] = NewMan]
      /\ frefs' = [f \in Files |-> frefs[f] - FdRefsIn(fdman[p], f)]
      /\ UNCHANGED <<hand, fdpc, fault, fdleft, fduse>>
      /\ \A t \in FdThreads : ProcOf[t] = p => fdpc[t].op = "idle"
  BY SMTT(20) DEF ProcExit
<1>3. fdman' \in [FdProcs -> Man] /\ fdman'[p] = NewMan /\ \A q \in FdProcs : q # p => fdman[q] = fdman'[q]
  BY <1>1, <1>2, NewManFacts
<1>4. ASSUME NEW f \in Files
      PROVE  /\ FdRefsIn(fdman[p], f) \in Nat
             /\ Cardinality(CellsIn(fdman, f)) = Cardinality(CellsIn(fdman', f)) + FdRefsIn(fdman[p], f)
  <2>1. \A fd \in Fds : FileAt(fdman'[p], fd) # f
    BY <1>3, NewManFacts, FdAssumption
  <2>. QED  BY <1>1, <1>3, <2>1, RowCount
<1>5. ASSUME NEW f \in Files
      PROVE  /\ frefs'[f] = Cardinality(CellsIn(fdman', f)) + Cardinality(HandsIn(hand', f))
             /\ frefs'[f] \in 0..RefMax
  <2>1. frefs[f] = Cardinality(CellsIn(fdman, f)) + Cardinality(HandsIn(hand, f))
    BY RefsAs, Zenon DEF IInv, FdInv
  <2>2. hand' = hand /\ Cardinality(CellsIn(fdman', f)) \in Nat /\ Cardinality(HandsIn(hand, f)) \in Nat
    BY <1>2, PlacesFinite, ZenonT(30)
  <2>3. frefs'[f] = frefs[f] - FdRefsIn(fdman[p], f) /\ frefs[f] \in 0..RefMax
    BY <1>1, <1>2
  <2>. QED  BY <1>1, <1>4, <2>1, <2>2, <2>3, SMTT(20)
<1>6. FdRefs'
  BY <1>5, RefsAs, Zenon
<1>7. frefs' \in [Files -> 0..RefMax]
  BY <1>2, <1>5, Zenon
<1>8. /\ IInv'
      /\ FdTables' = [FdTables EXCEPT ![p] = [fd \in Fds |-> FileAt(NewMan, fd)]]
      /\ FdHeld' = FdHeld /\ FdDoing' = FdDoing
  <2>1. PICK n \in Man : n = NewMan /\ Counts(n) /\ Fits(n)
    BY NewManFacts, Zenon
  <2>2. live' \subseteq FdProcs /\ live' \cup {p} = live \cup {p} /\ fdleft' \in Nat
    BY <1>1, <1>2
  <2>. QED  BY <1>2, <1>6, <1>7, <2>1, <2>2, RowKeeps, Zenon
<1>9. Table!EmptyTable(p)
  <2>1. [fd \in Fds |-> FileAt(NewMan, fd)] = [fd \in Fds |-> NoFile]
    BY NewManFacts
  <2>2. \A t \in FdThreads : ProcOf[t] = p => FdDoing[t] = "idle"
    BY <1>2 DEF FdDoing
  <2>. QED  BY <1>8, <2>1, <2>2, Zenon DEF Table!EmptyTable
<1>. QED  BY <1>8, <1>9, AliveIsReferred DEF Refines, Table!ANext

----------------------------------------------------------------------------
(* The theorems *)

\* At the start the tables are empty and no file exists.
LEMMA InitHolds ==
  ASSUME FdInit
  PROVE  IInv /\ Table!AInit
<1>1. /\ fdman = [p \in FdProcs |-> NewMan] /\ live = {FirstProc} /\ frefs = [f \in Files |-> 0]
      /\ hand = [t \in FdThreads |-> NoSlot] /\ fdpc = [t \in FdThreads |-> Idle]
      /\ fault = "none" /\ fduse \in FdUses /\ fdleft = fduse.n
  BY DEF FdInit
<1>2. Idle \in Pc /\ Idle.op = "idle" /\ "idle" \in Ops
  <2>1. <<>> \in Seq(Nat) /\ <<>> \in Seq(Special) /\ "idle" \in Ops /\ 0 \in Fds
    BY PcFacts DEF Ops
  <2>. QED  BY <2>1 DEF Idle, Pc
<1>3. FdTypeOK
  <2>1. fdman \in [FdProcs -> Man] /\ hand \in [FdThreads -> Slot]
    BY <1>1, NewManFacts, SlotFacts
  <2>2. frefs \in [Files -> 0..RefMax] /\ live \subseteq FdProcs /\ fdleft \in Nat
    BY <1>1, FdAssumption
  <2>. QED  BY <1>1, <1>2, <2>1, <2>2 DEF FdTypeOK, Faults
<1>4. ASSUME NEW f \in Files PROVE CellsIn(fdman, f) = {} /\ HandsIn(hand, f) = {}
  <2>1. \A p \in FdProcs, fd \in Fds : FileAt(fdman[p], fd) # f
    BY <1>1, NewManFacts, FdAssumption
  <2>2. \A t \in FdThreads : FileOf(hand[t]) # f
    BY <1>1, SlotFacts, FdAssumption DEF FileOf
  <2>. QED  BY <2>1, <2>2 DEF CellsIn, HandsIn
<1>5. FdRefs
  <2>. SUFFICES ASSUME NEW f \in Files
                PROVE  frefs[f] = Cardinality(CellsIn(fdman, f)) + Cardinality(HandsIn(hand, f))
    BY RefsAs
  <2>1. Cardinality(CellsIn(fdman, f)) = 0 /\ Cardinality(HandsIn(hand, f)) = 0
    BY <1>4, FS_EmptySet
  <2>. QED  BY <1>1, <2>1
<1>6. FdInv
  BY <1>1, <1>2, <1>3, <1>5, SlotFacts DEF FdInv
<1>7. FdCounted
  BY <1>1, <1>2, NewManFacts DEF FdCounted
<1>8. FdSafe
  BY <1>1, <1>2 DEF FdSafe
<1>9. Table!AInit
  <2>1. FdTables = [p \in FdProcs |-> [fd \in Fds |-> NoFile]]
    BY <1>1, NewManFacts DEF FdTables
  <2>2. FdHeld = [t \in FdThreads |-> NoFile] /\ FdDoing = [t \in FdThreads |-> "idle"]
    BY <1>1, <1>2, SlotFacts DEF FdHeld, FdDoing, HandFile
  <2>3. FdAlive = {}
    BY <1>1 DEF FdAlive
  <2>. QED  BY <2>1, <2>2, <2>3 DEF Table!AInit
<1>. QED  BY <1>6, <1>7, <1>8, <1>9 DEF IInv

\* Every step keeps the invariant and is a step of FdTable, or none.
LEMMA NextHolds ==
  ASSUME IInv, [FdNext]_fdvars
  PROVE  IInv' /\ [Table!ANext]_(Table!avars)
<1>1. ASSUME NEW t \in FdThreads,
             \/ Open(t) \/ GetFd(t) \/ InsFd(t) \/ InsFdAt(t) \/ InsFdH(t)
             \/ Quit(t, "drop", "idle") \/ Quit(t, "dropall", "closing")
             \/ CloseFd(t) \/ CloseAll(t) \/ CloseAllGoesOn(t) \/ Fork(t)
      PROVE  Refines
  <2>1. CASE Open(t) \/ GetFd(t)
    BY <2>1, OpenKeeps, GetFdKeeps
  <2>2. CASE InsFd(t) \/ InsFdAt(t) \/ InsFdH(t)
    BY <2>2, InsFdKeeps, InsFdAtKeeps, InsFdHKeeps
  <2>3. CASE Quit(t, "drop", "idle")
    BY <2>3, QuitKeeps
  <2>4. CASE Quit(t, "dropall", "closing")
    BY <2>4, QuitKeeps
  <2>5. CASE CloseFd(t) \/ CloseAll(t) \/ CloseAllGoesOn(t)
    BY <2>5, CloseFdKeeps, CloseAllKeeps, CloseAllGoesOnKeeps
  <2>6. CASE Fork(t)
    BY <2>6, ForkKeeps
  <2>. QED  BY <1>1, <2>1, <2>2, <2>3, <2>4, <2>5, <2>6
<1>2. ASSUME NEW p \in FdProcs, ProcExit(p) PROVE Refines
  BY <1>2, ProcExitKeeps
<1>3. CASE UNCHANGED fdvars
  <2>1. IInv'
    BY <1>3, ZenonT(30) DEF fdvars, IInv, FdInv, FdTypeOK, FdRefs, Cells, Hands, HandFile, FdCounted,
                NoCloses, FdSafe, Sound
  <2>2. UNCHANGED Table!avars
    BY <1>3 DEF fdvars, Table!avars, FdTables, FdHeld, FdDoing, FdAlive, HandFile
  <2>. QED  BY <2>1, <2>2, Zenon
<1>. QED  BY <1>1, <1>2, <1>3 DEF FdNext, Refines

\* The inductive invariant holds in every reachable state.
THEOREM IInvAlways == FdSpec => []IInv
<1>1. FdInit => IInv
  BY InitHolds
<1>2. IInv /\ [FdNext]_fdvars => IInv'
  BY NextHolds
<1>. QED  BY <1>1, <1>2, PTL DEF FdSpec

\* The descriptor tables are sound for any number of threads, processes and files and
\* any table limit: each file's reference count is the number of descriptors and
\* stack entries that refer to it, fdm_cnt counts the open slots, and no assertion
\* of proc-fdman.c.inl fails (the last two under the conditions they state).
THEOREM TablesAreSound == FdSpec => []FdSound
<1>1. IInv => FdSound
  <2>1. IInv => FdTypeOK /\ FdRefs
    BY Zenon DEF IInv, FdInv
  <2>2. IInv => FdCount
    BY ZenonT(30) DEF IInv, FdInv, FdTypeOK, FdCounted, NoCloses, Counts, FdCount
  <2>3. IInv => FdNoFault
    BY DEF IInv, FdSafe, FdNoFault
  <2>. QED  BY <2>1, <2>2, <2>3 DEF FdSound
<1>. QED  BY <1>1, IInvAlways, PTL

\* The vectors, hints and reference counts implement the partial functions of FdTable,
\* whatever calls are interleaved: an insertion takes a descriptor that named nothing
\* unless it was told which one to replace, a descriptor keeps its file until it is
\* closed or replaced, and a file exists exactly while something refers to it.
THEOREM TablesImplementTable == FdSpec => FdImplementsTable
<1>1. FdInit => Table!AInit
  BY InitHolds
<1>2. IInv /\ [FdNext]_fdvars => [Table!ANext]_(Table!avars)
  BY NextHolds
<1>. QED  BY <1>1, <1>2, IInvAlways, PTL DEF FdSpec, FdImplementsTable, Table!ASpec
=============================================================================
