------------------------------ MODULE RamInfo -------------------------------
(***************************************************************************)
(* raminfo_addregion (src/kernel/pageframe.c): which page frames of a      *)
(* region of RAM reported by the boot loader are handed to the page        *)
(* allocator.  Addresses are bytes, and uintptr_t and size_t wrap at       *)
(* AddrEnd, which is 2^32 in the kernel.                                   *)
(***************************************************************************)
EXTENDS Integers

CONSTANTS AddrEnd, PAGESIZE, kernel_begin,
          KernelEnds  \* where the kernel image may end: the linker does not align it

ASSUME RamAssumption ==
  /\ PAGESIZE \in Nat \ {0}
  /\ AddrEnd \in Nat
  /\ AddrEnd % PAGESIZE = 0
  /\ kernel_begin \in 0 .. AddrEnd - 1
  /\ KernelEnds \subseteq kernel_begin + 1 .. AddrEnd - 1

VARIABLES
  region,  \* the region added: start and size
  ram,     \* the runs of bytes passed to kpageframe_free for it
  rmfault, \* an assertion failed
  kernel_end

rmvars == <<region, ram, rmfault, kernel_end>>

Wrap(x) == x % AddrEnd

Alignd(x) == (x \div PAGESIZE) * PAGESIZE

Align(x) == Wrap(Alignd(x + PAGESIZE - 1))

Bytes(r) == r.start .. (r.start + r.size - 1)

Nothing == [ok |-> TRUE, runs |-> {}]

\* The part behind the checks against the kernel: whole pages only, page 0
\* never, and kpageframe_free asserts that there is at least one page.
Usable(start, size) ==
  LET used == Align(start)
      rest == Alignd(Wrap(size - (used - start)))
      low  == used = 0
      s    == IF low THEN PAGESIZE ELSE used
      n    == IF low THEN rest - PAGESIZE ELSE rest
  IN IF low /\ rest <= PAGESIZE
     THEN Nothing
     ELSE [ok |-> s >= start /\ n <= size /\ n # 0,
           runs |-> {[start |-> s, size |-> n]}]

Both(a, b) == [ok |-> a.ok /\ b.ok, runs |-> a.runs \cup b.runs]

\* Mutant: what lies below the kernel is not used.
RegionsAbove(start, size) ==
  LET over == start < kernel_end /\ Wrap(start + size) > kernel_begin
      cut  == kernel_end - start
  IN IF size < PAGESIZE \/ start + (size - 1) >= AddrEnd \/ (over /\ cut >= size)
     THEN Nothing
     ELSE IF over THEN Usable(kernel_end, size - cut) ELSE Usable(start, size)

\* A region that overlaps the kernel is used up to its begin and from its end.
Regions(start, size) ==
  LET over  == start < kernel_end /\ Wrap(start + size) > kernel_begin
      below == IF over /\ kernel_begin - start >= PAGESIZE
               THEN Usable(start, kernel_begin - start) ELSE Nothing
      cut   == kernel_end - start
  IN IF size < PAGESIZE \/ start + (size - 1) >= AddrEnd
     THEN Nothing
     ELSE IF ~over
     THEN Usable(start, size)
     ELSE IF cut >= size
     THEN below
     ELSE Both(below, Usable(kernel_end, size - cut))

raminfo_addregion(start, size) ==
  /\ region' = [start |-> start, size |-> size]
  /\ ram' = Regions(start, size).runs
  /\ rmfault' = ~Regions(start, size).ok
  /\ UNCHANGED kernel_end

RmInit ==
  /\ region = [start |-> 0, size |-> 0]
  /\ ram = {}
  /\ rmfault = FALSE
  /\ kernel_end \in KernelEnds

\* The regions do not influence each other: one of them is added.
RmNext ==
  /\ region.size = 0
  /\ \E start \in 0 .. AddrEnd - 1, size \in 1 .. AddrEnd :
       raminfo_addregion(start, size)

RmSpec == RmInit /\ [][RmNext]_rmvars
-----------------------------------------------------------------------------
\* Only whole pages of the region are handed over, never page 0 and never a
\* page the kernel image lies in.  A region that ends at the last address
\* escapes the comparison with the kernel, its end having wrapped to 0.
KernelNotFree ==
  ~rmfault /\ region.start + region.size < AddrEnd =>
    \A r \in ram :
      /\ r.start % PAGESIZE = 0 /\ r.size % PAGESIZE = 0
      /\ r.start >= PAGESIZE
      /\ Bytes(r) \subseteq Bytes(region) \ (kernel_begin .. kernel_end - 1)

\* No usable page is lost: each page of the region that lies outside the pages
\* of the kernel is handed over, page 0 excepted.
RamComplete ==
  ~rmfault /\ region.start + region.size < AddrEnd =>
    \A p \in 1 .. (AddrEnd \div PAGESIZE) - 1 :
      LET page == [start |-> p * PAGESIZE, size |-> PAGESIZE] IN
      Bytes(page) \subseteq Bytes(region) \ (kernel_begin .. kernel_end - 1)
        => \E r \in ram : Bytes(page) \subseteq Bytes(r)

\* The assertions hold where the region and the end of the kernel are aligned:
\* a part of a region without one whole page is what they fail on.
RamNoAssert ==
  rmfault =>
    \/ region.start % PAGESIZE # 0
    \/ region.size % PAGESIZE # 0
    \/ kernel_end % PAGESIZE # 0
    \/ region.start + region.size > AddrEnd - PAGESIZE

\* raminfo_addregion hands over exactly the whole pages outside of the kernel.
RamSound == KernelNotFree /\ RamComplete /\ RamNoAssert
=============================================================================
