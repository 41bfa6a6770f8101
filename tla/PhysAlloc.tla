----------------------------- MODULE PhysAlloc -----------------------------
(***************************************************************************)
(* The physical page allocator of sys/mmu/phy_alloc.c: one bit and one     *)
(* reference count for each page.  A page is a pair <<page/64, page%64>>.  *)
(*                                                                         *)
(* 1 << p has type int.  The build (gcc, x86-64) takes the low 5 bits of   *)
(* the shift count and extends the sign to 64 bits: bit 40 of the source   *)
(* is bit 8 of the word, and bit 31 stands for bits 31 to 63.  Only        *)
(* set_page_free shifts a uint64_t.                                        *)
(***************************************************************************)
EXTENDS Integers, FiniteSets

CONSTANTS
  Groups,      \* the words of phy_bitmap: 509
  Half,        \* the width of an int: 32, half that of a word
  CountRows,   \* the rows of refcount: 64
  Word,        \* 2^64: the modulus of a count
  Available,   \* the pages of the memory map that phy_bitmap has a bit for
  KernelFirst, \* the first and last page of the kernel image
  KernelLast,
  MaxRefs      \* bound: references to one page

GroupIds == 0 .. Groups - 1
Bits     == 0 .. 2 * Half - 1
Pages    == GroupIds \X Bits
ZeroPage == <<0, 0>>

ASSUME PhysAllocAssumption ==
  /\ Groups \in Nat \ {0}
  /\ Half \in Nat /\ Half > 1
  /\ CountRows \in Nat
  /\ MaxRefs \in Nat \ {0} /\ Word \in Nat /\ Word > MaxRefs
  /\ Available \subseteq Pages
  /\ KernelFirst \in Pages /\ KernelLast \in Pages

VARIABLES
  used,  \* phy_bitmap: the bits that are set in each word
  count, \* refcount, for the pages it has a place for
  refs,  \* how many references to a page its users hold
  ranOff \* an allocation ran off the bitmap: nothing is said any more

vars == <<used, count, refs, ranOff>>

\* The others have a row past the end of the array: their counts are written
\* to whatever lies there, and only dec_ref_count would read them.
Counted == {p \in Pages : p[1] < CountRows}
Held    == {p \in Pages : refs[p] > 0}

-----------------------------------------------------------------------------
\* The bits that 1 << b stands for in a word.
Shift(b)   == IF b < Half THEN b ELSE b - Half
IntMask(b) ==
  {c \in Bits : c = Shift(b) \/ (Shift(b) = Half - 1 /\ c >= Half)}

Kernel ==
  {p \in Pages :
     /\ p[1] > KernelFirst[1] \/ (p[1] = KernelFirst[1] /\ p[2] >= KernelFirst[2])
     /\ p[1] < KernelLast[1] \/ (p[1] = KernelLast[1] /\ p[2] <= KernelLast[2])}

\* Mutant of BootBits: the memory map is read after the kernel is marked.
BootBitsMapLast(g) ==
  {b \in Bits : <<g, b>> \notin Available \/ <<g, b>> = ZeroPage}

\* mm_phy_init sets every bit, mm_phy_map clears those of the memory map, and
\* mark_kernel_pages sets those of the kernel; page 0 stays set throughout.
BootBits(g) ==
  {b \in Bits : <<g, b>> \notin Available \/ <<g, b>> = ZeroPage}
    \cup UNION {IntMask(b) : b \in {c \in Bits : <<g, c>> \in Kernel \ {ZeroPage}}}

Init ==
  /\ used = [g \in GroupIds |-> BootBits(g)]
  /\ count = [p \in Counted |-> IF p \in Kernel \ {ZeroPage} THEN 1 ELSE 0]
  /\ refs = [p \in Pages |-> 0]
  /\ ranOff = FALSE

\* Mutant of LooksFree: the test shifts a uint64_t, the store still an int.
LooksFreeWide(p) == p[2] \notin used[p[1]]

LooksFree(p) == IntMask(p[2]) \cap used[p[1]] = {}

\* The loops go through the words downwards and through the bits of a word
\* upwards.
FoundFirst(p) ==
  /\ LooksFree(p)
  /\ \A q \in Pages :
       LooksFree(q) => q[1] < p[1] \/ (q[1] = p[1] /\ p[2] <= q[2])

CountUp(p) ==
  count' = IF p \in Counted \ {ZeroPage}
           THEN [count EXCEPT ![p] = (@ + 1) % Word] ELSE count

\* mm_phy_alloc_page.  The outer loop ends for no value of its uint64_t index:
\* with no page found it goes on with the words before phy_bitmap, and the
\* count of the page it makes of them is at an address that does not exist.
Alloc ==
  \/ \E p \in Pages :
       /\ FoundFirst(p)
       /\ used' = [used EXCEPT ![p[1]] = @ \cup IntMask(p[2])]
       /\ CountUp(p)
       /\ refs' = [refs EXCEPT ![p] = @ + 1]
       /\ UNCHANGED ranOff
  \/ /\ \A p \in Pages : ~LooksFree(p)
     /\ ranOff' = TRUE
     /\ UNCHANGED <<used, count, refs>>

SetFree(p) == used' = [used EXCEPT ![p[1]] = @ \ {p[2]}]

\* Mutant of FreePage: the count is left as it is.
FreePageKeepsCount(p) ==
  /\ p \in Held
  /\ SetFree(p)
  /\ refs' = [refs EXCEPT ![p] = 0]
  /\ UNCHANGED <<count, ranOff>>

\* mm_phy_free_page frees the page whatever its count is.
FreePage(p) ==
  /\ p \in Held
  /\ SetFree(p)
  /\ count' = [q \in Counted |-> IF q = p THEN 0 ELSE count[q]]
  /\ refs' = [refs EXCEPT ![p] = 0]
  /\ UNCHANGED ranOff

\* inc_ref_count, when fork maps a page a second time.
IncRef(p) ==
  /\ p \in Held /\ refs[p] < MaxRefs
  /\ CountUp(p)
  /\ refs' = [refs EXCEPT ![p] = @ + 1]
  /\ UNCHANGED <<used, ranOff>>

\* Mutant of DecRef: the page is freed when one reference is left.
DecRefEarly(p) ==
  /\ p \in Held \cap Counted
  /\ count' = [count EXCEPT ![p] = (@ - 1) % Word]
  /\ refs' = [refs EXCEPT ![p] = @ - 1]
  /\ IF count'[p] = 1 THEN SetFree(p) ELSE UNCHANGED used
  /\ UNCHANGED ranOff

\* dec_ref_count, where it is defined.
DecRef(p) ==
  /\ p \in Held \cap Counted
  /\ count' = [count EXCEPT ![p] = (@ - 1) % Word]
  /\ refs' = [refs EXCEPT ![p] = @ - 1]
  /\ IF count'[p] = 0 THEN SetFree(p) ELSE UNCHANGED used
  /\ UNCHANGED ranOff

Next ==
  /\ ~ranOff
  /\ \/ Alloc
     \/ \E p \in Pages : FreePage(p) \/ IncRef(p) \/ DecRef(p)

Spec == Init /\ [][Next]_vars

-----------------------------------------------------------------------------
\* Every variable has its type.
TypeOK ==
  /\ used \in [GroupIds -> SUBSET Bits]
  /\ count \in [Counted -> 0 .. Word - 1]
  /\ refs \in [Pages -> 0 .. MaxRefs]
  /\ ranOff \in BOOLEAN

\* Only memory of the memory map is handed out, never a page of the kernel nor
\* page 0, though mark_kernel_pages sets the wrong bit for every second half
\* of a word: mm_phy_alloc_page tests the same wrong bit.
OnlyFreeMemory == Held \subseteq (Available \ Kernel) \ {ZeroPage}

\* The count of a page is the number of references its users hold; a page that
\* is handed out again (mm_phy_alloc_page increments) starts at one.
CountIsReferences == \A p \in Counted \ Kernel : count[p] = refs[p]

\* What is offered: the first of two bits that share a mask.
Offered == {p \in Pages : p[2] < Half /\ LooksFree(p)}

PA == INSTANCE PageAllocator WITH Pool <- Pages, free <- Offered, held <- Held

\* No page is handed out while somebody holds it, and a page changes hands in
\* no other way: set, test and clear of a bit disagree on which bit it is.
ImplementsPageAllocator == PA!Spec

-----------------------------------------------------------------------------
(* "Allocate the first free page. returns page number, or zero on out of   *)
(* memory", says the comment above mm_phy_alloc_page: while the bit of some *)
(* page is clear a page is returned (and 0 never is).                       *)
ServesWhileFree ==
  ranOff => \A g \in GroupIds : used[g] = Bits

=============================================================================
