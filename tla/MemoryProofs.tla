---------------------------- MODULE MemoryProofs ----------------------------
(***************************************************************************)
(* sys/mmu: the page allocator hands out free memory only, to one user at  *)
(* a time, for every size of the bitmap, memory map and kernel; and the    *)
(* page tables in that memory are address maps, for tables of any size and *)
(* number of levels.                                                       *)
(***************************************************************************)
EXTENDS PhysAlloc, PageTables, FiniteSetTheorems, WellFoundedInduction, TLAPS

-----------------------------------------------------------------------------
(* I. The page allocator.                                                  *)

-----------------------------------------------------------------------------
(* What the width of the shift does. *)

\* A mask is made of bits of the word, it contains the bit itself in the lower
\* half, and two bits that are Half apart share it.
LEMMA Mask ==
  ASSUME NEW b \in Bits
  PROVE  /\ IntMask(b) \in SUBSET Bits
         /\ b < Half => b \in IntMask(b)
         /\ IntMask(b) # {}
         /\ b >= Half => b - Half \in Bits /\ IntMask(b - Half) = IntMask(b)
<1>1. /\ Half \in Nat /\ Half > 1 /\ b \in Int
      /\ \A c : c \in Bits <=> c \in Int /\ 0 <= c /\ c < 2 * Half
  BY PhysAllocAssumption DEF Bits
<1>2. Shift(b) \in Bits /\ (b >= Half => Shift(b - Half) = Shift(b))
  BY <1>1 DEF Shift
<1>3. Shift(b) \in IntMask(b) /\ IntMask(b) \in SUBSET Bits
  BY <1>2 DEF IntMask
<1>4. b < Half => Shift(b) = b
  BY DEF Shift
<1>5. b >= Half => b - Half \in Bits /\ IntMask(b - Half) = IntMask(b)
  BY <1>1, <1>2 DEF IntMask
<1> QED  BY <1>3, <1>4, <1>5

\* Below the half the masks of different bits do not meet, but for those that
\* the sign bit stands for.
LEMMA MasksApart ==
  ASSUME NEW b \in Bits, NEW c \in Bits, b < Half, c < Half, b # c
  PROVE  IntMask(b) \cap IntMask(c) = {}
<1>1. Half \in Nat /\ b \in Int /\ c \in Int
  BY PhysAllocAssumption DEF Bits
<1> QED  BY <1>1 DEF IntMask, Shift

\* The page that is found has its bit in the lower half of the word.
LEMMA FoundLow ==
  ASSUME NEW p \in Pages, FoundFirst(p)
  PROVE  p[2] < Half /\ p \in Offered
<1> DEFINE q == <<p[1], p[2] - Half>>
<1>1. p[1] \in GroupIds /\ p[2] \in Bits /\ p[1] \in Int /\ p[2] \in Int
      /\ Half \in Nat /\ Half > 1
  BY PhysAllocAssumption DEF Pages, GroupIds, Bits
<1>2. ASSUME p[2] >= Half PROVE FALSE
  <2>1. q \in Pages /\ q[1] = p[1] /\ q[2] = p[2] - Half /\ LooksFree(q)
    BY <1>1, <1>2, Mask DEF Pages, LooksFree, FoundFirst
  <2> HIDE DEF q
  <2>2. q[1] < p[1] \/ (q[1] = p[1] /\ p[2] <= q[2])
    BY <2>1 DEF FoundFirst
  <2> QED  BY <1>1, <2>1, <2>2
<1>3. p[2] < Half
  BY <1>1, <1>2
<1> QED  BY <1>3 DEF Offered, FoundFirst

\* Small numbers are not changed by the modulus of a count.
LEMMA NoWrap ==
  ASSUME NEW n \in Nat, n <= MaxRefs
  PROVE  n % Word = n
BY PhysAllocAssumption

-----------------------------------------------------------------------------
(* The inductive invariant. *)

\* Memory that may not be handed out.
Reserved == (Pages \ Available) \cup Kernel \cup {ZeroPage}

\* A held page lies in the lower half of its word and its whole mask is set.
HeldMarked ==
  \A p \in Held : p[2] < Half /\ IntMask(p[2]) \subseteq used[p[1]]

\* So far as they can be found at all, reserved pages are marked.
ReservedMarked ==
  \A p \in Reserved \cap Pages : p[2] < Half => p[2] \in used[p[1]]

AllocInv ==
  TypeOK /\ OnlyFreeMemory /\ CountIsReferences /\ HeldMarked /\ ReservedMarked

\* A page is the pair of its two numbers.
LEMMA PageIsPair ==
  ASSUME NEW p \in Pages
  PROVE  p[1] \in GroupIds /\ p[2] \in Bits /\ p = <<p[1], p[2]>>
BY DEF Pages

LEMMA InitAlloc == Init => AllocInv
<1> SUFFICES ASSUME Init PROVE AllocInv
  OBVIOUS
<1> USE PhysAllocAssumption DEF Init
<1>1. \A b \in Bits : IntMask(b) \in SUBSET Bits
                      /\ (b < Half => b \in IntMask(b))
  BY Mask
<1>2. \A g \in GroupIds : BootBits(g) \in SUBSET Bits
  BY <1>1 DEF BootBits
<1>3. \A p \in Pages : refs[p] = 0
  OBVIOUS
<1>4. Held = {}
  BY <1>3 DEF Held
<1>5. TypeOK
  <2>1. used \in [GroupIds -> SUBSET Bits]
    BY <1>2
  <2>2. 0 \in 0 .. Word - 1 /\ 1 \in 0 .. Word - 1 /\ 0 \in 0 .. MaxRefs
    OBVIOUS
  <2>3. count \in [Counted -> 0 .. Word - 1] /\ refs \in [Pages -> 0 .. MaxRefs]
    BY <2>2
  <2> QED  BY <2>1, <2>3 DEF TypeOK
<1>6. CountIsReferences
  BY <1>3 DEF CountIsReferences, Counted
<1>7. ReservedMarked
  <2> SUFFICES ASSUME NEW p \in Reserved, p \in Pages, p[2] < Half
               PROVE  p[2] \in BootBits(p[1])
    BY PageIsPair DEF ReservedMarked
  <2>1. p[1] \in GroupIds /\ p[2] \in Bits /\ p = <<p[1], p[2]>>
    BY PageIsPair
  <2>2. CASE p \notin Available \/ p = ZeroPage
    BY <2>1, <2>2 DEF BootBits
  <2>3. CASE p \in Kernel \ {ZeroPage}
    BY <2>1, <2>3, <1>1 DEF BootBits
  <2> QED  BY <2>2, <2>3 DEF Reserved
<1> QED  BY <1>4, <1>5, <1>6, <1>7 DEF AllocInv, OnlyFreeMemory, HeldMarked

\* What an allocation that finds a page does.
LEMMA AllocEffect ==
  ASSUME AllocInv, NEW p \in Pages, FoundFirst(p)
  PROVE  /\ p \in Offered /\ p \notin Held /\ p \notin Reserved
         /\ p[1] \in GroupIds /\ p[2] \in Bits /\ p[2] < Half
         /\ refs[p] = 0
<1>1. p \in Offered /\ p[2] < Half /\ p[1] \in GroupIds /\ p[2] \in Bits
  BY FoundLow, PageIsPair
<1>2. IntMask(p[2]) \cap used[p[1]] = {} /\ p[2] \in IntMask(p[2])
  BY <1>1, Mask DEF Offered, LooksFree
<1>3. p \notin Held
  BY <1>1, <1>2 DEF AllocInv, HeldMarked
<1>4. p \notin Reserved
  BY <1>1, <1>2 DEF AllocInv, ReservedMarked
<1>5. refs[p] = 0
  BY <1>3, PhysAllocAssumption DEF Held, AllocInv, TypeOK
<1> QED  BY <1>1, <1>3, <1>4, <1>5

LEMMA AllocStep == AllocInv /\ Alloc => AllocInv'
<1> SUFFICES ASSUME AllocInv, Alloc PROVE AllocInv'
  OBVIOUS
<1> USE PhysAllocAssumption
<1>1. CASE UNCHANGED <<used, count, refs>> /\ ranOff' = TRUE
  BY <1>1 DEF AllocInv, TypeOK, OnlyFreeMemory, CountIsReferences, HeldMarked,
              ReservedMarked, Held
<1>2. ASSUME NEW p \in Pages, FoundFirst(p),
             used' = [used EXCEPT ![p[1]] = @ \cup IntMask(p[2])],
             CountUp(p), refs' = [refs EXCEPT ![p] = @ + 1], UNCHANGED ranOff
      PROVE  AllocInv'
  <2>1. /\ p \notin Held /\ p \notin Reserved /\ refs[p] = 0
        /\ p[1] \in GroupIds /\ p[2] \in Bits /\ p[2] < Half
    BY <1>2, AllocEffect
  <2>2. IntMask(p[2]) \in SUBSET Bits
    BY <2>1, Mask
  <2>3. used' \in [GroupIds -> SUBSET Bits]
        /\ \A g \in GroupIds :
             used'[g] = IF g = p[1] THEN used[g] \cup IntMask(p[2]) ELSE used[g]
    BY <1>2, <2>1, <2>2 DEF AllocInv, TypeOK
  <2>4. refs' \in [Pages -> 0 .. MaxRefs]
        /\ \A q \in Pages : refs'[q] = IF q = p THEN 1 ELSE refs[q]
    BY <1>2, <2>1 DEF AllocInv, TypeOK
  <2>5. Held' = Held \cup {p}
    BY <2>4 DEF Held
  <2>6. p \in Pages \ Kernel /\ p # ZeroPage /\ p \in Available
    BY <1>2, <2>1 DEF Reserved
  <2>7. \A q \in Counted : count[q] \in Nat /\ count[q] < Word
    BY DEF AllocInv, TypeOK
  <2>8. p \in Counted => count[p] = 0 /\ 1 % Word = 1
    BY <2>1, <2>6, NoWrap DEF AllocInv, CountIsReferences
  <2>9. /\ count' \in [Counted -> 0 .. Word - 1]
        /\ \A q \in Counted : count'[q] = IF q = p THEN 1 ELSE count[q]
    <3>1. CASE p \in Counted
      BY <1>2, <2>6, <2>8, <3>1 DEF CountUp, AllocInv, TypeOK
    <3>2. CASE p \notin Counted
      BY <1>2, <3>2 DEF CountUp, AllocInv, TypeOK
    <3> QED  BY <3>1, <3>2
  <2>10. TypeOK'
    BY <1>2, <2>3, <2>4, <2>9 DEF AllocInv, TypeOK
  <2>11. OnlyFreeMemory'
    BY <2>5, <2>6 DEF AllocInv, OnlyFreeMemory
  <2>12. CountIsReferences'
    BY <2>4, <2>9 DEF AllocInv, CountIsReferences, Counted
  <2>13. HeldMarked'
    BY <2>1, <2>3, <2>5, PageIsPair DEF AllocInv, HeldMarked, Held
  <2>14. ReservedMarked'
    BY <2>3, PageIsPair DEF AllocInv, ReservedMarked
  <2> QED  BY <2>10, <2>11, <2>12, <2>13, <2>14 DEF AllocInv
<1> QED  BY <1>1, <1>2 DEF Alloc

\* What it takes to free the page p, or to leave it, and set its references.
LEMMA ReleaseStep ==
  ASSUME AllocInv, NEW p \in Held, NEW n \in 0 .. MaxRefs,
         (SetFree(p) /\ n = 0) \/ UNCHANGED used,
         refs' = [refs EXCEPT ![p] = n],
         count' \in [Counted -> 0 .. Word - 1],
         \A q \in Counted : count'[q] = IF q = p THEN n ELSE count[q],
         UNCHANGED ranOff
  PROVE  AllocInv'
<1> USE PhysAllocAssumption
<1>1. p \in Pages /\ p[1] \in GroupIds /\ p[2] \in Bits
      /\ p \in Available /\ p \notin Kernel /\ p # ZeroPage
  BY PageIsPair DEF Held, AllocInv, OnlyFreeMemory
<1>2. /\ used' \in [GroupIds -> SUBSET Bits]
      /\ \A g \in GroupIds : \A b \in Bits :
           b \in used[g] => b \in used'[g] \/ (<<g, b>> = p /\ n = 0)
  <2>1. CASE UNCHANGED used
    BY <2>1 DEF AllocInv, TypeOK
  <2>2. CASE SetFree(p) /\ n = 0
    <3>1. /\ used' \in [GroupIds -> SUBSET Bits]
          /\ \A g \in GroupIds :
               used'[g] = IF g = p[1] THEN used[g] \ {p[2]} ELSE used[g]
      BY <1>1, <2>2 DEF SetFree, AllocInv, TypeOK
    <3>2. p = <<p[1], p[2]>>
      BY <1>1, PageIsPair
    <3>3. \A g \in GroupIds : \A b \in Bits : g = p[1] /\ b = p[2] => <<g, b>> = p
      BY <3>2
    <3> QED  BY <2>2, <3>1, <3>3
  <2> QED  BY <2>1, <2>2
<1>3. refs' \in [Pages -> 0 .. MaxRefs]
      /\ \A q \in Pages : refs'[q] = IF q = p THEN n ELSE refs[q]
  BY <1>1 DEF AllocInv, TypeOK
<1>4. Held' \subseteq Held /\ (n = 0 => p \notin Held')
  BY <1>1, <1>3 DEF Held
<1>5. TypeOK'
  BY <1>2, <1>3 DEF AllocInv, TypeOK
<1>6. OnlyFreeMemory'
  BY <1>4 DEF AllocInv, OnlyFreeMemory
<1>7. CountIsReferences'
  BY <1>3 DEF AllocInv, CountIsReferences, Counted
<1>8. ReservedMarked'
  BY <1>1, <1>2, PageIsPair DEF AllocInv, ReservedMarked, Reserved
<1>9. HeldMarked'
  <2> SUFFICES ASSUME NEW q \in Held'
               PROVE  q[2] < Half /\ IntMask(q[2]) \subseteq used'[q[1]]
    BY DEF HeldMarked
  <2>1. q \in Held /\ q \in Pages /\ q[1] \in GroupIds /\ q[2] \in Bits
        /\ q = <<q[1], q[2]>> /\ p = <<p[1], p[2]>>
    BY <1>1, <1>4, PageIsPair DEF Held
  <2>2. q[2] < Half /\ IntMask(q[2]) \subseteq used[q[1]] /\ p[2] < Half
    BY <2>1 DEF AllocInv, HeldMarked
  <2>3. IntMask(q[2]) \in SUBSET Bits
    BY <2>1, Mask
  <2>4. ASSUME NEW c \in IntMask(q[2]), <<q[1], c>> = p, n = 0 PROVE FALSE
    <3>1. c = p[2] /\ q[1] = p[1] /\ c \in Bits /\ c < Half
      BY <2>1, <2>2, <2>3, <2>4
    <3>2. c \in IntMask(c)
      BY <3>1, Mask
    <3>3. c = q[2]
      BY <2>1, <2>2, <2>4, <3>1, <3>2, MasksApart
    <3> QED  BY <1>4, <2>1, <2>4, <3>1, <3>3
  <2>5. \A c \in IntMask(q[2]) : c \in used'[q[1]]
    BY <1>2, <2>1, <2>2, <2>3, <2>4
  <2> QED  BY <2>2, <2>5
<1> QED  BY <1>5, <1>6, <1>7, <1>8, <1>9 DEF AllocInv

LEMMA FreePageStep ==
  ASSUME AllocInv, NEW p \in Pages, FreePage(p) PROVE AllocInv'
<1>1. p \in Held /\ SetFree(p) /\ refs' = [refs EXCEPT ![p] = 0]
      /\ UNCHANGED ranOff
      /\ count' = [q \in Counted |-> IF q = p THEN 0 ELSE count[q]]
  BY DEF FreePage
<1>2. count' \in [Counted -> 0 .. Word - 1]
      /\ \A q \in Counted : count'[q] = IF q = p THEN 0 ELSE count[q]
  BY <1>1, PhysAllocAssumption DEF AllocInv, TypeOK
<1>3. 0 \in 0 .. MaxRefs
  BY PhysAllocAssumption
<1> QED  BY <1>1, <1>2, <1>3, ReleaseStep

LEMMA IncRefStep ==
  ASSUME AllocInv, NEW p \in Pages, IncRef(p) PROVE AllocInv'
<1> USE PhysAllocAssumption
<1>1. p \in Held /\ refs[p] < MaxRefs /\ refs[p] \in Nat /\ CountUp(p)
      /\ UNCHANGED <<used, ranOff>>
      /\ refs' = [refs EXCEPT ![p] = refs[p] + 1]
      /\ p \notin Kernel /\ p # ZeroPage
  BY DEF IncRef, Held, AllocInv, TypeOK, OnlyFreeMemory
<1> DEFINE n == refs[p] + 1
<1>2. n \in 0 .. MaxRefs /\ n \in Nat /\ n % Word = n
  BY <1>1, NoWrap
<1>3. p \in Counted => count[p] + 1 = n
  BY <1>1 DEF AllocInv, CountIsReferences
<1>4. /\ count' \in [Counted -> 0 .. Word - 1]
      /\ \A q \in Counted : count'[q] = IF q = p THEN n ELSE count[q]
  <2>1. CASE p \in Counted
    BY <1>1, <1>2, <1>3, <2>1 DEF CountUp, AllocInv, TypeOK
  <2>2. CASE p \notin Counted
    BY <1>1, <2>2 DEF CountUp, AllocInv, TypeOK
  <2> QED  BY <2>1, <2>2
<1>5. refs' = [refs EXCEPT ![p] = n]
  BY <1>1
<1> HIDE DEF n
<1> QED  BY <1>1, <1>2, <1>4, <1>5, ReleaseStep

LEMMA DecRefStep ==
  ASSUME AllocInv, NEW p \in Pages, DecRef(p) PROVE AllocInv'
<1> USE PhysAllocAssumption
<1> DEFINE n == refs[p] - 1
<1>1. p \in Held /\ p \in Counted /\ refs[p] \in 1 .. MaxRefs
      /\ UNCHANGED ranOff /\ p \notin Kernel
      /\ refs' = [refs EXCEPT ![p] = n]
      /\ count' = [count EXCEPT ![p] = (count[p] - 1) % Word]
      /\ IF count'[p] = 0 THEN SetFree(p) ELSE UNCHANGED used
  BY DEF DecRef, Held, AllocInv, TypeOK, OnlyFreeMemory
<1>2. n \in 0 .. MaxRefs /\ n \in Nat /\ n % Word = n
  BY <1>1, NoWrap
<1>3. count[p] - 1 = n
  BY <1>1 DEF AllocInv, CountIsReferences
<1> HIDE DEF n
<1>4. /\ count' \in [Counted -> 0 .. Word - 1]
      /\ \A q \in Counted : count'[q] = IF q = p THEN n ELSE count[q]
  BY <1>1, <1>2, <1>3 DEF AllocInv, TypeOK
<1>5. (SetFree(p) /\ n = 0) \/ UNCHANGED used
  BY <1>1, <1>4
<1> QED  BY <1>1, <1>2, <1>4, <1>5, ReleaseStep

LEMMA NextAlloc == AllocInv /\ [Next]_vars => AllocInv'
<1>1. CASE UNCHANGED vars
  BY <1>1 DEF vars, AllocInv, TypeOK, OnlyFreeMemory, CountIsReferences,
              HeldMarked, ReservedMarked, Held
<1> QED
  BY <1>1, AllocStep, FreePageStep, IncRefStep, DecRefStep DEF Next

\* Every reachable state satisfies the invariant.
THEOREM AllocInvHolds == Spec => []AllocInv
BY InitAlloc, NextAlloc, PTL DEF Spec

\* Every variable has its type (no count wraps).
THEOREM AllocTypeCorrect == Spec => []TypeOK
<1>1. AllocInv => TypeOK
  BY DEF AllocInv
<1> QED  BY <1>1, AllocInvHolds, PTL

\* The kernel, page 0 and memory that is not there are never handed out,
\* wherever in a word the kernel begins and ends.
THEOREM OnlyFreeMemoryHolds == Spec => []OnlyFreeMemory
<1>1. AllocInv => OnlyFreeMemory
  BY DEF AllocInv
<1> QED  BY <1>1, AllocInvHolds, PTL

\* Reference counts are exact.
THEOREM CountsAreExact == Spec => []CountIsReferences
<1>1. AllocInv => CountIsReferences
  BY DEF AllocInv
<1> QED  BY <1>1, AllocInvHolds, PTL

-----------------------------------------------------------------------------
(* Refinement. *)

\* A step that takes p, and only p, from those offered.
LEMMA TakesOffered ==
  ASSUME AllocInv, NEW p \in Pages, FoundFirst(p),
         used' = [used EXCEPT ![p[1]] = @ \cup IntMask(p[2])]
  PROVE  Offered' = Offered \ {p}
<1>1. p \in Offered /\ p[1] \in GroupIds /\ p[2] \in Bits /\ p[2] < Half
  BY AllocEffect
<1>2. p[2] \in IntMask(p[2]) /\ p = <<p[1], p[2]>>
  BY <1>1, Mask, PageIsPair
<1>3. ASSUME NEW q \in Pages, q[2] < Half
      PROVE  LooksFree(q)' <=> LooksFree(q) /\ q # p
  <2>1. q[1] \in GroupIds /\ q[2] \in Bits /\ q = <<q[1], q[2]>>
    BY PageIsPair
  <2>2. used'[q[1]] =
          IF q[1] = p[1] THEN used[q[1]] \cup IntMask(p[2]) ELSE used[q[1]]
    BY <1>1, <2>1 DEF AllocInv, TypeOK
  <2>3. q # p /\ q[1] = p[1] => IntMask(q[2]) \cap IntMask(p[2]) = {}
    BY <1>1, <1>2, <1>3, <2>1, MasksApart
  <2> QED  BY <1>2, <2>2, <2>3 DEF LooksFree
<1> QED  BY <1>3 DEF Offered

\* A step that clears the bit of p offers p again, or not, and nothing else.
LEMMA OffersAgain ==
  ASSUME AllocInv, NEW p \in Held, SetFree(p)
  PROVE  Offered' \in {Offered, Offered \cup {p}}
<1>1. p \in Pages /\ p[1] \in GroupIds /\ p[2] \in Bits /\ p[2] < Half
      /\ p = <<p[1], p[2]>>
  BY PageIsPair DEF Held, AllocInv, HeldMarked
<1>2. ASSUME NEW q \in Pages, q[2] < Half, q # p
      PROVE  LooksFree(q)' <=> LooksFree(q)
  <2>1. q[1] \in GroupIds /\ q[2] \in Bits /\ q = <<q[1], q[2]>>
    BY PageIsPair
  <2>2. used'[q[1]] =
          IF q[1] = p[1] THEN used[q[1]] \ {p[2]} ELSE used[q[1]]
    BY <1>1, <2>1 DEF SetFree, AllocInv, TypeOK
  <2>3. q[1] = p[1] => p[2] \notin IntMask(q[2])
    BY <1>1, <1>2, <2>1, Mask, MasksApart
  <2> QED  BY <2>2, <2>3 DEF LooksFree
<1>3. p \notin Offered
  BY <1>1, Mask DEF AllocInv, HeldMarked, Offered, LooksFree
<1>4. CASE LooksFree(p)'
  BY <1>1, <1>2, <1>4 DEF Offered
<1>5. CASE ~LooksFree(p)'
  BY <1>1, <1>2, <1>3, <1>5 DEF Offered
<1> QED  BY <1>4, <1>5

\* Leaving the bitmap alone leaves alone what is offered.
LEMMA OffersSame == UNCHANGED used => Offered' = Offered
BY DEF Offered, LooksFree

\* Allocation is an Alloc of the abstract allocator, or finds nothing.
LEMMA AllocRefines ==
  ASSUME AllocInv, Alloc
  PROVE  PA!Alloc \/ UNCHANGED <<Offered, Held>>
<1>1. CASE UNCHANGED <<used, refs>>
  BY <1>1, OffersSame DEF Held
<1>2. ASSUME NEW p \in Pages, FoundFirst(p),
             used' = [used EXCEPT ![p[1]] = @ \cup IntMask(p[2])],
             refs' = [refs EXCEPT ![p] = @ + 1]
      PROVE  PA!Alloc
  <2>1. p \in Offered /\ Offered' = Offered \ {p} /\ refs[p] = 0
    BY <1>2, AllocEffect, TakesOffered
  <2>2. \A q \in Pages : refs'[q] = IF q = p THEN 1 ELSE refs[q]
    BY <1>2, <2>1 DEF AllocInv, TypeOK
  <2>3. Held' = Held \cup {p}
    BY <1>2, <2>2 DEF Held
  <2> QED  BY <2>1, <2>3 DEF PA!Alloc
<1> QED  BY <1>1, <1>2 DEF Alloc

\* The other operations release a page or are not seen.
LEMMA ReleaseRefines ==
  ASSUME AllocInv, NEW p \in Pages, FreePage(p) \/ IncRef(p) \/ DecRef(p)
  PROVE  PA!Release \/ UNCHANGED <<Offered, Held>>
<1> USE PhysAllocAssumption
<1>1. p \in Held /\ refs \in [Pages -> 0 .. MaxRefs] /\ refs[p] \in 1 .. MaxRefs
  BY DEF FreePage, IncRef, DecRef, Held, AllocInv, TypeOK
<1>2. ASSUME SetFree(p), refs' = [refs EXCEPT ![p] = 0] PROVE PA!Release
  <2>1. \A q \in Pages : refs'[q] = IF q = p THEN 0 ELSE refs[q]
    BY <1>1, <1>2
  <2>2. Held' = Held \ {p}
    BY <2>1 DEF Held
  <2> QED  BY <1>1, <1>2, <2>2, OffersAgain DEF PA!Release
<1>3. ASSUME UNCHANGED used, NEW n \in 1 .. MaxRefs,
             refs' = [refs EXCEPT ![p] = n]
      PROVE  UNCHANGED <<Offered, Held>>
  <2>1. \A q \in Pages : refs'[q] = IF q = p THEN n ELSE refs[q]
    BY <1>1, <1>3
  <2>2. Held' = Held
    BY <1>1, <2>1 DEF Held
  <2> QED  BY <1>3, <2>2, OffersSame
<1>4. CASE FreePage(p)
  BY <1>2, <1>4 DEF FreePage
<1>5. CASE IncRef(p)
  <2>1. refs[p] + 1 \in 1 .. MaxRefs
    BY <1>1, <1>5 DEF IncRef
  <2> QED  BY <1>3, <1>5, <2>1 DEF IncRef
<1>6. CASE DecRef(p)
  <2>1. p \in Counted /\ p \notin Kernel /\ refs' = [refs EXCEPT ![p] = refs[p] - 1]
        /\ count' = [count EXCEPT ![p] = (count[p] - 1) % Word]
        /\ IF count'[p] = 0 THEN SetFree(p) ELSE UNCHANGED used
    BY <1>1, <1>6 DEF DecRef, AllocInv, OnlyFreeMemory
  <2>2. count'[p] = (refs[p] - 1) % Word
    BY <2>1 DEF AllocInv, CountIsReferences, TypeOK
  <2>3. refs[p] - 1 \in Nat /\ (refs[p] - 1) % Word = refs[p] - 1
    BY <1>1, NoWrap
  <2>4. CASE refs[p] = 1
    BY <1>2, <2>1, <2>2, <2>3, <2>4
  <2>5. CASE refs[p] # 1
    <3>1. refs[p] - 1 \in 1 .. MaxRefs /\ UNCHANGED used
      BY <1>1, <2>1, <2>2, <2>3, <2>5
    <3> QED  BY <1>3, <2>1, <3>1
  <2> QED  BY <2>4, <2>5
<1> QED  BY <1>4, <1>5, <1>6

\* The allocator with its narrow shifts never hands out a page that is held.
THEOREM AllocatorImplements == Spec => ImplementsPageAllocator
<1>1. Init => PA!Init
  <2>1. Init => Held = {}
    BY DEF Init, Held
  <2> QED  BY <2>1 DEF PA!Init, Offered
<1>2. AllocInv /\ [Next]_vars => [PA!Alloc \/ PA!Release]_(PA!vars)
  <2> SUFFICES ASSUME AllocInv, [Next]_vars
               PROVE  PA!Alloc \/ PA!Release \/ UNCHANGED <<Offered, Held>>
    BY DEF PA!vars
  <2>1. CASE UNCHANGED vars
    BY <2>1, OffersSame DEF vars, Held
  <2>2. CASE Next
    BY <2>2, AllocRefines, ReleaseRefines DEF Next
  <2> QED  BY <2>1, <2>2
<1> QED
  BY <1>1, <1>2, AllocInvHolds, PTL DEF Spec, ImplementsPageAllocator, PA!Spec

-----------------------------------------------------------------------------
(* II. The page tables.                                                    *)

-----------------------------------------------------------------------------
(* Induction over the levels. *)

LEMMA LeastOf ==
  ASSUME NEW I, I \subseteq Nat, I # {}
  PROVE  \E i \in I : \A j \in I : i <= j
<1>1. PICK i \in I : \A j \in I : <<j, i>> \notin OpToRel(<, Nat)
  BY NatLessThanWellFounded, WFMin
<1>2. \A j \in I : ~(j < i)
  BY <1>1 DEF OpToRel
<1> QED BY <1>2

LEMMA Upward ==
  ASSUME NEW N \in Nat, NEW P, 0 \in P, \A l \in 1 .. N : l - 1 \in P => l \in P
  PROVE  0 .. N \subseteq P
<1> DEFINE I == {l \in 0 .. N : l \notin P}
<1>1. CASE I = {}
  BY <1>1
<1>2. CASE I # {}
  <2>1. PICK l \in I : \A k \in I : l <= k
    <3>1. I \subseteq Nat
      OBVIOUS
    <3> HIDE DEF I
    <3> QED BY <1>2, <3>1, LeastOf
  <2>2. l \in 1 .. N
    BY <2>1
  <2>3. l - 1 \in 0 .. N /\ ~(l <= l - 1)
    BY <2>2
  <2>4. l - 1 \in P
    BY <2>1, <2>3
  <2> QED BY <2>1, <2>2, <2>4
<1> QED BY <1>1, <1>2

LEMMA SpanExists ==
  Span = [k \in 0 .. Levels |-> IF k = 0 THEN 1 ELSE Radix * Span[k - 1]]
<1> DEFINE Upto(n) == \E g : g = [k \in 0 .. n |-> IF k = 0 THEN 1 ELSE Radix * g[k - 1]]
           P == {n \in 0 .. Levels : Upto(n)}
<1>1. Levels \in Nat
  BY PageTablesAssumption
<1>2. 0 \in P
  <2> DEFINE g == [k \in 0 .. 0 |-> 1]
  <2>1. g = [k \in 0 .. 0 |-> IF k = 0 THEN 1 ELSE Radix * g[k - 1]]
    OBVIOUS
  <2>2. Upto(0)
    BY <2>1
  <2> QED BY <1>1, <2>2
<1>3. ASSUME NEW n \in 1 .. Levels, n - 1 \in P PROVE n \in P
  <2>1. PICK g : g = [k \in 0 .. n - 1 |-> IF k = 0 THEN 1 ELSE Radix * g[k - 1]]
    BY <1>3
  <2> DEFINE h == [k \in 0 .. n |-> IF k < n THEN g[k] ELSE Radix * g[n - 1]]
  <2>2. ASSUME NEW k \in 0 .. n
        PROVE  h[k] = IF k = 0 THEN 1 ELSE Radix * h[k - 1]
    <3>1. k # 0 => k - 1 \in 0 .. n - 1 /\ h[k - 1] = g[k - 1]
      BY <1>1
    <3>2. k < n => g[k] = IF k = 0 THEN 1 ELSE Radix * g[k - 1]
      BY <1>1, <2>1
    <3> QED BY <1>1, <3>1, <3>2
  <2>3. h = [k \in 0 .. n |-> IF k = 0 THEN 1 ELSE Radix * h[k - 1]]
    BY <2>2
  <2> HIDE DEF h
  <2>4. Upto(n)
    BY <2>3
  <2> QED BY <2>4
<1> HIDE DEF P
<1>4. Levels \in P
  BY <1>1, <1>2, <1>3, Upward
<1> QED BY <1>4 DEF P, Span

LEMMA SpanFacts ==
  /\ Span[0] = 1
  /\ \A k \in 1 .. Levels : Span[k] = Radix * Span[k - 1]
  /\ \A k \in 0 .. Levels : Span[k] \in Nat \ {0}
<1>1. Levels \in Nat /\ Radix \in Nat \ {0}
  BY PageTablesAssumption
<1>2. Span[0] = 1 /\ \A k \in 1 .. Levels : Span[k] = Radix * Span[k - 1]
  BY <1>1, SpanExists
<1> DEFINE P == {k \in 0 .. Levels : Span[k] \in Nat \ {0}}
<1>3. 0 \in P
  BY <1>1, <1>2
<1>4. ASSUME NEW k \in 1 .. Levels, k - 1 \in P PROVE k \in P
  <2>1. Span[k] = Radix * Span[k - 1] /\ Span[k - 1] \in Nat \ {0}
    BY <1>2, <1>4
  <2>2. \A a, b \in Nat \ {0} : a * b \in Nat \ {0}
    OBVIOUS
  <2> QED BY <1>1, <2>1, <2>2
<1>5. 0 .. Levels \subseteq P
  <2> HIDE DEF P
  <2> QED BY <1>1, <1>3, <1>4, Upward
<1> QED BY <1>2, <1>5

\* Division, one digit at a time.
LEMMA Quotient ==
  ASSUME NEW a \in Nat \ {0}, NEW n \in Nat
  PROVE  n \div a \in Nat /\ n % a \in 0 .. a - 1 /\ n = a * (n \div a) + (n % a)
OBVIOUS

LEMMA QuotientIs ==
  ASSUME NEW a \in Nat \ {0}, NEW q \in Nat, NEW r \in 0 .. a - 1
  PROVE  (a * q + r) \div a = q
OBVIOUS

LEMMA QuotientOf ==
  ASSUME NEW a \in Nat \ {0}, NEW b \in Nat \ {0}, NEW n \in Nat
  PROVE  (n \div a) \div b = n \div (b * a)
<1> DEFINE q == n \div a
           r == n % a
           p == q \div b
           d == q % b
<1>1. q \in Nat /\ r \in 0 .. a - 1 /\ n = a * q + r
  BY Quotient
<1>2. p \in Nat /\ d \in 0 .. b - 1 /\ q = b * p + d
  <2> HIDE DEF q
  <2> QED BY <1>1, Quotient
<1> HIDE DEF q, r, p, d
<1>3. n = (b * a) * p + (a * d + r)
  <2>1. a * (b * p + d) = (b * a) * p + a * d
    BY <1>2
  <2> QED BY <1>1, <1>2, <2>1
<1>4. a * d + r \in 0 .. b * a - 1
  <2>1. a * d <= a * (b - 1) /\ a * d >= 0
    BY <1>2
  <2>2. a * (b - 1) = b * a - a
    OBVIOUS
  <2> QED BY <1>1, <1>2, <2>1, <2>2
<1>5. b * a \in Nat \ {0}
  OBVIOUS
<1>6. n \div (b * a) = p
  <2> DEFINE c == b * a
             e == a * d + r
  <2>1. c \in Nat \ {0} /\ e \in 0 .. c - 1 /\ n = c * p + e
    BY <1>3, <1>4, <1>5
  <2> HIDE DEF c, e
  <2>2. n \div c = p
    BY <1>2, <2>1, QuotientIs
  <2> QED BY <2>2 DEF c
<1> QED BY <1>6 DEF p, q

-----------------------------------------------------------------------------
(* The offsets of an address. *)

Virt == 0 .. Span[Levels] - 1

Alike(v, w, l) == \A j \in 1 .. l : Offset(v, j) = Offset(w, j)

LEMMA OffsetTyped ==
  ASSUME NEW v \in Virt, NEW l \in 1 .. Levels
  PROVE  Offset(v, l) \in 0 .. Radix - 1
<1>1. Levels - l \in 0 .. Levels /\ Radix \in Nat \ {0} /\ v \in Nat
  BY PageTablesAssumption, SpanFacts DEF Virt
<1>2. v \div Span[Levels - l] \in Nat
  BY <1>1, SpanFacts, Quotient
<1> QED BY <1>1, <1>2, Quotient DEF Offset

\* The number that the first l offsets make.
LEMMA Prefixes ==
  ASSUME NEW v \in Virt
  PROVE  /\ v \div Span[Levels] = 0
         /\ \A l \in 1 .. Levels :
              v \div Span[Levels - l]
                = Radix * (v \div Span[Levels - (l - 1)]) + Offset(v, l)
         /\ v \div Span[0] = v
<1>1. Levels \in Nat \ {0} /\ Radix \in Nat \ {0} /\ v \in Nat
  BY PageTablesAssumption, SpanFacts DEF Virt
<1>2. v \div Span[Levels] = 0
  <2> DEFINE a == Span[Levels]
  <2>1. a \in Nat \ {0} /\ v \in 0 .. a - 1 /\ v = a * 0 + v
    BY <1>1, SpanFacts DEF Virt
  <2> HIDE DEF a
  <2>2. v \div a = 0
    BY <2>1, QuotientIs
  <2> QED BY <2>2 DEF a
<1>3. ASSUME NEW l \in 1 .. Levels
      PROVE  v \div Span[Levels - l]
                = Radix * (v \div Span[Levels - (l - 1)]) + Offset(v, l)
  <2> DEFINE a == Span[Levels - l]
             b == Span[Levels - (l - 1)]
  <2>1. Levels - l \in 0 .. Levels /\ Levels - (l - 1) \in 1 .. Levels
        /\ (Levels - (l - 1)) - 1 = Levels - l
    BY <1>1
  <2>2. a \in Nat \ {0} /\ b = Radix * a
    BY <2>1, SpanFacts
  <2> HIDE DEF a, b
  <2>3. (v \div a) \div Radix = v \div b
    BY <1>1, <2>2, QuotientOf
  <2>4. v \div a \in Nat
    BY <1>1, <2>2, Quotient
  <2>5. v \div a = Radix * ((v \div a) \div Radix) + ((v \div a) % Radix)
    BY <1>1, <2>4, Quotient
  <2>6. Offset(v, l) = (v \div a) % Radix
    BY DEF Offset, a
  <2>7. v \div a = Radix * (v \div b) + Offset(v, l)
    BY <2>3, <2>5, <2>6
  <2> QED BY <2>7 DEF a, b
<1>4. v \div Span[0] = v
  BY <1>1, SpanFacts
<1> QED BY <1>2, <1>3, <1>4

\* Two addresses with the same offsets are one.
LEMMA OffsetsTell ==
  ASSUME NEW v \in Virt, NEW w \in Virt, Alike(v, w, Levels)
  PROVE  v = w
<1>1. Levels \in Nat
  BY PageTablesAssumption
<1> DEFINE P == {l \in 0 .. Levels : v \div Span[Levels - l] = w \div Span[Levels - l]}
<1>2. 0 \in P
  BY <1>1, Prefixes
<1>3. ASSUME NEW l \in 1 .. Levels, l - 1 \in P PROVE l \in P
  <2>1. Offset(v, l) = Offset(w, l)
    BY DEF Alike
  <2>2. v \div Span[Levels - (l - 1)] = w \div Span[Levels - (l - 1)]
    BY <1>3
  <2>3. v \div Span[Levels - l] = w \div Span[Levels - l]
    BY <2>1, <2>2, Prefixes
  <2> QED BY <1>1, <2>3
<1>4. Levels \in P
  <2> HIDE DEF P
  <2> QED BY <1>1, <1>2, <1>3, Upward
<1>5. v \div Span[0] = w \div Span[0]
  BY <1>1, <1>4
<1> QED BY <1>5, Prefixes

\* The kernel's half is below the last entry of the root.
LEMMA KernelOffset ==
  ASSUME NEW v \in Virt
  PROVE  v >= FirstKernel <=> Offset(v, 1) = Radix - 1
<1>1. Levels \in Nat \ {0, 1} /\ Radix \in Nat \ {0, 1} /\ v \in Nat
  BY PageTablesAssumption, SpanFacts DEF Virt
<1> DEFINE a == Span[Levels - 1]
           q == v \div a
           r == v % a
<1>2. a \in Nat \ {0}
  BY <1>1, SpanFacts
<1>3. Offset(v, 1) = q
  <2>1. v \div Span[Levels - 1] = Radix * (v \div Span[Levels - (1 - 1)]) + Offset(v, 1)
    BY <1>1, Prefixes
  <2>2. v \div Span[Levels - (1 - 1)] = 0
    BY <1>1, Prefixes
  <2>3. Offset(v, 1) \in 0 .. Radix - 1
    BY <1>1, OffsetTyped
  <2> QED BY <1>1, <2>1, <2>2, <2>3
<1>4. q \in 0 .. Radix - 1
  BY <1>1, <1>3, OffsetTyped
<1>5. FirstKernel = (Radix - 1) * a
  BY DEF FirstKernel
<1> HIDE DEF a
<1>6. v = a * q + r /\ r \in 0 .. a - 1
  BY <1>1, <1>2, Quotient
<1> HIDE DEF q, r
<1>7. CASE q = Radix - 1
  <2>1. a * q = (Radix - 1) * a
    BY <1>1, <1>2, <1>7
  <2> QED BY <1>1, <1>2, <1>3, <1>5, <1>6, <1>7, <2>1
<1>8. CASE q # Radix - 1
  <2>1. q + 1 <= Radix - 1 /\ q \in Nat
    BY <1>1, <1>4, <1>8
  <2>2. a * (q + 1) <= a * (Radix - 1)
    BY <1>1, <1>2, <2>1
  <2>3. a * (q + 1) = a * q + a /\ a * (Radix - 1) = (Radix - 1) * a
    BY <1>1, <1>2, <2>1
  <2>4. a * q \in Nat
    BY <1>2, <2>1
  <2>5. v < FirstKernel
    BY <1>1, <1>2, <1>5, <1>6, <2>2, <2>3, <2>4
  <2> QED BY <1>1, <1>2, <1>3, <1>5, <1>8, <2>4, <2>5, <1>6
<1> QED BY <1>7, <1>8

LEMMA AddressesTyped ==
  /\ FirstKernel \in Nat /\ FirstKernel < Span[Levels] /\ Span[Levels] \in Nat
  /\ KernelPages \subseteq Virt /\ UserPages \subseteq Virt
  /\ \A v \in Virt : v \in KernelPages <=> v >= FirstKernel
  /\ \A p \in UserPages : p < FirstKernel
<1>1. Levels \in Nat \ {0, 1} /\ Radix \in Nat \ {0, 1}
  BY PageTablesAssumption
<1> DEFINE a == Span[Levels - 1]
<1>2. a \in Nat \ {0} /\ Span[Levels] = Radix * a
  BY <1>1, SpanFacts
<1>3. FirstKernel = (Radix - 1) * a
  BY DEF FirstKernel
<1> HIDE DEF a
<1>4. Radix * a = (Radix - 1) * a + a /\ (Radix - 1) * a \in Nat
  BY <1>1, <1>2
<1>5. FirstKernel \in Nat /\ FirstKernel < Span[Levels] /\ Span[Levels] \in Nat
  BY <1>2, <1>3, <1>4
<1> QED BY <1>5, PageTablesAssumption DEF Virt, KernelPages

-----------------------------------------------------------------------------
(* Walks through the tables. *)

LEMMA PathExists ==
  ASSUME NEW m, NEW r, NEW v
  PROVE  LET at == Path(m, r, v) IN
         at = [l \in 0 .. Levels |->
                 IF l = 0 THEN r
                 ELSE IF at[l - 1] = Absent THEN Absent ELSE m[at[l - 1]][Offset(v, l)]]
<1> DEFINE Next1(l, f) == IF f = Absent THEN Absent ELSE m[f][Offset(v, l)]
           Upto(n) == \E g : g = [l \in 0 .. n |-> IF l = 0 THEN r ELSE Next1(l, g[l - 1])]
           P == {n \in 0 .. Levels : Upto(n)}
<1>1. Levels \in Nat
  BY PageTablesAssumption
<1>2. 0 \in P
  <2> DEFINE g == [l \in 0 .. 0 |-> r]
  <2> HIDE DEF Next1
  <2>1. g = [l \in 0 .. 0 |-> IF l = 0 THEN r ELSE Next1(l, g[l - 1])]
    OBVIOUS
  <2>2. Upto(0)
    BY <2>1
  <2> QED BY <1>1, <2>2
<1>3. ASSUME NEW n \in 1 .. Levels, n - 1 \in P PROVE n \in P
  <2> HIDE DEF Next1
  <2>1. PICK g : g = [l \in 0 .. n - 1 |-> IF l = 0 THEN r ELSE Next1(l, g[l - 1])]
    BY <1>3
  <2> DEFINE h == [l \in 0 .. n |-> IF l < n THEN g[l] ELSE Next1(n, g[n - 1])]
  <2>2. ASSUME NEW l \in 0 .. n
        PROVE  h[l] = IF l = 0 THEN r ELSE Next1(l, h[l - 1])
    <3>1. l # 0 => l - 1 \in 0 .. n - 1 /\ h[l - 1] = g[l - 1]
      BY <1>1
    <3>2. l < n => g[l] = IF l = 0 THEN r ELSE Next1(l, g[l - 1])
      BY <1>1, <2>1
    <3> QED BY <1>1, <3>1, <3>2
  <2>3. h = [l \in 0 .. n |-> IF l = 0 THEN r ELSE Next1(l, h[l - 1])]
    BY <2>2
  <2> HIDE DEF h
  <2>4. Upto(n)
    BY <2>3
  <2> QED BY <2>4
<1> HIDE DEF P
<1>4. Levels \in P
  BY <1>1, <1>2, <1>3, Upward
<1> QED BY <1>4 DEF P, Path

LEMMA PathStep ==
  ASSUME NEW m, NEW r, NEW v
  PROVE  /\ Path(m, r, v)[0] = r
         /\ \A l \in 1 .. Levels :
              Path(m, r, v)[l] = IF Path(m, r, v)[l - 1] = Absent THEN Absent
                                 ELSE m[Path(m, r, v)[l - 1]][Offset(v, l)]
<1> DEFINE at == Path(m, r, v)
<1>1. at = [l \in 0 .. Levels |->
              IF l = 0 THEN r
              ELSE IF at[l - 1] = Absent THEN Absent ELSE m[at[l - 1]][Offset(v, l)]]
  BY PathExists
<1>2. Levels \in Nat
  BY PageTablesAssumption
<1> HIDE DEF at
<1>3. at[0] = r
  BY <1>1, <1>2
<1>4. ASSUME NEW l \in 1 .. Levels
      PROVE  at[l] = IF at[l - 1] = Absent THEN Absent ELSE m[at[l - 1]][Offset(v, l)]
  <2>1. l \in 0 .. Levels /\ l # 0
    BY <1>2
  <2> QED BY <1>1, <2>1
<1> QED BY <1>3, <1>4 DEF at

\* The table that a walk from the root r comes to at a level, or the page.
At(s, r, v, l) == Path(s.mem, r, v)[l]

LEMMA AtFirst ==
  ASSUME NEW s, NEW r, NEW v
  PROVE  At(s, r, v, 0) = r
BY PathStep DEF At

LEMMA AtNext ==
  ASSUME NEW s, NEW r, NEW v, NEW l \in 1 .. Levels
  PROVE  At(s, r, v, l) = IF At(s, r, v, l - 1) = Absent THEN Absent
                          ELSE s.mem[At(s, r, v, l - 1)][Offset(v, l)]
<1> DEFINE m == s.mem
<1> HIDE DEF m
<1>1. Path(m, r, v)[l] = IF Path(m, r, v)[l - 1] = Absent THEN Absent
                         ELSE m[Path(m, r, v)[l - 1]][Offset(v, l)]
  BY PathStep
<1> QED BY <1>1 DEF At, m

\* A walk sees no more than the entries on its way.
LEMMA SameAt ==
  ASSUME NEW s, NEW s2, NEW r, NEW v,
         \A l \in 1 .. Levels :
           At(s, r, v, l - 1) # Absent
             => s2.mem[At(s, r, v, l - 1)][Offset(v, l)] = s.mem[At(s, r, v, l - 1)][Offset(v, l)]
  PROVE  \A l \in 0 .. Levels : At(s2, r, v, l) = At(s, r, v, l)
<1> DEFINE P == {l \in 0 .. Levels : At(s2, r, v, l) = At(s, r, v, l)}
<1>1. Levels \in Nat
  BY PageTablesAssumption
<1>2. 0 \in P
  BY <1>1, AtFirst, AtNext
<1>3. ASSUME NEW l \in 1 .. Levels, l - 1 \in P PROVE l \in P
  <2>1. At(s2, r, v, l - 1) = At(s, r, v, l - 1) /\ l \in 0 .. Levels
    BY <1>1, <1>3
  <2> HIDE DEF P
  <2>2. At(s2, r, v, l) = At(s, r, v, l)
    BY <2>1, AtFirst, AtNext
  <2> QED BY <2>1, <2>2 DEF P
<1> HIDE DEF P
<1>4. 0 .. Levels \subseteq P
  BY <1>1, <1>2, <1>3, Upward
<1> QED BY <1>4 DEF P

LEMMA AlikeAt ==
  ASSUME NEW s, NEW r, NEW v, NEW w, NEW n \in 0 .. Levels, Alike(v, w, n)
  PROVE  \A l \in 0 .. n : At(s, r, v, l) = At(s, r, w, l)
<1> DEFINE P == {l \in 0 .. n : At(s, r, v, l) = At(s, r, w, l)}
<1>1. Levels \in Nat
  BY PageTablesAssumption
<1>2. 0 \in P
  BY <1>1, AtFirst, AtNext
<1>3. ASSUME NEW l \in 1 .. n, l - 1 \in P PROVE l \in P
  <2>1. /\ At(s, r, v, l - 1) = At(s, r, w, l - 1)
        /\ l \in 1 .. Levels /\ l \in 0 .. n
    BY <1>1, <1>3
  <2>2. Offset(v, l) = Offset(w, l)
    BY DEF Alike
  <2> HIDE DEF P
  <2>3. At(s, r, v, l) = At(s, r, w, l)
    BY <2>1, <2>2, AtFirst, AtNext
  <2> QED BY <2>1, <2>3 DEF P
<1> HIDE DEF P
<1>4. 0 .. n \subseteq P
  BY <1>1, <1>2, <1>3, Upward
<1> QED BY <1>4 DEF P

\* Two roots that agree on the entry for v lead to the same from there on.
LEMMA JoinedAt ==
  ASSUME NEW s, NEW r, NEW q, NEW v, r # Absent, q # Absent,
         s.mem[r][Offset(v, 1)] = s.mem[q][Offset(v, 1)]
  PROVE  \A l \in 1 .. Levels : At(s, r, v, l) = At(s, q, v, l)
<1> DEFINE P == {l \in 0 .. Levels : l = 0 \/ At(s, r, v, l) = At(s, q, v, l)}
<1>1. Levels \in Nat
  BY PageTablesAssumption
<1>2. 0 \in P
  BY <1>1
<1>3. ASSUME NEW l \in 1 .. Levels, l - 1 \in P PROVE l \in P
  <2>1. l \in 0 .. Levels /\ l - 1 \in Nat
    BY <1>1
  <2>2. CASE l = 1
    BY <1>1, <2>1, <2>2, AtFirst, AtNext
  <2>3. CASE l # 1
    <3>1. At(s, r, v, l - 1) = At(s, q, v, l - 1)
      BY <1>3, <2>1, <2>3
    <3> HIDE DEF P
    <3>2. At(s, r, v, l) = At(s, q, v, l)
      BY <3>1, AtFirst, AtNext
    <3> QED BY <2>1, <3>2 DEF P
  <2> QED BY <2>2, <2>3
<1> HIDE DEF P
<1>4. 0 .. Levels \subseteq P
  BY <1>1, <1>2, <1>3, Upward
<1> QED BY <1>1, <1>4 DEF P

LEMMA AbsentBelow ==
  ASSUME NEW s, NEW r, NEW v, NEW n \in 0 .. Levels, At(s, r, v, n) = Absent
  PROVE  \A l \in n .. Levels : At(s, r, v, l) = Absent
<1> DEFINE P == {l \in 0 .. Levels : l < n \/ At(s, r, v, l) = Absent}
<1>1. Levels \in Nat
  BY PageTablesAssumption
<1>2. 0 \in P
  BY <1>1
<1>3. ASSUME NEW l \in 1 .. Levels, l - 1 \in P PROVE l \in P
  <2>1. l \in 0 .. Levels /\ (l - 1 < n \/ At(s, r, v, l - 1) = Absent)
    BY <1>1, <1>3
  <2> HIDE DEF P
  <2>2. l - 1 < n => l < n \/ l = n
    BY <1>1
  <2>3. l < n \/ At(s, r, v, l) = Absent
    BY <2>1, <2>2, AtFirst, AtNext
  <2> QED BY <2>1, <2>3 DEF P
<1> HIDE DEF P
<1>4. 0 .. Levels \subseteq P
  BY <1>1, <1>2, <1>3, Upward
<1> QED BY <1>1, <1>4 DEF P

-----------------------------------------------------------------------------
(* What the tables in memory are, whatever was mapped so far: s is memory  *)
(* with the frames on offer, rt the roots of the spaces in use.            *)

SpaceRoots(rt) == {rt[sp] : sp \in DOMAIN rt}
Roots(rt)      == {KRoot} \cup SpaceRoots(rt)

\* The frame that v leads to.
Leaf(s, r, v) == At(s, r, v, Levels)

Tables(s, rt) ==
  {At(s, r, v, l) : r \in Roots(rt), v \in Virt, l \in 0 .. Levels - 1} \ {Absent}

Memory == [mem  : [0 .. Frames -> [0 .. Radix - 1 -> -1 .. Frames]],
           free : SUBSET (2 .. Frames),
           top  : Nat]

RootsTyped(rt) ==
  /\ DOMAIN rt \subseteq Spaces /\ \A sp \in DOMAIN rt : rt[sp] \in 2 .. Frames
  /\ \A sp, tp \in DOMAIN rt : rt[sp] = rt[tp] => sp = tp

\* All roots have their last entry in common, and the kernel's no other.
LastShared(s, rt) ==
  /\ \A sp \in DOMAIN rt : /\ s.mem[rt[sp]][Radix - 1] = s.mem[KRoot][Radix - 1]
                           /\ s.mem[KRoot][Radix - 1] # Absent
  /\ \A e \in 0 .. Radix - 2 : s.mem[KRoot][e] = Absent

\* A table is reached in one way only, but for the kernel's.
Forest(s, rt) ==
  \A r, q \in Roots(rt), v, w \in Virt, l, k \in 0 .. Levels - 1 :
    At(s, r, v, l) # Absent /\ At(s, r, v, l) = At(s, q, w, k)
      => l = k /\ Alike(v, w, l) /\ (r = q \/ (l > 0 /\ v >= FirstKernel))

Tree(s, rt) ==
  /\ s \in Memory /\ RootsTyped(rt)
  /\ \A f \in s.free : s.mem[f] = Empty
  /\ LastShared(s, rt)
  /\ Tables(s, rt) \subseteq (1 .. Frames) \ s.free
  /\ Forest(s, rt)

\* What programs can write to is no table; a frame that is on offer is mapped by
\* nobody; a frame is shared at one address only, and with the kernel if it is of
\* a stack.
Apart(s, rt) ==
  /\ \A v \in KernelPages : Leaf(s, KRoot, v) \notin s.free
  /\ \A r \in SpaceRoots(rt), p \in UserPages :
       Leaf(s, r, p) \notin s.free /\ Leaf(s, r, p) \notin Tables(s, rt)
  /\ \A r, q \in SpaceRoots(rt), p, w \in UserPages :
       Leaf(s, r, p) \notin {Absent, 0} /\ Leaf(s, q, w) = Leaf(s, r, p) => w = p
  /\ \A r \in SpaceRoots(rt), p \in UserPages, v \in KernelPages :
       Leaf(s, r, p) \notin {Absent, 0} /\ Leaf(s, KRoot, v) = Leaf(s, r, p) => p \in Stack

LEMMA TreeTyped ==
  ASSUME NEW s, NEW rt, Tree(s, rt)
  PROVE  /\ s.mem \in [0 .. Frames -> [0 .. Radix - 1 -> -1 .. Frames]]
         /\ s.free \subseteq 2 .. Frames /\ s.top \in Nat
         /\ Roots(rt) \subseteq 1 .. Frames /\ KRoot \in Roots(rt)
         /\ \A sp \in DOMAIN rt : rt[sp] \in Roots(rt)
         /\ \A r \in Roots(rt), v \in Virt, l \in 0 .. Levels - 1 :
              At(s, r, v, l) \in {Absent} \cup ((1 .. Frames) \ s.free)
         /\ \A r \in Roots(rt), v \in Virt : Leaf(s, r, v) \in -1 .. Frames
         /\ s = [mem |-> s.mem, free |-> s.free, top |-> s.top]
<1>1. /\ s.mem \in [0 .. Frames -> [0 .. Radix - 1 -> -1 .. Frames]]
      /\ s.free \subseteq 2 .. Frames /\ s.top \in Nat
      /\ s = [mem |-> s.mem, free |-> s.free, top |-> s.top]
  BY DEF Tree, Memory
<1>2. Levels \in Nat \ {0, 1} /\ Frames \in Nat
  BY PageTablesAssumption
<1>3. Frames >= 1
  <2>1. Levels * BootPages \in Nat
    BY PageTablesAssumption, SpanFacts
  <2> QED BY <1>2, <2>1, PageTablesAssumption
<1>4. /\ Roots(rt) \subseteq 1 .. Frames /\ KRoot \in Roots(rt)
      /\ \A sp \in DOMAIN rt : rt[sp] \in Roots(rt)
  BY <1>2, <1>3 DEF Tree, RootsTyped, Roots, SpaceRoots, KRoot
<1>5. ASSUME NEW r \in Roots(rt), NEW v \in Virt, NEW l \in 0 .. Levels - 1
      PROVE  At(s, r, v, l) \in {Absent} \cup ((1 .. Frames) \ s.free)
  BY DEF Tree, Tables
<1>6. ASSUME NEW r \in Roots(rt), NEW v \in Virt
      PROVE  Leaf(s, r, v) \in -1 .. Frames
  <2> DEFINE a == At(s, r, v, Levels - 1)
  <2>1. a \in {Absent} \cup (1 .. Frames)
    BY <1>2, <1>5
  <2>2. Leaf(s, r, v) = IF a = Absent THEN Absent ELSE s.mem[a][Offset(v, Levels)]
    BY <1>2, AtFirst, AtNext DEF Leaf
  <2>3. Offset(v, Levels) \in 0 .. Radix - 1
    BY <1>2, OffsetTyped
  <2> HIDE DEF a
  <2>4. CASE a = Absent
    BY <1>2, <2>2, <2>4 DEF Absent
  <2>5. CASE a \in 1 .. Frames
    <3>1. a \in 0 .. Frames /\ a # Absent
      BY <1>2, <2>5 DEF Absent
    <3>2. s.mem[a] \in [0 .. Radix - 1 -> -1 .. Frames]
      BY <1>1, <3>1
    <3>3. Leaf(s, r, v) = s.mem[a][Offset(v, Levels)]
      BY <2>2, <3>1
    <3> HIDE DEF Leaf
    <3> QED BY <2>3, <3>2, <3>3
  <2> QED BY <2>1, <2>4, <2>5
<1> QED BY <1>1, <1>4, <1>5, <1>6

\* The kernel's pages are the same from every root.
LEMMA KernelPath ==
  ASSUME NEW s, NEW rt, Tree(s, rt), NEW r \in Roots(rt), NEW v \in Virt,
         v >= FirstKernel
  PROVE  \A l \in 1 .. Levels : At(s, r, v, l) = At(s, KRoot, v, l)
<1>1. Offset(v, 1) = Radix - 1
  BY KernelOffset
<1>2. s.mem[r][Radix - 1] = s.mem[KRoot][Radix - 1]
  BY DEF Tree, LastShared, Roots, SpaceRoots
<1>3. r # Absent /\ KRoot # Absent
  BY TreeTyped, PageTablesAssumption DEF Absent
<1> QED BY <1>1, <1>2, <1>3, JoinedAt

\* One entry is another one.
EntryIs(s2, s, a, o, f) ==
  \A g \in 0 .. Frames, e \in 0 .. Radix - 1 :
    s2.mem[g][e] = IF g = a /\ e = o THEN f ELSE s.mem[g][e]

LEMMA EntryPut ==
  ASSUME NEW s, s.mem \in [0 .. Frames -> [0 .. Radix - 1 -> -1 .. Frames]],
         NEW a \in 0 .. Frames, NEW o \in 0 .. Radix - 1, NEW f \in -1 .. Frames,
         NEW s2, s2.mem = [s.mem EXCEPT ![a][o] = f]
  PROVE  /\ EntryIs(s2, s, a, o, f)
         /\ s2.mem \in [0 .. Frames -> [0 .. Radix - 1 -> -1 .. Frames]]
         /\ \A g \in 0 .. Frames : g # a => s2.mem[g] = s.mem[g]
<1> DEFINE m  == s.mem
           m2 == s2.mem
           c  == [m[a] EXCEPT ![o] = f]
<1>1. m \in [0 .. Frames -> [0 .. Radix - 1 -> -1 .. Frames]] /\ m2 = [m EXCEPT ![a][o] = f]
  OBVIOUS
<1>2. EntryIs(s2, s, a, o, f)
        <=> \A g \in 0 .. Frames, e \in 0 .. Radix - 1 :
              m2[g][e] = IF g = a /\ e = o THEN f ELSE m[g][e]
  BY DEF EntryIs
<1> HIDE DEF m, m2
<1>3. m[a] \in [0 .. Radix - 1 -> -1 .. Frames]
  BY <1>1
<1>4. /\ c \in [0 .. Radix - 1 -> -1 .. Frames]
      /\ \A e \in 0 .. Radix - 1 : c[e] = IF e = o THEN f ELSE m[a][e]
  BY <1>3
<1>5. m2 = [m EXCEPT ![a] = c]
  BY <1>1
<1> HIDE DEF c
<1>6. \A g \in 0 .. Frames : m2[g] = IF g = a THEN c ELSE m[g]
  BY <1>1, <1>5
<1>7. m2 \in [0 .. Frames -> [0 .. Radix - 1 -> -1 .. Frames]]
  BY <1>1, <1>4, <1>5
<1>8. EntryIs(s2, s, a, o, f)
  BY <1>2, <1>4, <1>6
<1> QED BY <1>6, <1>7, <1>8 DEF m, m2

\* Memory with this entry, and with fewer frames on offer.
Put(s2, s, a, o, f) ==
  /\ s2 \in Memory /\ EntryIs(s2, s, a, o, f) /\ s2.top = s.top
  /\ \A g \in 0 .. Frames : g # a => s2.mem[g] = s.mem[g]

LEMMA MemoryPut ==
  ASSUME NEW s, s \in Memory, NEW fr \in SUBSET s.free,
         NEW a \in 0 .. Frames, NEW o \in 0 .. Radix - 1, NEW f \in -1 .. Frames,
         NEW s2, s2 = [mem |-> [s.mem EXCEPT ![a][o] = f], free |-> fr, top |-> s.top]
  PROVE  Put(s2, s, a, o, f) /\ s2.free = fr
<1>1. /\ s.mem \in [0 .. Frames -> [0 .. Radix - 1 -> -1 .. Frames]]
      /\ s.free \subseteq 2 .. Frames /\ s.top \in Nat
  BY DEF Memory
<1>2. s2.mem = [s.mem EXCEPT ![a][o] = f] /\ s2.free = fr /\ s2.top = s.top
  OBVIOUS
<1>3. /\ EntryIs(s2, s, a, o, f)
      /\ s2.mem \in [0 .. Frames -> [0 .. Radix - 1 -> -1 .. Frames]]
      /\ \A g \in 0 .. Frames : g # a => s2.mem[g] = s.mem[g]
  BY <1>1, <1>2, EntryPut
<1>4. s2 = [mem |-> s2.mem, free |-> s2.free, top |-> s2.top]
  OBVIOUS
<1>5. s2 \in Memory
  BY <1>1, <1>2, <1>3, <1>4 DEF Memory
<1> QED BY <1>2, <1>3, <1>5 DEF Put

\* The table with the entry for v at level l.
TableAt(s, r, v, l) == At(s, r, v, l - 1)

\* Another entry of a table that is reached: only walks through it change.
LEMMA EntryPath ==
  ASSUME NEW s, NEW rt, Tree(s, rt), NEW r \in Roots(rt), NEW v \in Virt,
         NEW l \in 1 .. Levels, NEW a, a = TableAt(s, r, v, l), a # Absent,
         NEW f, NEW s2, EntryIs(s2, s, a, Offset(v, l), f),
         NEW q \in Roots(rt), NEW w \in Virt,
         ~(TableAt(s, q, w, l) = a /\ Offset(w, l) = Offset(v, l))
  PROVE  \A k \in 0 .. Levels : At(s2, q, w, k) = At(s, q, w, k)
<1> USE DEF TableAt
<1>1. Levels \in Nat /\ Frames \in Nat
  BY PageTablesAssumption
<1>2. l - 1 \in 0 .. Levels - 1
  BY <1>1
<1>3. ASSUME NEW k \in 1 .. Levels, At(s, q, w, k - 1) # Absent
      PROVE  s2.mem[At(s, q, w, k - 1)][Offset(w, k)]
               = s.mem[At(s, q, w, k - 1)][Offset(w, k)]
  <2> DEFINE b == At(s, q, w, k - 1)
  <2>1. k - 1 \in 0 .. Levels - 1
    BY <1>1
  <2>2. b \in 0 .. Frames
    <3>1. b \in 1 .. Frames
      BY <1>3, <2>1, TreeTyped
    <3> QED BY <1>1, <3>1
  <2>3. b = a => k = l
    <3>1. b = a => k - 1 = l - 1
      BY <1>2, <1>3, <2>1 DEF Tree, Forest
    <3> QED BY <1>1, <3>1
  <2>4. Offset(w, k) \in 0 .. Radix - 1
    BY OffsetTyped
  <2>5. ~(b = a /\ Offset(w, k) = Offset(v, l))
    BY <2>3
  <2> HIDE DEF b
  <2>6. s2.mem[b][Offset(w, k)] = s.mem[b][Offset(w, k)]
    BY <2>2, <2>4, <2>5 DEF EntryIs
  <2> QED BY <2>6 DEF b
<1> QED BY <1>3, SameAt

LEMMA SameEntry ==
  ASSUME NEW s, NEW rt, Tree(s, rt), NEW r \in Roots(rt), NEW v \in Virt,
         NEW l \in 1 .. Levels, NEW q \in Roots(rt), NEW w \in Virt,
         TableAt(s, r, v, l) # Absent,
         TableAt(s, q, w, l) = TableAt(s, r, v, l),
         Offset(w, l) = Offset(v, l)
  PROVE  Alike(v, w, l) /\ (q = r \/ (l > 1 /\ v >= FirstKernel))
<1> USE DEF TableAt
<1>1. l - 1 \in 0 .. Levels - 1 /\ l \in Nat
  BY PageTablesAssumption
<1>2. Alike(v, w, l - 1) /\ (r = q \/ (l - 1 > 0 /\ v >= FirstKernel))
  BY <1>1 DEF Tree, Forest
<1>3. \A j \in 1 .. l : j \in 1 .. l - 1 \/ j = l
  BY <1>1
<1> QED BY <1>1, <1>2, <1>3 DEF Alike

\* And those that go through it lead to f there.
LEMMA EntryThrough ==
  ASSUME NEW s, NEW rt, Tree(s, rt), NEW r \in Roots(rt), NEW v \in Virt,
         NEW l \in 1 .. Levels, NEW a, a = TableAt(s, r, v, l), a # Absent,
         NEW f, NEW s2, EntryIs(s2, s, a, Offset(v, l), f),
         NEW q \in Roots(rt), NEW w \in Virt,
         TableAt(s, q, w, l) = a, Offset(w, l) = Offset(v, l)
  PROVE  /\ \A k \in 0 .. l - 1 : At(s2, q, w, k) = At(s, q, w, k)
         /\ At(s2, q, w, l) = f
<1> DEFINE P  == {k \in 0 .. l - 1 : At(s2, q, w, k) = At(s, q, w, k)}
<1> USE DEF TableAt
<1>1. Levels \in Nat /\ Frames \in Nat
  BY PageTablesAssumption
<1>2. l - 1 \in 0 .. Levels - 1 /\ l - 1 \in Nat /\ l \in Nat
  BY <1>1
<1>3. a \in 0 .. Frames
  <2>1. a \in 1 .. Frames
    BY <1>2, TreeTyped
  <2> QED BY <1>1, <2>1
<1>5. 0 \in P
  BY <1>2, AtFirst, AtNext
<1>6. ASSUME NEW k \in 1 .. l - 1, k - 1 \in P PROVE k \in P
  <2> DEFINE b == At(s, q, w, k - 1)
  <2>1. /\ At(s2, q, w, k - 1) = b /\ k \in 0 .. l - 1 /\ k \in 1 .. Levels
        /\ k - 1 \in 0 .. Levels - 1 /\ k - 1 # l - 1
    BY <1>1, <1>2, <1>6
  <2>2. b # Absent => b \in 0 .. Frames
    <3>1. b # Absent => b \in 1 .. Frames
      BY <2>1, TreeTyped
    <3> QED BY <1>1, <3>1
  <2>3. b # a
    <3> SUFFICES ASSUME b = a PROVE FALSE
      OBVIOUS
    <3>1. b # Absent
      OBVIOUS
    <3> QED BY <1>2, <2>1, <3>1 DEF Tree, Forest
  <2>4. Offset(w, k) \in 0 .. Radix - 1
    BY <2>1, OffsetTyped
  <2> HIDE DEF P, b
  <2>5. b # Absent => s2.mem[b][Offset(w, k)] = s.mem[b][Offset(w, k)]
    BY <2>2, <2>3, <2>4 DEF EntryIs
  <2>6. At(s2, q, w, k) = IF b = Absent THEN Absent ELSE s2.mem[b][Offset(w, k)]
    BY <2>1, AtFirst, AtNext
  <2>7. At(s, q, w, k) = IF b = Absent THEN Absent ELSE s.mem[b][Offset(w, k)]
    BY <2>1, AtFirst, AtNext DEF b
  <2>8. At(s2, q, w, k) = At(s, q, w, k)
    BY <2>5, <2>6, <2>7
  <2> QED BY <2>1, <2>8 DEF P
<1>7. 0 .. l - 1 \subseteq P
  <2> HIDE DEF P
  <2> QED BY <1>2, <1>5, <1>6, Upward
<1>8. At(s2, q, w, l) = f
  <2>1. At(s2, q, w, l - 1) = a
    BY <1>2, <1>7
  <2>2. At(s2, q, w, l) = s2.mem[a][Offset(v, l)]
    <3> HIDE DEF P
    <3> QED BY <2>1, AtFirst, AtNext
  <2>3. Offset(v, l) \in 0 .. Radix - 1
    BY OffsetTyped
  <2> HIDE DEF P
  <2>4. s2.mem[a][Offset(v, l)] = f
    BY <1>3, <2>3 DEF EntryIs
  <2> QED BY <2>2, <2>4
<1> QED BY <1>7, <1>8

-----------------------------------------------------------------------------
(* A new table. *)

\* What is neither a table nor on offer is not written to.
Untouched(s2, s, rt) ==
  \A g \in 0 .. Frames : g \notin Tables(s, rt) \cup s.free => s2.mem[g] = s.mem[g]

\* The table with which the walk for v goes on at level l was taken from the
\* frames on offer: nothing that was mapped is mapped otherwise.
Grown(s2, s, rt) ==
  /\ Tree(s2, rt) /\ Untouched(s2, s, rt)
  /\ s2.free \subseteq s.free /\ s2.top = s.top
  /\ Tables(s2, rt) \subseteq Tables(s, rt) \cup (s.free \ s2.free)
  /\ \A q \in Roots(rt), w \in Virt : Leaf(s2, q, w) = Leaf(s, q, w)

LEMMA NewTablePath ==
  ASSUME NEW s, NEW rt, Tree(s, rt), NEW r \in Roots(rt), NEW v \in Virt,
         NEW l \in 1 .. Levels - 1, NEW t \in s.free,
         NEW a, a = TableAt(s, r, v, l), a # Absent,
         s.mem[a][Offset(v, l)] = Absent,
         NEW s2, EntryIs(s2, s, a, Offset(v, l), t),
         NEW q \in Roots(rt), NEW w \in Virt
  PROVE  /\ TableAt(s, q, w, l) = a /\ Offset(w, l) = Offset(v, l) => At(s2, q, w, l) = t
         /\ \A k \in 0 .. Levels :
              \/ k = l /\ TableAt(s, q, w, l) = a /\ Offset(w, l) = Offset(v, l)
              \/ At(s2, q, w, k) = At(s, q, w, k)
<1>1. Levels \in Nat /\ Frames \in Nat
  BY PageTablesAssumption
<1>2. /\ l \in 1 .. Levels /\ l - 1 \in 0 .. Levels - 1 /\ l \in 0 .. Levels
      /\ l + 1 \in 1 .. Levels /\ l + 1 \in 0 .. Levels /\ (l + 1) - 1 = l
  BY <1>1
<1>3. a \in (1 .. Frames) \ s.free /\ t \in 2 .. Frames
  BY <1>2, TreeTyped DEF TableAt
<1>4. CASE ~(TableAt(s, q, w, l) = a /\ Offset(w, l) = Offset(v, l))
  <2>1. \A k \in 0 .. Levels : At(s2, q, w, k) = At(s, q, w, k)
    BY <1>2, <1>4, EntryPath
  <2> QED BY <1>4, <2>1
<1>5. CASE TableAt(s, q, w, l) = a /\ Offset(w, l) = Offset(v, l)
  <2>1. /\ \A k \in 0 .. l - 1 : At(s2, q, w, k) = At(s, q, w, k)
        /\ At(s2, q, w, l) = t
    BY <1>2, <1>5, EntryThrough
  <2>2. At(s2, q, w, l + 1) = Absent
    <3>1. t # Absent /\ a # t /\ t \in 0 .. Frames
      BY <1>1, <1>3 DEF Absent
    <3>2. At(s2, q, w, l + 1) = s2.mem[t][Offset(w, l + 1)]
      BY <1>2, <2>1, <3>1, AtFirst, AtNext
    <3>3. Offset(w, l + 1) \in 0 .. Radix - 1
      BY <1>2, OffsetTyped
    <3>4. s2.mem[t][Offset(w, l + 1)] = s.mem[t][Offset(w, l + 1)]
      BY <3>1, <3>3 DEF EntryIs
    <3>5. s.mem[t] = Empty
      BY DEF Tree
    <3> QED BY <3>2, <3>3, <3>4, <3>5 DEF Empty
  <2>3. At(s, q, w, l) = Absent
    BY <1>2, <1>5, AtFirst, AtNext DEF TableAt
  <2>4. \A k \in l + 1 .. Levels : At(s2, q, w, k) = Absent
    BY <1>2, <2>2, AbsentBelow
  <2>5. \A k \in l .. Levels : At(s, q, w, k) = Absent
    BY <1>2, <2>3, AbsentBelow
  <2>6. ASSUME NEW k \in 0 .. Levels, k # l
        PROVE  At(s2, q, w, k) = At(s, q, w, k)
    <3>1. k \in 0 .. l - 1 \/ (k \in l + 1 .. Levels /\ k \in l .. Levels)
      BY <1>1, <1>2, <2>6
    <3> QED BY <2>1, <2>4, <2>5, <3>1
  <2> QED BY <1>5, <2>1, <2>6
<1> QED BY <1>4, <1>5

LEMMA NewTable ==
  ASSUME NEW s, NEW rt, Tree(s, rt), NEW r \in Roots(rt), NEW v \in Virt,
         r = KRoot => v >= FirstKernel,
         NEW l \in 1 .. Levels - 1, NEW t \in s.free,
         NEW a, a = TableAt(s, r, v, l), a # Absent,
         s.mem[a][Offset(v, l)] = Absent,
         NEW s2, Put(s2, s, a, Offset(v, l), t), s2.free = s.free \ {t}
  PROVE  /\ Grown(s2, s, rt)
         /\ At(s2, r, v, l) = t
         /\ TableAt(s2, r, v, l) = a
<1> DEFINE Through(q, w) == TableAt(s, q, w, l) = a /\ Offset(w, l) = Offset(v, l)
<1>1. Levels \in Nat \ {0, 1} /\ Frames \in Nat /\ Radix \in Nat \ {0, 1}
  BY PageTablesAssumption
<1>2. /\ l \in 1 .. Levels /\ l - 1 \in 0 .. Levels - 1 /\ l \in 0 .. Levels - 1
      /\ l - 1 # l /\ l \in Nat /\ l # Levels /\ Levels \in 0 .. Levels
      /\ \A k \in 0 .. Levels - 1 : k \in 0 .. Levels
  BY <1>1
<1>3. /\ s.mem \in [0 .. Frames -> [0 .. Radix - 1 -> -1 .. Frames]]
      /\ s.free \subseteq 2 .. Frames /\ s.top \in Nat
  BY TreeTyped
<1>4. a \in (1 .. Frames) \ s.free /\ t \in 2 .. Frames /\ t \in 0 .. Frames
      /\ a \in 0 .. Frames /\ a # Absent /\ t # Absent
  <2>1. a \in (1 .. Frames) \ s.free /\ t \in 2 .. Frames
    BY <1>2, TreeTyped DEF TableAt
  <2> QED BY <1>1, <2>1 DEF Absent
<1>23. a = At(s, r, v, l - 1)
  BY DEF TableAt
<1>5. s2.free = s.free \ {t} /\ s2.top = s.top
  BY DEF Put
<1>6. Offset(v, l) \in 0 .. Radix - 1 /\ s.mem[a] \in [0 .. Radix - 1 -> -1 .. Frames]
  BY <1>2, <1>3, <1>4, OffsetTyped
<1>9. /\ EntryIs(s2, s, a, Offset(v, l), t)
      /\ \A g \in 0 .. Frames : g # a => s2.mem[g] = s.mem[g]
  BY DEF Put
<1>7. ASSUME NEW q \in Roots(rt), NEW w \in Virt
      PROVE  /\ Through(q, w) => At(s2, q, w, l) = t
             /\ \A k \in 0 .. Levels :
                  (k = l /\ Through(q, w)) \/ At(s2, q, w, k) = At(s, q, w, k)
  BY <1>4, <1>9, NewTablePath
<1>22. ASSUME NEW q \in Roots(rt), NEW w \in Virt, Through(q, w)
       PROVE  Alike(v, w, l) /\ (q = r \/ (l > 1 /\ v >= FirstKernel))
  BY <1>2, <1>22, SameEntry
<1> HIDE DEF Through
<1>8. Through(r, v)
  BY DEF Through
<1>10. s2 \in Memory
  BY DEF Put
<1>11. \A f \in s2.free : s2.mem[f] = Empty
  <2> SUFFICES ASSUME NEW f \in s2.free PROVE s2.mem[f] = Empty
    OBVIOUS
  <2>1. f \in s.free /\ f # a /\ f \in 2 .. Frames
    BY <1>3, <1>4, <1>5
  <2>2. f \in 0 .. Frames
    BY <1>1, <2>1
  <2> QED BY <1>9, <2>1, <2>2 DEF Tree
<1>12. LastShared(s2, rt)
  <2>1. CASE a \notin Roots(rt)
    <3>1. \A q \in Roots(rt) : s2.mem[q] = s.mem[q]
      <4>1. Roots(rt) \subseteq 0 .. Frames
        BY <1>1, TreeTyped
      <4> QED BY <1>9, <2>1, <4>1
    <3>2. KRoot \in Roots(rt) /\ \A sp \in DOMAIN rt : rt[sp] \in Roots(rt)
      BY TreeTyped
    <3> QED BY <3>1, <3>2 DEF Tree, LastShared
  <2>2. CASE a \in Roots(rt)
    <3>1. l = 1 /\ a = r
      <4>1. At(s, a, v, 0) = a /\ 0 \in 0 .. Levels - 1
        BY <1>1, AtFirst, AtNext
      <4>2. l - 1 = 0
        BY <1>2, <1>4, <1>23, <2>2, <4>1 DEF Tree, Forest
      <4>3. At(s, r, v, 0) = r
        BY AtFirst, AtNext
      <4> QED BY <1>2, <1>23, <4>2, <4>3
    <3>2. CASE v >= FirstKernel
      <4>1. Offset(v, 1) = Radix - 1
        BY <3>2, KernelOffset
      <4>2. s.mem[r][Radix - 1] = Absent
        BY <3>1, <4>1
      <4>3. DOMAIN rt = {}
        <5> SUFFICES ASSUME NEW sp \in DOMAIN rt PROVE FALSE
          OBVIOUS
        <5>1. \A q \in Roots(rt) : s.mem[q][Radix - 1] # Absent
          BY DEF Tree, LastShared, Roots, SpaceRoots
        <5> QED BY <4>2, <5>1
      <4>4. r = KRoot
        BY <4>3 DEF Roots, SpaceRoots
      <4>5. \A e \in 0 .. Radix - 2 : s2.mem[KRoot][e] = s.mem[KRoot][e]
        <5> SUFFICES ASSUME NEW e \in 0 .. Radix - 2
                     PROVE  s2.mem[KRoot][e] = s.mem[KRoot][e]
          OBVIOUS
        <5>1. e \in 0 .. Radix - 1 /\ e # Offset(v, l)
          BY <1>1, <3>1, <4>1
        <5>2. a = KRoot
          BY <3>1, <4>4
        <5> QED BY <1>4, <1>9, <5>1, <5>2 DEF EntryIs
      <4> QED BY <4>3, <4>5 DEF Tree, LastShared
    <3>3. CASE ~(v >= FirstKernel)
      <4>1. Offset(v, 1) # Radix - 1 /\ r # KRoot
        BY <3>3, KernelOffset
      <4>2. \A q \in Roots(rt) : s2.mem[q][Radix - 1] = s.mem[q][Radix - 1]
        <5> SUFFICES ASSUME NEW q \in Roots(rt)
                     PROVE  s2.mem[q][Radix - 1] = s.mem[q][Radix - 1]
          OBVIOUS
        <5>1. q \in 1 .. Frames
          BY TreeTyped
        <5>2. q \in 0 .. Frames /\ Radix - 1 \in 0 .. Radix - 1
          BY <1>1, <5>1
        <5>3. Radix - 1 # Offset(v, l)
          BY <3>1, <4>1
        <5> QED BY <1>9, <5>2, <5>3 DEF EntryIs
      <4>3. s2.mem[KRoot] = s.mem[KRoot]
        <5>1. KRoot \in 0 .. Frames
          <6>1. KRoot \in 1 .. Frames
            BY TreeTyped
          <6> QED BY <1>1, <6>1
        <5> QED BY <1>9, <3>1, <4>1, <5>1
      <4>4. KRoot \in Roots(rt) /\ \A sp \in DOMAIN rt : rt[sp] \in Roots(rt)
        BY TreeTyped
      <4> QED BY <4>2, <4>3, <4>4 DEF Tree, LastShared
    <3> QED BY <3>2, <3>3
  <2> QED BY <2>1, <2>2
<1>13. ASSUME NEW q \in Roots(rt), NEW w \in Virt, NEW k \in 0 .. Levels - 1
       PROVE  \/ At(s2, q, w, k) = At(s, q, w, k)
              \/ At(s2, q, w, k) = t /\ k = l /\ Through(q, w)
  BY <1>2, <1>7
<1>14. ASSUME NEW q \in Roots(rt), NEW w \in Virt, NEW k \in 0 .. Levels - 1
       PROVE  At(s, q, w, k) # t
  BY <1>4, TreeTyped
<1>15. Tables(s2, rt) \subseteq Tables(s, rt) \cup {t}
  BY <1>13 DEF Tables
<1>16. Forest(s2, rt)
  <2> SUFFICES ASSUME NEW q1 \in Roots(rt), NEW q2 \in Roots(rt),
                      NEW w1 \in Virt, NEW w2 \in Virt,
                      NEW k1 \in 0 .. Levels - 1, NEW k2 \in 0 .. Levels - 1,
                      At(s2, q1, w1, k1) # Absent,
                      At(s2, q1, w1, k1) = At(s2, q2, w2, k2)
               PROVE  /\ k1 = k2 /\ Alike(w1, w2, k1)
                      /\ q1 = q2 \/ (k1 > 0 /\ w1 >= FirstKernel)
    BY DEF Forest
  <2>1. CASE At(s2, q1, w1, k1) = t
    <3>1. k1 = l /\ Through(q1, w1) /\ k2 = l /\ Through(q2, w2)
      <4>1. At(s, q1, w1, k1) # t /\ At(s, q2, w2, k2) # t
        BY <1>14
      <4>2. At(s2, q1, w1, k1) = At(s, q1, w1, k1) \/ (k1 = l /\ Through(q1, w1))
        BY <1>13
      <4>3. At(s2, q2, w2, k2) = At(s, q2, w2, k2) \/ (k2 = l /\ Through(q2, w2))
        BY <1>13
      <4> QED BY <2>1, <4>1, <4>2, <4>3
    <3>2. Alike(v, w1, l) /\ Alike(v, w2, l)
      BY <1>22, <3>1
    <3>3. q1 = q2 \/ (l - 1 > 0 /\ w1 >= FirstKernel)
      BY <1>2, <1>4, <3>1 DEF Through, Tree, Forest, TableAt
    <3> QED BY <1>2, <3>1, <3>2, <3>3 DEF Alike
  <2>2. CASE At(s2, q1, w1, k1) # t
    <3>1. /\ At(s2, q1, w1, k1) = At(s, q1, w1, k1)
          /\ At(s2, q2, w2, k2) = At(s, q2, w2, k2)
      <4>1. At(s2, q1, w1, k1) = At(s, q1, w1, k1) \/ At(s2, q1, w1, k1) = t
        BY <1>13
      <4>2. At(s2, q2, w2, k2) = At(s, q2, w2, k2) \/ At(s2, q2, w2, k2) = t
        BY <1>13
      <4> QED BY <2>2, <4>1, <4>2
    <3>2. At(s, q1, w1, k1) # Absent /\ At(s, q1, w1, k1) = At(s, q2, w2, k2)
      BY <3>1
    <3>3. \A q, p \in Roots(rt), x, y \in Virt, j, k \in 0 .. Levels - 1 :
            At(s, q, x, j) # Absent /\ At(s, q, x, j) = At(s, p, y, k)
              => j = k /\ Alike(x, y, j) /\ (q = p \/ (j > 0 /\ x >= FirstKernel))
      BY DEF Tree, Forest
    <3> QED BY <3>2, <3>3
  <2> QED BY <2>1, <2>2
<1>17. Tables(s2, rt) \subseteq (1 .. Frames) \ s2.free
  <2>1. t \in (1 .. Frames) \ s2.free
    BY <1>1, <1>4, <1>5
  <2> QED BY <1>5, <1>15, <2>1 DEF Tree
<1>18. Tree(s2, rt)
  BY <1>10, <1>11, <1>12, <1>16, <1>17 DEF Tree
<1>19. \A q \in Roots(rt), w \in Virt : Leaf(s2, q, w) = Leaf(s, q, w)
  BY <1>2, <1>7 DEF Leaf
<1>20. Grown(s2, s, rt)
  <2>1. s.free \ s2.free = {t}
    BY <1>5
  <2>2. Untouched(s2, s, rt)
    <3>1. a \in Tables(s, rt)
      BY <1>2, <1>4, <1>23 DEF Tables
    <3> QED BY <1>9, <3>1 DEF Untouched
  <2> QED BY <1>5, <1>15, <1>18, <1>19, <2>1, <2>2 DEF Grown
<1>21. At(s2, r, v, l) = t /\ TableAt(s2, r, v, l) = a
  BY <1>2, <1>7, <1>8 DEF TableAt
<1> QED BY <1>20, <1>21

-----------------------------------------------------------------------------
(* The way down. *)

LEMMA MemPut ==
  ASSUME NEW m, NEW fr, NEW tp, NEW a, NEW o, NEW t
  PROVE  [[mem |-> m, free |-> fr, top |-> tp] EXCEPT !.mem[a][o] = t]
           = [mem |-> [m EXCEPT ![a][o] = t], free |-> fr, top |-> tp]
OBVIOUS

LEMMA FreeFinite ==
  ASSUME NEW s, NEW rt, Tree(s, rt)
  PROVE  IsFiniteSet(s.free) /\ Cardinality(s.free) \in Nat
<1>1. s.free \subseteq 2 .. Frames /\ Frames \in Nat
  BY TreeTyped, PageTablesAssumption
<1>2. IsFiniteSet(2 .. Frames)
  <2>1. 2 \in Int /\ Frames \in Int
    BY <1>1
  <2> QED BY <2>1, FS_Interval
<1>3. IsFiniteSet(s.free)
  <2>1. s.free \in SUBSET (2 .. Frames)
    BY <1>1
  <2> QED BY <1>2, <2>1, FS_Subset
<1> QED BY <1>3, FS_CardinalityType

\* There is a frame on offer, and the next one is.
LEMMA NextFreeIs ==
  ASSUME NEW s, NEW rt, Tree(s, rt), Cardinality(s.free) >= 1
  PROVE  /\ NextFree(s) \in s.free /\ NextFree(s) \in 2 .. Frames
         /\ IsFiniteSet(s.free \ {NextFree(s)})
         /\ Cardinality(s.free \ {NextFree(s)}) = Cardinality(s.free) - 1
         /\ Taken(s) = [mem |-> s.mem, free |-> s.free \ {NextFree(s)}, top |-> s.top]
<1>1. IsFiniteSet(s.free) /\ s.free # {} /\ s.free \subseteq 2 .. Frames
  BY FreeFinite, FS_EmptySet, TreeTyped
<1>2. s.free \subseteq Nat
  BY <1>1, PageTablesAssumption
<1>3. \E i \in s.free : \A j \in s.free : i <= j
  BY <1>1, <1>2, LeastOf
<1>4. Min(s.free) \in s.free
  BY <1>3 DEF Min
<1>5. Cardinality(s.free \ {Min(s.free)}) = Cardinality(s.free) - 1
      /\ IsFiniteSet(s.free \ {Min(s.free)})
  BY <1>1, <1>4, FS_RemoveElement
<1>6. s = [mem |-> s.mem, free |-> s.free, top |-> s.top]
  BY TreeTyped
<1>7. Taken(s) = [mem |-> s.mem, free |-> s.free \ {Min(s.free)}, top |-> s.top]
  BY <1>6 DEF Taken
<1> QED BY <1>1, <1>4, <1>5, <1>7 DEF NextFree

LEMMA GrownSelf ==
  ASSUME NEW s, NEW rt, Tree(s, rt)
  PROVE  Grown(s, s, rt)
BY DEF Grown, Untouched

LEMMA UntouchedOn ==
  ASSUME NEW s, NEW s2, NEW s3, NEW rt, s2.free \subseteq s.free,
         Tables(s2, rt) \subseteq Tables(s, rt) \cup (s.free \ s2.free),
         Untouched(s2, s, rt), Untouched(s3, s2, rt)
  PROVE  Untouched(s3, s, rt)
<1> SUFFICES ASSUME NEW g \in 0 .. Frames, g \notin Tables(s, rt) \cup s.free
             PROVE  s3.mem[g] = s.mem[g]
  BY DEF Untouched
<1>1. g \notin Tables(s2, rt) \cup s2.free
  OBVIOUS
<1> QED BY <1>1 DEF Untouched

LEMMA GrownOn ==
  ASSUME NEW s, NEW s2, NEW s3, NEW rt, Grown(s2, s, rt), Grown(s3, s2, rt)
  PROVE  Grown(s3, s, rt)
<1>1. /\ Tree(s3, rt) /\ s3.free \subseteq s.free /\ s3.top = s.top
      /\ \A q \in Roots(rt), w \in Virt : Leaf(s3, q, w) = Leaf(s, q, w)
  BY DEF Grown
<1>2. Tables(s3, rt) \subseteq Tables(s2, rt) \cup (s2.free \ s3.free)
  BY DEF Grown
<1>3. Tables(s2, rt) \subseteq Tables(s, rt) \cup (s.free \ s2.free)
  BY DEF Grown
<1>4. s3.free \subseteq s2.free /\ s2.free \subseteq s.free
  BY DEF Grown
<1>5. Tables(s3, rt) \subseteq Tables(s, rt) \cup (s.free \ s3.free)
  BY <1>2, <1>3, <1>4
<1>6. Untouched(s3, s, rt)
  BY <1>3, <1>4, UntouchedOn DEF Grown
<1> QED BY <1>1, <1>5, <1>6 DEF Grown

\* One level.
LEMMA BelowGrown ==
  ASSUME NEW s, NEW rt, Tree(s, rt), NEW r \in Roots(rt), NEW v \in Virt,
         r = KRoot => v >= FirstKernel,
         NEW l \in 1 .. Levels - 1, Cardinality(s.free) >= 1,
         NEW a, a = At(s, r, v, l - 1), a # Absent,
         NEW d, d = Below(s, a, v, l)
  PROVE  /\ Grown(d.s, s, rt)
         /\ Cardinality(d.s.free) >= Cardinality(s.free) - 1
         /\ d.at = At(d.s, r, v, l) /\ d.at # Absent
<1> DEFINE n == Descend(s, a, v, l)
           t == NextFree(s)
<1>1. d.s = n /\ d.at = n.mem[a][Offset(v, l)]
  BY DEF Below
<1>2. Levels \in Nat /\ l \in 1 .. Levels /\ Cardinality(s.free) \in Nat
  BY PageTablesAssumption, FreeFinite
<1>3. CASE s.mem[a][Offset(v, l)] # Absent
  <2>1. n = s
    BY <1>3 DEF Descend
  <2>2. At(s, r, v, l) = s.mem[a][Offset(v, l)]
    BY <1>2, AtFirst, AtNext
  <2>3. Grown(s, s, rt)
    BY GrownSelf
  <2> HIDE DEF n
  <2> QED BY <1>1, <1>2, <1>3, <2>1, <2>2, <2>3
<1>4. CASE s.mem[a][Offset(v, l)] = Absent
  <2>1. /\ t \in s.free /\ Cardinality(s.free \ {t}) = Cardinality(s.free) - 1
        /\ Taken(s) = [mem |-> s.mem, free |-> s.free \ {t}, top |-> s.top]
    BY NextFreeIs
  <2> HIDE DEF t
  <2>2. n = [mem  |-> [s.mem EXCEPT ![a][Offset(v, l)] = t],
             free |-> s.free \ {t}, top |-> s.top]
    <3>1. n = [Taken(s) EXCEPT !.mem[a][Offset(v, l)] = t]
      BY <1>4 DEF Descend, t
    <3> HIDE DEF n
    <3>2. n = [[mem |-> s.mem, free |-> s.free \ {t}, top |-> s.top]
                 EXCEPT !.mem[a][Offset(v, l)] = t]
      BY <2>1, <3>1
    <3> QED BY <3>2, MemPut
  <2> HIDE DEF n
  <2>3. /\ Grown(n, s, rt)
        /\ At(n, r, v, l) = t
        /\ At(n, r, v, l - 1) = a
    <3>1. a \in 0 .. Frames /\ Offset(v, l) \in 0 .. Radix - 1 /\ t \in -1 .. Frames
      <4>1. l - 1 \in 0 .. Levels - 1 /\ Frames \in Nat
        BY <1>2, PageTablesAssumption
      <4>2. a \in 1 .. Frames /\ t \in 2 .. Frames
        BY <2>1, <4>1, TreeTyped
      <4> QED BY <1>2, <4>1, <4>2, OffsetTyped
    <3>2. Put(n, s, a, Offset(v, l), t) /\ n.free = s.free \ {t}
      <4>1. s.free \ {t} \in SUBSET s.free /\ s \in Memory
        BY DEF Tree
      <4> QED BY <2>2, <3>1, <4>1, MemoryPut
    <3>3. a = TableAt(s, r, v, l)
      BY DEF TableAt
    <3>4. Grown(n, s, rt) /\ At(n, r, v, l) = t /\ TableAt(n, r, v, l) = a
      BY <1>4, <2>1, <3>2, <3>3, NewTable
    <3> QED BY <3>4 DEF TableAt
  <2>4. At(n, r, v, l) = n.mem[a][Offset(v, l)]
    BY <1>2, <2>3, AtFirst, AtNext
  <2>5. t # Absent
    <3>1. t \in 2 .. Frames
      BY <2>1, TreeTyped
    <3> QED BY <3>1, PageTablesAssumption DEF Absent
  <2>6. Cardinality(n.free) >= Cardinality(s.free) - 1
    BY <1>2, <2>1, <2>2
  <2> QED BY <1>1, <2>3, <2>4, <2>5, <2>6
<1> QED BY <1>3, <1>4

LEMMA DescentExists ==
  ASSUME NEW s, NEW r, NEW v
  PROVE  LET down == Descent(s, r, v) IN
         down = [l \in 0 .. Levels - 1 |->
                   IF l = 0 THEN [s |-> s, at |-> r]
                   ELSE Below(down[l - 1].s, down[l - 1].at, v, l)]
<1> DEFINE Next1(l, d) == Below(d.s, d.at, v, l)
           First1 == [s |-> s, at |-> r]
           Upto(n) == \E g : g = [l \in 0 .. n |-> IF l = 0 THEN First1 ELSE Next1(l, g[l - 1])]
           P == {n \in 0 .. Levels - 1 : Upto(n)}
<1>1. Levels - 1 \in Nat
  BY PageTablesAssumption
<1>2. 0 \in P
  <2> DEFINE g == [l \in 0 .. 0 |-> First1]
  <2> HIDE DEF Next1, First1
  <2>1. g = [l \in 0 .. 0 |-> IF l = 0 THEN First1 ELSE Next1(l, g[l - 1])]
    OBVIOUS
  <2>2. Upto(0)
    BY <2>1
  <2> QED BY <1>1, <2>2
<1>3. ASSUME NEW n \in 1 .. Levels - 1, n - 1 \in P PROVE n \in P
  <2> HIDE DEF Next1, First1
  <2>1. PICK g : g = [l \in 0 .. n - 1 |-> IF l = 0 THEN First1 ELSE Next1(l, g[l - 1])]
    BY <1>3
  <2> DEFINE h == [l \in 0 .. n |-> IF l < n THEN g[l] ELSE Next1(n, g[n - 1])]
  <2>2. ASSUME NEW l \in 0 .. n
        PROVE  h[l] = IF l = 0 THEN First1 ELSE Next1(l, h[l - 1])
    <3>1. l # 0 => l - 1 \in 0 .. n - 1 /\ h[l - 1] = g[l - 1]
      BY <1>1
    <3>2. l < n => g[l] = IF l = 0 THEN First1 ELSE Next1(l, g[l - 1])
      BY <1>1, <2>1
    <3> QED BY <1>1, <3>1, <3>2
  <2>3. h = [l \in 0 .. n |-> IF l = 0 THEN First1 ELSE Next1(l, h[l - 1])]
    BY <2>2
  <2> HIDE DEF h
  <2>4. Upto(n)
    BY <2>3
  <2> QED BY <2>4
<1> HIDE DEF P
<1>4. Levels - 1 \in P
  BY <1>1, <1>2, <1>3, Upward
<1> QED BY <1>4 DEF P, Descent

LEMMA DescentFirst ==
  ASSUME NEW s, NEW r, NEW v
  PROVE  Descent(s, r, v)[0] = [s |-> s, at |-> r]
<1> DEFINE down == Descent(s, r, v)
<1>1. down = [l \in 0 .. Levels - 1 |->
                IF l = 0 THEN [s |-> s, at |-> r]
                ELSE Below(down[l - 1].s, down[l - 1].at, v, l)]
  BY DescentExists
<1>2. Levels - 1 \in Nat
  BY PageTablesAssumption
<1> HIDE DEF down
<1>3. down[0] = [s |-> s, at |-> r]
  BY <1>1, <1>2
<1> QED BY <1>3 DEF down

LEMMA DescentNext ==
  ASSUME NEW s, NEW r, NEW v, NEW l \in 1 .. Levels - 1
  PROVE  Descent(s, r, v)[l]
           = Below(Descent(s, r, v)[l - 1].s, Descent(s, r, v)[l - 1].at, v, l)
<1> DEFINE down == Descent(s, r, v)
<1>1. down = [k \in 0 .. Levels - 1 |->
                IF k = 0 THEN [s |-> s, at |-> r]
                ELSE Below(down[k - 1].s, down[k - 1].at, v, k)]
  BY DescentExists
<1>2. l \in 0 .. Levels - 1 /\ l # 0
  BY PageTablesAssumption
<1> HIDE DEF down
<1>3. down[l] = Below(down[l - 1].s, down[l - 1].at, v, l)
  BY <1>1, <1>2
<1> QED BY <1>3 DEF down

\* All levels but the last: the table with the entry for v is there.
LEMMA Descended ==
  ASSUME NEW s, NEW rt, Tree(s, rt), NEW r \in Roots(rt), NEW v \in Virt,
         r = KRoot => v >= FirstKernel,
         Cardinality(s.free) >= Levels
  PROVE  \A l \in 0 .. Levels - 1 :
           LET d == Descent(s, r, v)[l] IN
           /\ Grown(d.s, s, rt)
           /\ Cardinality(d.s.free) >= Cardinality(s.free) - l
           /\ d.at = At(d.s, r, v, l) /\ d.at # Absent
<1> DEFINE D(l) == Descent(s, r, v)[l]
           P == {l \in 0 .. Levels - 1 :
                   /\ Grown(D(l).s, s, rt)
                   /\ Cardinality(D(l).s.free) >= Cardinality(s.free) - l
                   /\ D(l).at = At(D(l).s, r, v, l) /\ D(l).at # Absent}
<1>1. Levels - 1 \in Nat /\ Levels \in Nat /\ Cardinality(s.free) \in Nat
  BY PageTablesAssumption, FreeFinite
<1>2. 0 \in P
  <2>1. D(0).s = s /\ D(0).at = r
    <3>1. D(0) = [s |-> s, at |-> r]
      BY DescentFirst
    <3> HIDE DEF D
    <3> QED BY <3>1
  <2>2. r # Absent /\ At(s, r, v, 0) = r
    BY TreeTyped, AtFirst, AtNext, PageTablesAssumption DEF Absent
  <2>3. Grown(s, s, rt)
    BY GrownSelf
  <2> HIDE DEF D
  <2> QED BY <1>1, <2>1, <2>2, <2>3
<1>3. ASSUME NEW l \in 1 .. Levels - 1, l - 1 \in P PROVE l \in P
  <2> DEFINE c == D(l - 1)
             d == D(l)
  <2>1. /\ Grown(c.s, s, rt)
        /\ Cardinality(c.s.free) >= Cardinality(s.free) - (l - 1)
        /\ c.at = At(c.s, r, v, l - 1) /\ c.at # Absent
    BY <1>3
  <2>2. d = Below(c.s, c.at, v, l)
    <3>1. Descent(s, r, v)[l]
            = Below(Descent(s, r, v)[l - 1].s, Descent(s, r, v)[l - 1].at, v, l)
      <4> HIDE DEF c, d, D
      <4> QED BY DescentNext
    <3> QED BY <3>1
  <2> HIDE DEF c, d, P
  <2>3. Tree(c.s, rt)
    BY <2>1 DEF Grown
  <2>4. Cardinality(c.s.free) \in Nat
    BY <2>3, FreeFinite
  <2>5. Cardinality(c.s.free) >= 1
    BY <1>1, <2>1, <2>4
  <2>6. /\ Grown(d.s, c.s, rt)
        /\ Cardinality(d.s.free) >= Cardinality(c.s.free) - 1
        /\ d.at = At(d.s, r, v, l) /\ d.at # Absent
    BY <2>1, <2>2, <2>3, <2>5, BelowGrown
  <2>7. Grown(d.s, s, rt)
    BY <2>1, <2>6, GrownOn
  <2>8. Cardinality(d.s.free) \in Nat
    <3>1. Tree(d.s, rt)
      BY <2>7 DEF Grown
    <3> QED BY <3>1, FreeFinite
  <2>9. Cardinality(d.s.free) >= Cardinality(s.free) - l
    BY <1>1, <2>1, <2>4, <2>6, <2>8
  <2>10. l \in 0 .. Levels - 1
    BY <1>1
  <2> QED BY <2>6, <2>7, <2>9, <2>10 DEF d, P
<1>4. 0 .. Levels - 1 \subseteq P
  <2> HIDE DEF P
  <2> QED BY <1>1, <1>2, <1>3, Upward
<1> QED BY <1>4

-----------------------------------------------------------------------------
(* A page is mapped. *)

\* The entry for v in the last table: no other page is mapped otherwise, but
\* through the tables that the kernel's pages hang on in all spaces.
LEMMA SetLeaf ==
  ASSUME NEW s, NEW rt, Tree(s, rt), NEW r \in Roots(rt), NEW v \in Virt,
         NEW a, a = At(s, r, v, Levels - 1), a # Absent,
         NEW f \in -1 .. Frames,
         NEW s2, s2 = [mem  |-> [s.mem EXCEPT ![a][Offset(v, Levels)] = f],
                       free |-> s.free, top |-> s.top]
  PROVE  /\ Tree(s2, rt) /\ Tables(s2, rt) = Tables(s, rt) /\ Untouched(s2, s, rt)
         /\ \A q \in Roots(rt), w \in Virt :
              Leaf(s2, q, w) = IF w = v /\ (q = r \/ w >= FirstKernel) THEN f
                               ELSE Leaf(s, q, w)
<1> DEFINE o == Offset(v, Levels)
<1>1. Levels \in Nat \ {0, 1} /\ Frames \in Nat /\ Radix \in Nat \ {0, 1}
  BY PageTablesAssumption
<1>2. /\ Levels \in 1 .. Levels /\ Levels - 1 \in 0 .. Levels - 1 /\ Levels \in 0 .. Levels
      /\ Levels - 1 # 0 /\ 0 \in 0 .. Levels - 1 /\ Levels - 1 \in 1 .. Levels
      /\ \A k \in 0 .. Levels - 1 : k \in 0 .. Levels
  BY <1>1
<1>3. /\ s.mem \in [0 .. Frames -> [0 .. Radix - 1 -> -1 .. Frames]]
      /\ s.free \subseteq 2 .. Frames /\ s.top \in Nat
  BY TreeTyped
<1>4. a \in (1 .. Frames) \ s.free /\ a \in 0 .. Frames
  <2>1. a \in (1 .. Frames) \ s.free
    BY <1>2, TreeTyped
  <2> QED BY <1>1, <2>1
<1>5. o \in 0 .. Radix - 1 /\ s.mem[a] \in [0 .. Radix - 1 -> -1 .. Frames]
  BY <1>2, <1>3, <1>4, OffsetTyped
<1>8. s2.free = s.free /\ s2.top = s.top /\ s2.mem = [s.mem EXCEPT ![a][o] = f]
  OBVIOUS
<1>9. /\ EntryIs(s2, s, a, Offset(v, Levels), f)
      /\ s2.mem \in [0 .. Frames -> [0 .. Radix - 1 -> -1 .. Frames]]
      /\ \A g \in 0 .. Frames : g # a => s2.mem[g] = s.mem[g]
  BY <1>3, <1>4, <1>5, <1>8, EntryPut
<1>15. a = TableAt(s, r, v, Levels)
  BY DEF TableAt
<1>6. ASSUME NEW q \in Roots(rt), NEW w \in Virt
      PROVE  /\ \A k \in 0 .. Levels - 1 : At(s2, q, w, k) = At(s, q, w, k)
             /\ Leaf(s2, q, w) = IF w = v /\ (q = r \/ w >= FirstKernel) THEN f
                                 ELSE Leaf(s, q, w)
  <2>2. CASE TableAt(s, q, w, Levels) = a /\ Offset(w, Levels) = o
    <3>1. /\ \A k \in 0 .. Levels - 1 : At(s2, q, w, k) = At(s, q, w, k)
          /\ At(s2, q, w, Levels) = f
      BY <1>2, <1>9, <1>15, <2>2, EntryThrough
    <3>2. Alike(v, w, Levels) /\ (q = r \/ (Levels > 1 /\ v >= FirstKernel))
      BY <1>2, <1>15, <2>2, SameEntry
    <3>3. v = w
      BY <3>2, OffsetsTell
    <3> QED BY <3>1, <3>2, <3>3 DEF Leaf
  <2>3. CASE ~(TableAt(s, q, w, Levels) = a /\ Offset(w, Levels) = o)
    <3>1. \A k \in 0 .. Levels : At(s2, q, w, k) = At(s, q, w, k)
      BY <1>2, <1>9, <1>15, <2>3, EntryPath
    <3>2. ~(w = v /\ (q = r \/ w >= FirstKernel))
      <4> SUFFICES ASSUME w = v, q = r \/ w >= FirstKernel PROVE FALSE
        OBVIOUS
      <4>1. CASE q = r
        BY <1>15, <2>3, <4>1
      <4>2. CASE w >= FirstKernel
        <5>1. /\ At(s, q, v, Levels - 1) = At(s, KRoot, v, Levels - 1)
              /\ At(s, r, v, Levels - 1) = At(s, KRoot, v, Levels - 1)
          BY <1>2, <4>2, KernelPath
        <5> QED BY <2>3, <5>1 DEF TableAt
      <4> QED BY <4>1, <4>2
    <3> QED BY <1>2, <3>1, <3>2 DEF Leaf
  <2> QED BY <2>2, <2>3
<1>7. Tables(s2, rt) = Tables(s, rt)
  BY <1>6 DEF Tables
<1>10. s2 \in Memory
  BY <1>3, <1>8, <1>9 DEF Memory
<1>11. \A g \in s2.free : s2.mem[g] = Empty
  <2> SUFFICES ASSUME NEW g \in s2.free PROVE s2.mem[g] = Empty
    OBVIOUS
  <2>1. g \in s.free /\ g # a /\ g \in 2 .. Frames
    BY <1>3, <1>4, <1>8
  <2>2. g \in 0 .. Frames
    BY <1>1, <2>1
  <2> QED BY <1>9, <2>1, <2>2 DEF Tree
<1>12. \A q \in Roots(rt) : s2.mem[q] = s.mem[q]
  <2> SUFFICES ASSUME NEW q \in Roots(rt) PROVE s2.mem[q] = s.mem[q]
    OBVIOUS
  <2>1. q \in 1 .. Frames
    BY TreeTyped
  <2>2. q # a
    <3> SUFFICES ASSUME q = a PROVE FALSE
      OBVIOUS
    <3>1. At(s, q, v, 0) = At(s, r, v, Levels - 1)
      BY AtFirst, AtNext
    <3>2. At(s, q, v, 0) # Absent
      BY <3>1
    <3> QED BY <1>2, <3>1, <3>2 DEF Tree, Forest
  <2>3. q \in 0 .. Frames
    BY <1>1, <2>1
  <2> QED BY <1>9, <2>2, <2>3
<1>13. LastShared(s2, rt)
  <2>1. KRoot \in Roots(rt) /\ \A sp \in DOMAIN rt : rt[sp] \in Roots(rt)
    BY TreeTyped
  <2> QED BY <1>12, <2>1 DEF Tree, LastShared
<1>14. Forest(s2, rt)
  BY <1>6 DEF Tree, Forest
<1>16. Untouched(s2, s, rt)
  <2>1. a \in Tables(s, rt)
    BY <1>2 DEF Tables
  <2> QED BY <1>9, <2>1 DEF Untouched
<1> QED BY <1>6, <1>7, <1>8, <1>10, <1>11, <1>13, <1>14, <1>16 DEF Tree

\* What map_virt_to_phy does: v leads to f, from r, and from every root if it is
\* a page of the kernel; tables may have been taken from the frames on offer.
Mapping(s2, s, rt, r, v, f) ==
  /\ Tree(s2, rt) /\ Untouched(s2, s, rt)
  /\ s2.free \subseteq s.free /\ s2.top = s.top
  /\ Tables(s2, rt) \subseteq Tables(s, rt) \cup (s.free \ s2.free)
  /\ \A q \in Roots(rt), w \in Virt :
       Leaf(s2, q, w) = IF w = v /\ (q = r \/ w >= FirstKernel) THEN f
                        ELSE Leaf(s, q, w)

LEMMA MapVirtToPhyMaps ==
  ASSUME NEW s, NEW rt, Tree(s, rt), NEW r \in Roots(rt), NEW v \in Virt,
         r = KRoot => v >= FirstKernel, Cardinality(s.free) >= Levels,
         NEW f \in 0 .. Frames,
         NEW s2, s2 = MapVirtToPhy(s, r, v, f)
  PROVE  /\ Mapping(s2, s, rt, r, v, f)
         /\ Cardinality(s2.free) >= Cardinality(s.free) - (Levels - 1)
<1> DEFINE d == Descent(s, r, v)[Levels - 1]
           n == d.s
           a == d.at
<1>1. Levels - 1 \in 0 .. Levels - 1 /\ f \in -1 .. Frames
  BY PageTablesAssumption
<1>2. /\ Grown(n, s, rt) /\ Cardinality(n.free) >= Cardinality(s.free) - (Levels - 1)
      /\ a = At(n, r, v, Levels - 1) /\ a # Absent
  BY <1>1, Descended
<1>3. s2 = [n EXCEPT !.mem[a][Offset(v, Levels)] = f]
  BY DEF MapVirtToPhy
<1> HIDE DEF n, a
<1>4. Tree(n, rt)
  BY <1>2 DEF Grown
<1>5. n = [mem |-> n.mem, free |-> n.free, top |-> n.top]
  BY <1>4, TreeTyped
<1>6. s2 = [mem  |-> [n.mem EXCEPT ![a][Offset(v, Levels)] = f],
            free |-> n.free, top |-> n.top]
  <2>1. s2 = [[mem |-> n.mem, free |-> n.free, top |-> n.top]
                EXCEPT !.mem[a][Offset(v, Levels)] = f]
    BY <1>3, <1>5
  <2> QED BY <2>1, MemPut
<1>7. /\ Tree(s2, rt) /\ Tables(s2, rt) = Tables(n, rt) /\ Untouched(s2, n, rt)
      /\ \A q \in Roots(rt), w \in Virt :
           Leaf(s2, q, w) = IF w = v /\ (q = r \/ w >= FirstKernel) THEN f
                            ELSE Leaf(n, q, w)
  BY <1>1, <1>2, <1>4, <1>6, SetLeaf
<1>8. s2.free = n.free /\ s2.top = n.top
  BY <1>6
<1>9. Mapping(s2, s, rt, r, v, f)
  <2>1. Untouched(s2, s, rt)
    BY <1>2, <1>7, UntouchedOn DEF Grown
  <2> QED BY <1>2, <1>7, <1>8, <2>1 DEF Grown, Mapping
<1> QED BY <1>2, <1>8, <1>9

\* Frames that are no tables may be taken, given back and written to.
Beside(s2, s, rt) ==
  /\ s2 \in Memory
  /\ \A t \in (1 .. Frames) \cap Tables(s, rt) : s2.mem[t] = s.mem[t]
  /\ \A g \in s2.free : s2.mem[g] = Empty
  /\ Tables(s, rt) \cap s2.free = {}

LEMMA Elsewhere ==
  ASSUME NEW s, NEW rt, Tree(s, rt), NEW s2, Beside(s2, s, rt)
  PROVE  /\ Tree(s2, rt) /\ Tables(s2, rt) = Tables(s, rt)
         /\ \A q \in Roots(rt), w \in Virt : Leaf(s2, q, w) = Leaf(s, q, w)
<1>1. Levels \in Nat \ {0, 1} /\ Frames \in Nat
  BY PageTablesAssumption
<1>2. 0 \in 0 .. Levels - 1 /\ \A l \in 1 .. Levels : l - 1 \in 0 .. Levels - 1
  BY <1>1
<1>3. ASSUME NEW q \in Roots(rt), NEW w \in Virt
      PROVE  \A k \in 0 .. Levels : At(s2, q, w, k) = At(s, q, w, k)
  <2>1. ASSUME NEW l \in 1 .. Levels, At(s, q, w, l - 1) # Absent
        PROVE  s2.mem[At(s, q, w, l - 1)] = s.mem[At(s, q, w, l - 1)]
    <3>1. l - 1 \in 0 .. Levels - 1
      BY <1>2
    <3>2. At(s, q, w, l - 1) \in Tables(s, rt)
      BY <2>1, <3>1 DEF Tables
    <3>3. At(s, q, w, l - 1) \in 1 .. Frames
      BY <2>1, <3>1, TreeTyped
    <3> QED BY <3>2, <3>3 DEF Beside
  <2> QED BY <2>1, SameAt
<1>4. \A k \in 0 .. Levels - 1 : k \in 0 .. Levels
  BY <1>1
<1>5. Tables(s2, rt) = Tables(s, rt) /\ Forest(s2, rt)
  BY <1>3, <1>4 DEF Tables, Forest, Tree
<1>6. \A q \in Roots(rt) : s2.mem[q] = s.mem[q]
  <2> SUFFICES ASSUME NEW q \in Roots(rt) PROVE s2.mem[q] = s.mem[q]
    OBVIOUS
  <2>1. 0 \in Virt
    BY AddressesTyped DEF Virt
  <2>2. At(s, q, 0, 0) = q /\ q \in 1 .. Frames
    BY AtFirst, AtNext, TreeTyped
  <2>3. q # Absent
    BY <1>1, <2>2 DEF Absent
  <2>4. q \in Tables(s, rt)
    BY <1>2, <2>1, <2>2, <2>3 DEF Tables
  <2> QED BY <2>2, <2>4 DEF Beside
<1>7. LastShared(s2, rt)
  <2>1. KRoot \in Roots(rt) /\ \A sp \in DOMAIN rt : rt[sp] \in Roots(rt)
    BY TreeTyped
  <2> QED BY <1>6, <2>1 DEF Tree, LastShared
<1>8. Tables(s2, rt) \subseteq (1 .. Frames) \ s2.free
  BY <1>5 DEF Tree, Beside
<1>9. \A q \in Roots(rt), w \in Virt : Leaf(s2, q, w) = Leaf(s, q, w)
  BY <1>1, <1>3 DEF Leaf
<1>10. Tree(s2, rt)
  BY <1>5, <1>7, <1>8 DEF Tree, Beside
<1> QED BY <1>5, <1>9, <1>10

LEMMA TakenTree ==
  ASSUME NEW s, NEW rt, Tree(s, rt), Cardinality(s.free) >= 1
  PROVE  /\ Tree(Taken(s), rt) /\ Tables(Taken(s), rt) = Tables(s, rt)
         /\ Taken(s).free = s.free \ {NextFree(s)} /\ Taken(s).top = s.top
         /\ Taken(s).mem = s.mem
         /\ Cardinality(Taken(s).free) = Cardinality(s.free) - 1
         /\ \A q \in Roots(rt), w \in Virt : Leaf(Taken(s), q, w) = Leaf(s, q, w)
<1> DEFINE s2 == Taken(s)
<1>1. /\ s2 = [mem |-> s.mem, free |-> s.free \ {NextFree(s)}, top |-> s.top]
      /\ Cardinality(s.free \ {NextFree(s)}) = Cardinality(s.free) - 1
  BY NextFreeIs
<1> HIDE DEF s2
<1>2. s2.mem = s.mem /\ s2.free = s.free \ {NextFree(s)} /\ s2.top = s.top
  BY <1>1
<1>3. s2 \in Memory
  BY <1>1, TreeTyped DEF Memory
<1>4. \A g \in s2.free : s2.mem[g] = Empty
  BY <1>2 DEF Tree
<1>5. Tables(s, rt) \cap s2.free = {}
  BY <1>2 DEF Tree
<1>6. /\ Tree(s2, rt) /\ Tables(s2, rt) = Tables(s, rt)
      /\ \A q \in Roots(rt), w \in Virt : Leaf(s2, q, w) = Leaf(s, q, w)
  <2>1. Beside(s2, s, rt)
    BY <1>2, <1>3, <1>4, <1>5 DEF Beside
  <2> QED BY <2>1, Elsewhere
<1> QED BY <1>1, <1>2, <1>6 DEF s2

LEMMA AllocMaps ==
  ASSUME NEW s, NEW rt, Tree(s, rt), NEW r \in Roots(rt), NEW v \in Virt,
         r = KRoot => v >= FirstKernel, Cardinality(s.free) > Levels,
         NEW s2, s2 = AllocAtVirt(s, r, v)
  PROVE  /\ Mapping(s2, s, rt, r, v, NextFree(s))
         /\ NextFree(s) \in s.free \ s2.free
         /\ NextFree(s) \notin Tables(s2, rt)
         /\ Cardinality(s2.free) >= Cardinality(s.free) - Levels
<1> DEFINE n == Taken(s)
           t == NextFree(s)
<1>1. Levels \in Nat \ {0, 1} /\ Cardinality(s.free) \in Nat
  BY PageTablesAssumption, FreeFinite
<1>2. Cardinality(s.free) >= 1
  BY <1>1
<1>3. /\ Tree(n, rt) /\ Tables(n, rt) = Tables(s, rt)
      /\ n.free = s.free \ {t} /\ n.top = s.top /\ n.mem = s.mem
      /\ Cardinality(n.free) = Cardinality(s.free) - 1
      /\ \A q \in Roots(rt), w \in Virt : Leaf(n, q, w) = Leaf(s, q, w)
  BY <1>2, TakenTree
<1>4. t \in s.free /\ t \in 0 .. Frames
  <2>1. t \in s.free /\ t \in 2 .. Frames
    BY <1>2, NextFreeIs
  <2> QED BY <2>1, PageTablesAssumption
<1>5. s2 = MapVirtToPhy(n, r, v, t)
  BY DEF AllocAtVirt
<1> HIDE DEF n, t
<1>6. /\ Mapping(s2, n, rt, r, v, t)
      /\ Cardinality(s2.free) >= Cardinality(n.free) - (Levels - 1)
  <2>1. Cardinality(n.free) >= Levels
    BY <1>1, <1>3
  <2> QED BY <1>3, <1>4, <1>5, <2>1, MapVirtToPhyMaps
<1>7. Tables(s2, rt) \subseteq Tables(s, rt) \cup (n.free \ s2.free)
  BY <1>3, <1>6 DEF Mapping
<1>8. t \notin Tables(s2, rt)
  BY <1>3, <1>4, <1>7 DEF Tree
<1>9. Mapping(s2, s, rt, r, v, t) /\ t \in s.free \ s2.free
  <2>1. Untouched(s2, s, rt)
    BY <1>3, <1>6 DEF Mapping, Untouched
  <2> QED BY <1>3, <1>4, <1>6, <1>7, <2>1 DEF Mapping
<1>10. Cardinality(s2.free) \in Nat
  <2>1. Tree(s2, rt)
    BY <1>6 DEF Mapping
  <2> QED BY <2>1, FreeFinite
<1>11. Cardinality(s2.free) >= Cardinality(s.free) - Levels
  BY <1>1, <1>3, <1>6, <1>10
<1> QED BY <1>8, <1>9, <1>11 DEF t

-----------------------------------------------------------------------------
(* What stays apart, whatever is mapped. *)

LEMMA MapKernelApart ==
  ASSUME NEW s, NEW s2, NEW rt, Tree(s, rt), Apart(s, rt),
         NEW r \in Roots(rt), NEW v \in KernelPages,
         NEW f, f \notin s2.free, Mapping(s2, s, rt, r, v, f),
         \A q \in SpaceRoots(rt), p \in UserPages : Leaf(s, q, p) # f
  PROVE  Apart(s2, rt)
<1>1. /\ KernelPages \subseteq Virt /\ UserPages \subseteq Virt
      /\ \A p \in UserPages : ~(p >= FirstKernel) /\ p # v
      /\ \A w \in KernelPages : w >= FirstKernel
  BY AddressesTyped DEF Virt
<1>2. KRoot \in Roots(rt) /\ SpaceRoots(rt) \subseteq Roots(rt)
  BY DEF Roots
<1>3. \A q \in SpaceRoots(rt), p \in UserPages : Leaf(s2, q, p) = Leaf(s, q, p)
  BY <1>1, <1>2 DEF Mapping
<1>4. \A w \in KernelPages : Leaf(s2, KRoot, w) = IF w = v THEN f ELSE Leaf(s, KRoot, w)
  BY <1>1, <1>2 DEF Mapping
<1>5. /\ s2.free \subseteq s.free
      /\ Tables(s2, rt) \subseteq Tables(s, rt) \cup (s.free \ s2.free)
  BY DEF Mapping
<1>6. \A w \in KernelPages : Leaf(s2, KRoot, w) \notin s2.free
  BY <1>4, <1>5 DEF Apart
<1>7. \A q \in SpaceRoots(rt), p \in UserPages :
        Leaf(s2, q, p) \notin s2.free /\ Leaf(s2, q, p) \notin Tables(s2, rt)
  BY <1>3, <1>5 DEF Apart
<1>8. \A q1, q2 \in SpaceRoots(rt), p, w \in UserPages :
        Leaf(s2, q1, p) \notin {Absent, 0} /\ Leaf(s2, q2, w) = Leaf(s2, q1, p) => w = p
  BY <1>3 DEF Apart
<1>9. \A q \in SpaceRoots(rt), p \in UserPages, w \in KernelPages :
        Leaf(s2, q, p) \notin {Absent, 0} /\ Leaf(s2, KRoot, w) = Leaf(s2, q, p) => p \in Stack
  BY <1>3, <1>4 DEF Apart
<1> QED BY <1>6, <1>7, <1>8, <1>9 DEF Apart

LEMMA MapUserApart ==
  ASSUME NEW s, NEW s2, NEW rt, Tree(s, rt), Apart(s, rt),
         NEW r \in SpaceRoots(rt), NEW v \in UserPages,
         NEW f, f \notin s2.free, f \notin Tables(s2, rt), Mapping(s2, s, rt, r, v, f),
         f # 0 => /\ \A q \in SpaceRoots(rt), p \in UserPages : Leaf(s, q, p) = f => p = v
                  /\ \A w \in KernelPages : Leaf(s, KRoot, w) = f => v \in Stack
  PROVE  Apart(s2, rt)
<1>1. /\ KernelPages \subseteq Virt /\ UserPages \subseteq Virt
      /\ \A p \in UserPages : ~(p >= FirstKernel)
      /\ \A w \in KernelPages : w >= FirstKernel /\ w # v
  BY AddressesTyped DEF Virt
<1>2. KRoot \in Roots(rt) /\ SpaceRoots(rt) \subseteq Roots(rt)
  BY DEF Roots
<1>3. \A q \in SpaceRoots(rt), p \in UserPages :
        Leaf(s2, q, p) = IF q = r /\ p = v THEN f ELSE Leaf(s, q, p)
  BY <1>1, <1>2 DEF Mapping
<1>4. \A w \in KernelPages : Leaf(s2, KRoot, w) = Leaf(s, KRoot, w)
  BY <1>1, <1>2 DEF Mapping
<1>5. /\ s2.free \subseteq s.free
      /\ Tables(s2, rt) \subseteq Tables(s, rt) \cup (s.free \ s2.free)
  BY DEF Mapping
<1>6. \A w \in KernelPages : Leaf(s2, KRoot, w) \notin s2.free
  BY <1>4, <1>5 DEF Apart
<1>7. \A q \in SpaceRoots(rt), p \in UserPages :
        Leaf(s2, q, p) \notin s2.free /\ Leaf(s2, q, p) \notin Tables(s2, rt)
  BY <1>3, <1>5 DEF Apart
<1>8. \A q1, q2 \in SpaceRoots(rt), p, w \in UserPages :
        Leaf(s2, q1, p) \notin {Absent, 0} /\ Leaf(s2, q2, w) = Leaf(s2, q1, p) => w = p
  BY <1>3 DEF Apart
<1>9. \A q \in SpaceRoots(rt), p \in UserPages, w \in KernelPages :
        Leaf(s2, q, p) \notin {Absent, 0} /\ Leaf(s2, KRoot, w) = Leaf(s2, q, p) => p \in Stack
  BY <1>3, <1>4 DEF Apart
<1> QED BY <1>6, <1>7, <1>8, <1>9 DEF Apart

-----------------------------------------------------------------------------
(* The invariant, and what is done to memory.                              *)

\* c is the root table in force; the kernel's pages are mapped one after the other.
Good(s, rt, c) ==
  /\ Tree(s, rt) /\ Apart(s, rt) /\ c \in Roots(rt)
  /\ s.top >= FirstKernel
  /\ \A v \in KernelPages : v >= s.top => Leaf(s, KRoot, v) = Absent

\* A page of kernel memory, with the frame t.
Allocated(s2, s, rt, t) ==
  /\ t \in s.free \ s2.free /\ t \in 2 .. Frames /\ t \notin Tables(s2, rt)
  /\ s2.free \subseteq s.free /\ s2.top = s.top + 1 /\ Untouched(s2, s, rt)
  /\ Tables(s2, rt) \subseteq Tables(s, rt) \cup (s.free \ s2.free)
  /\ Cardinality(s2.free) >= Cardinality(s.free) - Levels
  /\ \A q \in Roots(rt), w \in Virt :
       Leaf(s2, q, w) = IF w = s.top THEN t ELSE Leaf(s, q, w)

LEMMA AllocPagesIs ==
  ASSUME NEW s, NEW rt, Good(s, rt, cr3),
         s.top < Span[Levels], Cardinality(s.free) > Levels,
         NEW s2, s2 = AllocPages(s)
  PROVE  Good(s2, rt, cr3) /\ Allocated(s2, s, rt, NextFree(s))
<1> DEFINE n == AllocAtVirt(s, cr3, s.top)
           t == NextFree(s)
<1>1. Levels \in Nat \ {0, 1} /\ Cardinality(s.free) \in Nat /\ s.top \in Nat
      /\ Tree(s, rt) /\ Apart(s, rt) /\ cr3 \in Roots(rt)
  BY PageTablesAssumption, FreeFinite, TreeTyped DEF Good
<1>2. s.top \in Virt /\ s.top >= FirstKernel /\ s.top \in KernelPages
  BY <1>1, AddressesTyped DEF Good, Virt
<1>3. /\ Mapping(n, s, rt, cr3, s.top, t)
      /\ t \in s.free \ n.free /\ t \notin Tables(n, rt)
      /\ Cardinality(n.free) >= Cardinality(s.free) - Levels
  <2> DEFINE v == s.top
  <2>1. v \in Virt /\ v >= FirstKernel
    BY <1>2
  <2>3. v = s.top
    OBVIOUS
  <2> HIDE DEF v
  <2>2. /\ Mapping(AllocAtVirt(s, cr3, v), s, rt, cr3, v, NextFree(s))
        /\ NextFree(s) \in s.free \ AllocAtVirt(s, cr3, v).free
        /\ NextFree(s) \notin Tables(AllocAtVirt(s, cr3, v), rt)
        /\ Cardinality(AllocAtVirt(s, cr3, v).free) >= Cardinality(s.free) - Levels
    BY <1>1, <2>1, AllocMaps
  <2> QED BY <2>2, <2>3
<1>4. t \in 2 .. Frames
  <2>1. Cardinality(s.free) >= 1
    BY <1>1
  <2> QED BY <1>1, <2>1, NextFreeIs
<1>5. s2 = [n EXCEPT !.top = @ + 1]
  BY DEF AllocPages
<1> HIDE DEF n, t
<1>6. Apart(n, rt)
  <2>1. \A q \in SpaceRoots(rt), p \in UserPages : Leaf(s, q, p) # t
    BY <1>1, <1>3 DEF Apart
  <2> QED BY <1>1, <1>2, <1>3, <2>1, MapKernelApart
<1>7. Tree(n, rt) /\ n.top = s.top
  BY <1>3 DEF Mapping
<1>8. s2 = [mem |-> n.mem, free |-> n.free, top |-> s.top + 1]
  <2>1. n = [mem |-> n.mem, free |-> n.free, top |-> n.top]
    BY <1>7, TreeTyped
  <2> QED BY <1>5, <1>7, <2>1
<1>9. s2.mem = n.mem /\ s2.free = n.free /\ s2.top = s.top + 1
  BY <1>8
<1>10. /\ Tree(s2, rt) /\ Tables(s2, rt) = Tables(n, rt)
       /\ \A q \in Roots(rt), w \in Virt : Leaf(s2, q, w) = Leaf(n, q, w)
  <2>1. s2 \in Memory
    BY <1>1, <1>7, <1>8, TreeTyped DEF Memory
  <2>2. /\ \A g \in s2.free : s2.mem[g] = Empty
        /\ Tables(n, rt) \cap s2.free = {}
    BY <1>7, <1>9 DEF Tree
  <2>3. Beside(s2, n, rt)
    BY <1>9, <2>1, <2>2 DEF Beside
  <2> QED BY <1>7, <2>3, Elsewhere
<1>11. \A q \in Roots(rt), w \in Virt :
         Leaf(s2, q, w) = IF w = s.top THEN t ELSE Leaf(s, q, w)
  BY <1>2, <1>3, <1>10 DEF Mapping
<1>12. SpaceRoots(rt) \subseteq Roots(rt) /\ KRoot \in Roots(rt)
       /\ UserPages \subseteq Virt /\ KernelPages \subseteq Virt
  BY AddressesTyped DEF Roots
<1>13. Apart(s2, rt)
  BY <1>6, <1>9, <1>10, <1>12 DEF Apart
<1>14. \A v \in KernelPages : v >= s2.top => Leaf(s2, KRoot, v) = Absent
  <2> SUFFICES ASSUME NEW v \in KernelPages, v >= s2.top
               PROVE  Leaf(s2, KRoot, v) = Absent
    OBVIOUS
  <2>1. v \in Virt /\ v \in Nat
    BY <1>12, AddressesTyped DEF Virt
  <2>2. v >= s.top /\ v # s.top
    BY <1>1, <1>9, <2>1
  <2> QED BY <1>11, <1>12, <2>1, <2>2 DEF Good
<1>15. Good(s2, rt, cr3)
  <2>1. s2.top >= FirstKernel
    BY <1>1, <1>2, <1>9, AddressesTyped
  <2> QED BY <1>1, <1>10, <1>13, <1>14, <2>1 DEF Good
<1>16. Allocated(s2, s, rt, t)
  <2>1. Untouched(s2, s, rt)
    BY <1>3, <1>9 DEF Mapping, Untouched
  <2> QED BY <1>3, <1>4, <1>9, <1>10, <1>11, <2>1 DEF Allocated, Mapping
<1> QED BY <1>15, <1>16 DEF t

\* A frame that is neither a table nor on offer is written to.
LEMMA Written ==
  ASSUME NEW s, NEW rt, NEW c, Good(s, rt, c),
         NEW f \in 0 .. Frames, f \notin Tables(s, rt), f \notin s.free,
         NEW x \in [0 .. Radix - 1 -> -1 .. Frames],
         NEW s2, s2 = [mem |-> [s.mem EXCEPT ![f] = x], free |-> s.free, top |-> s.top]
  PROVE  /\ Good(s2, rt, c) /\ Tables(s2, rt) = Tables(s, rt)
         /\ s2.free = s.free /\ s2.top = s.top
         /\ \A q \in Roots(rt), w \in Virt : Leaf(s2, q, w) = Leaf(s, q, w)
<1>1. Tree(s, rt) /\ Apart(s, rt)
  BY DEF Good
<1>2. /\ s.mem \in [0 .. Frames -> [0 .. Radix - 1 -> -1 .. Frames]]
      /\ s.free \subseteq 2 .. Frames /\ s.top \in Nat /\ Frames \in Nat
  BY <1>1, TreeTyped, PageTablesAssumption
<1>3. s2.mem = [s.mem EXCEPT ![f] = x] /\ s2.free = s.free /\ s2.top = s.top
  OBVIOUS
<1>4. \A g \in 0 .. Frames : g # f => s2.mem[g] = s.mem[g]
  BY <1>2, <1>3
<1>5. s2.mem \in [0 .. Frames -> [0 .. Radix - 1 -> -1 .. Frames]]
  BY <1>2, <1>3
<1>6. s2 \in Memory
  BY <1>2, <1>3, <1>5 DEF Memory
<1>7. Beside(s2, s, rt)
  <2>1. \A t \in 1 .. Frames : t \in 0 .. Frames
    BY <1>2
  <2>2. \A t \in s.free : t \in 0 .. Frames /\ t # f /\ s.mem[t] = Empty
    BY <1>1, <1>2 DEF Tree
  <2>3. \A t \in (1 .. Frames) \cap Tables(s, rt) : s2.mem[t] = s.mem[t]
    BY <1>4, <2>1
  <2>4. \A g \in s.free : s2.mem[g] = Empty
    BY <1>4, <2>2
  <2>5. Tables(s, rt) \cap s.free = {}
    BY <1>1 DEF Tree
  <2>6. \A g \in s2.free : s2.mem[g] = Empty
    BY <1>3, <2>4
  <2>7. Tables(s, rt) \cap s2.free = {}
    BY <1>3, <2>5
  <2> QED BY <1>6, <2>3, <2>6, <2>7 DEF Beside
<1>8. /\ Tree(s2, rt) /\ Tables(s2, rt) = Tables(s, rt)
      /\ \A q \in Roots(rt), w \in Virt : Leaf(s2, q, w) = Leaf(s, q, w)
  BY <1>1, <1>7, Elsewhere
<1>9. SpaceRoots(rt) \subseteq Roots(rt) /\ KRoot \in Roots(rt)
      /\ UserPages \subseteq Virt /\ KernelPages \subseteq Virt
  BY AddressesTyped DEF Roots
<1>10. Apart(s2, rt)
  BY <1>1, <1>3, <1>8, <1>9 DEF Apart
<1>11. Good(s2, rt, c)
  BY <1>3, <1>8, <1>9, <1>10 DEF Good
<1> QED BY <1>3, <1>8, <1>11

LEMMA WrittenHere ==
  ASSUME NEW s, NEW rt, NEW c, Good(s, rt, c), NEW f \in 0 .. Frames, NEW x,
         NEW s2, s2 = [mem |-> [s.mem EXCEPT ![f] = x], free |-> s.free, top |-> s.top]
  PROVE  s2.mem[f] = x /\ \A g \in 0 .. Frames : g # f => s2.mem[g] = s.mem[g]
<1>1. s.mem \in [0 .. Frames -> [0 .. Radix - 1 -> -1 .. Frames]]
  BY TreeTyped DEF Good
<1>2. s2.mem = [s.mem EXCEPT ![f] = x]
  OBVIOUS
<1> QED BY <1>1, <1>2

-----------------------------------------------------------------------------
(* What the spaces see of it. *)

KernelKept(s2, s) ==
  \A v \in KernelPages :
    Leaf(s2, KRoot, v) # Leaf(s, KRoot, v) => Leaf(s, KRoot, v) = Absent

UserKept(s2, s, rt) ==
  \A r \in SpaceRoots(rt), p \in UserPages : Leaf(s2, r, p) = Leaf(s, r, p)

UserMapped(s2, s, rt, r, p, f) ==
  \A q \in SpaceRoots(rt), w \in UserPages :
    Leaf(s2, q, w) = IF q = r /\ w = p THEN f ELSE Leaf(s, q, w)

LEMMA GoodFacts ==
  ASSUME NEW s, NEW rt, NEW c, Good(s, rt, c)
  PROVE  /\ Tree(s, rt) /\ Apart(s, rt) /\ c \in Roots(rt)
         /\ SpaceRoots(rt) \subseteq Roots(rt) /\ KRoot \in Roots(rt)
         /\ SpaceRoots(rt) \subseteq 2 .. Frames
         /\ UserPages \subseteq Virt /\ KernelPages \subseteq Virt
         /\ s = [mem |-> s.mem, free |-> s.free, top |-> s.top]
<1>1. Tree(s, rt) /\ Apart(s, rt) /\ c \in Roots(rt)
  BY DEF Good
<1>2. SpaceRoots(rt) \subseteq 2 .. Frames
  BY <1>1 DEF Tree, RootsTyped, SpaceRoots
<1>3. s = [mem |-> s.mem, free |-> s.free, top |-> s.top]
  BY <1>1, TreeTyped
<1> QED BY <1>1, <1>2, <1>3, AddressesTyped DEF Roots

LEMMA AllocatedSeen ==
  ASSUME NEW s, NEW rt, NEW c, Good(s, rt, c), NEW s2, NEW t, Allocated(s2, s, rt, t)
  PROVE  KernelKept(s2, s) /\ UserKept(s2, s, rt)
<1>1. /\ SpaceRoots(rt) \subseteq Roots(rt) /\ KRoot \in Roots(rt)
      /\ UserPages \subseteq Virt /\ KernelPages \subseteq Virt
  BY GoodFacts
<1>2. s.top >= FirstKernel
  BY DEF Good
<1>3. UserKept(s2, s, rt)
  <2>1. \A p \in UserPages : p # s.top
    BY <1>2, AddressesTyped DEF Virt
  <2> QED BY <1>1, <2>1 DEF UserKept, Allocated
<1>4. KernelKept(s2, s)
  <2> SUFFICES ASSUME NEW v \in KernelPages, Leaf(s2, KRoot, v) # Leaf(s, KRoot, v)
               PROVE  Leaf(s, KRoot, v) = Absent
    BY DEF KernelKept
  <2>1. v = s.top
    BY <1>1 DEF Allocated
  <2>2. v >= s.top
    BY <1>1, <2>1, AddressesTyped DEF Virt
  <2> QED BY <2>2 DEF Good
<1> QED BY <1>3, <1>4

LEMMA UserMapGood ==
  ASSUME NEW s, NEW rt, NEW c, Good(s, rt, c),
         NEW r \in SpaceRoots(rt), NEW p \in UserPages, NEW f, NEW s2,
         Mapping(s2, s, rt, r, p, f), f \notin s2.free, f \notin Tables(s2, rt),
         f # 0 => /\ \A q \in SpaceRoots(rt), w \in UserPages : Leaf(s, q, w) = f => w = p
                  /\ \A v \in KernelPages : Leaf(s, KRoot, v) = f => p \in Stack
  PROVE  /\ Good(s2, rt, c) /\ UserMapped(s2, s, rt, r, p, f)
         /\ \A v \in KernelPages : Leaf(s2, KRoot, v) = Leaf(s, KRoot, v)
<1>1. /\ SpaceRoots(rt) \subseteq Roots(rt) /\ KRoot \in Roots(rt)
      /\ UserPages \subseteq Virt /\ KernelPages \subseteq Virt
      /\ Tree(s, rt) /\ Apart(s, rt) /\ c \in Roots(rt)
  BY GoodFacts
<1>2. /\ \A w \in UserPages : ~(w >= FirstKernel)
      /\ \A v \in KernelPages : v >= FirstKernel /\ v # p
  BY AddressesTyped DEF Virt
<1>3. UserMapped(s2, s, rt, r, p, f)
  BY <1>1, <1>2 DEF Mapping, UserMapped
<1>4. \A v \in KernelPages : Leaf(s2, KRoot, v) = Leaf(s, KRoot, v)
  BY <1>1, <1>2 DEF Mapping
<1>5. Apart(s2, rt)
  BY <1>1, MapUserApart
<1>6. Tree(s2, rt) /\ s2.top = s.top
  BY DEF Mapping
<1>7. Good(s2, rt, c)
  BY <1>1, <1>4, <1>5, <1>6 DEF Good
<1> QED BY <1>3, <1>4, <1>7

\* Fewer spaces.
LEMMA FewerRoots ==
  ASSUME NEW s, NEW rt, Tree(s, rt), NEW sp,
         NEW rt2, DOMAIN rt2 = DOMAIN rt \ {sp}, \A t \in DOMAIN rt2 : rt2[t] = rt[t]
  PROVE  /\ Tree(s, rt2) /\ SpaceRoots(rt2) \subseteq SpaceRoots(rt)
         /\ Tables(s, rt2) \subseteq Tables(s, rt)
         /\ sp \in DOMAIN rt => rt[sp] \notin SpaceRoots(rt2)
<1>1. DOMAIN rt2 = DOMAIN rt \ {sp} /\ \A t \in DOMAIN rt2 : rt2[t] = rt[t]
  OBVIOUS
<1>2. SpaceRoots(rt2) \subseteq SpaceRoots(rt) /\ Roots(rt2) \subseteq Roots(rt)
  BY <1>1 DEF SpaceRoots, Roots
<1>3. RootsTyped(rt2) /\ (sp \in DOMAIN rt => rt[sp] \notin SpaceRoots(rt2))
  BY <1>1 DEF Tree, RootsTyped, SpaceRoots
<1>4. Tables(s, rt2) \subseteq Tables(s, rt)
  BY <1>2 DEF Tables
<1>5. LastShared(s, rt2)
  BY <1>1 DEF Tree, LastShared
<1>6. Forest(s, rt2)
  BY <1>2 DEF Tree, Forest
<1> QED BY <1>2, <1>3, <1>4, <1>5, <1>6 DEF Tree

\* The kernel's root leads to the kernel's pages only.
LEMMA KernelRoot ==
  ASSUME NEW s, NEW rt, Tree(s, rt), NEW v \in Virt, ~(v >= FirstKernel)
  PROVE  \A l \in 1 .. Levels : At(s, KRoot, v, l) = Absent
<1>1. Levels \in Nat \ {0, 1} /\ Radix \in Nat \ {0, 1}
  BY PageTablesAssumption
<1>2. Offset(v, 1) \in 0 .. Radix - 1 /\ Offset(v, 1) # Radix - 1
  BY <1>1, OffsetTyped, KernelOffset
<1>3. Offset(v, 1) \in 0 .. Radix - 2
  BY <1>1, <1>2
<1>4. s.mem[KRoot][Offset(v, 1)] = Absent
  BY <1>3 DEF Tree, LastShared
<1>5. At(s, KRoot, v, 1) = Absent
  <2>1. At(s, KRoot, v, 0) = KRoot
    BY AtFirst
  <2>2. 1 \in 1 .. Levels /\ 1 - 1 = 0
    BY <1>1
  <2>3. At(s, KRoot, v, 1) = IF At(s, KRoot, v, 1 - 1) = Absent THEN Absent
                             ELSE s.mem[At(s, KRoot, v, 1 - 1)][Offset(v, 1)]
    BY <2>2, AtNext
  <2> QED BY <1>4, <2>1, <2>2, <2>3
<1>6. 1 \in 0 .. Levels
  BY <1>1
<1> QED BY <1>5, <1>6, AbsentBelow

\* A copy of a table leads to the same.
LEMMA CopiedAt ==
  ASSUME NEW s, NEW r, NEW q, r # Absent, q # Absent, s.mem[r] = s.mem[q]
  PROVE  \A v \in Virt, l \in 1 .. Levels : At(s, r, v, l) = At(s, q, v, l)
<1> SUFFICES ASSUME NEW v \in Virt
             PROVE  \A l \in 1 .. Levels : At(s, r, v, l) = At(s, q, v, l)
  OBVIOUS
<1>1. s.mem[r][Offset(v, 1)] = s.mem[q][Offset(v, 1)]
  OBVIOUS
<1> QED BY <1>1, JoinedAt

\* One space more: its root leads to the kernel's pages, and to no other.
LEMMA NewRoot ==
  ASSUME NEW s, NEW rt, NEW c, Good(s, rt, c),
         NEW f \in 2 .. Frames, f \notin s.free, f \notin Tables(s, rt),
         s.mem[f] = s.mem[KRoot], s.mem[KRoot][Radix - 1] # Absent,
         \A r \in SpaceRoots(rt), p \in UserPages : Leaf(s, r, p) # f,
         NEW sp \in Spaces, sp \notin DOMAIN rt,
         NEW rt2, DOMAIN rt2 = DOMAIN rt \cup {sp}, rt2[sp] = f,
         \A t \in DOMAIN rt : rt2[t] = rt[t]
  PROVE  /\ Good(s, rt2, c) /\ SpaceRoots(rt2) = SpaceRoots(rt) \cup {f}
         /\ \A p \in UserPages : Leaf(s, f, p) = Absent
<1>1. /\ Levels \in Nat \ {0, 1} /\ Radix \in Nat \ {0, 1} /\ Frames \in Nat
      /\ Levels \in 1 .. Levels /\ 0 \in 0 .. Levels - 1
      /\ \A k \in 0 .. Levels - 1 : k = 0 \/ k \in 1 .. Levels
      /\ KRoot # Absent /\ f # Absent /\ f # KRoot
  BY PageTablesAssumption DEF KRoot, Absent
<1>2. /\ Tree(s, rt) /\ Apart(s, rt) /\ c \in Roots(rt) /\ KRoot \in Roots(rt)
      /\ SpaceRoots(rt) \subseteq Roots(rt) /\ UserPages \subseteq Virt /\ 0 \in Virt
  BY GoodFacts, AddressesTyped DEF Virt
<1>3. f \notin Roots(rt)
  <2> SUFFICES ASSUME f \in Roots(rt) PROVE FALSE
    OBVIOUS
  <2>1. At(s, f, 0, 0) = f
    BY AtFirst
  <2> QED BY <1>1, <1>2, <2>1 DEF Tables
<1>4. SpaceRoots(rt2) = SpaceRoots(rt) \cup {f} /\ Roots(rt2) = Roots(rt) \cup {f}
  <2>1. SpaceRoots(rt2) = SpaceRoots(rt) \cup {f}
    BY DEF SpaceRoots
  <2> QED BY <2>1 DEF Roots
<1>5. ASSUME NEW v \in Virt, NEW l \in 1 .. Levels
      PROVE  At(s, f, v, l) = At(s, KRoot, v, l)
  <2>1. f # Absent /\ KRoot # Absent
    BY <1>1
  <2> QED BY <2>1, CopiedAt
<1>6. ASSUME NEW v \in Virt, NEW l \in 1 .. Levels, At(s, KRoot, v, l) # Absent
      PROVE  v >= FirstKernel
  BY <1>2, <1>6, KernelRoot
<1>7. \A p \in UserPages : Leaf(s, f, p) = Absent
  <2> SUFFICES ASSUME NEW p \in UserPages PROVE Leaf(s, f, p) = Absent
    OBVIOUS
  <2>1. ~(p >= FirstKernel)
    BY AddressesTyped DEF Virt
  <2>2. At(s, KRoot, p, Levels) = Absent
    BY <1>1, <1>2, <2>1, KernelRoot
  <2> QED BY <1>1, <1>2, <1>5, <2>2 DEF Leaf
<1>8. \A v \in Virt : At(s, f, v, 0) = f
  BY AtFirst
<1>9. ASSUME NEW v \in Virt, NEW k \in 0 .. Levels - 1
      PROVE  (k = 0 /\ At(s, f, v, k) = f)
             \/ (k \in 1 .. Levels /\ At(s, f, v, k) = At(s, KRoot, v, k))
  BY <1>1, <1>5, <1>8
<1>10. Tables(s, rt2) = Tables(s, rt) \cup {f}
  <2>1. Tables(s, rt2) \subseteq Tables(s, rt) \cup {f}
    BY <1>2, <1>4, <1>9 DEF Tables
  <2>2. Tables(s, rt) \subseteq Tables(s, rt2)
    BY <1>4 DEF Tables
  <2>3. f \in Tables(s, rt2)
    BY <1>1, <1>2, <1>4, <1>8 DEF Tables
  <2> QED BY <2>1, <2>2, <2>3
<1>11. Forest(s, rt2)
  <2>0. \A q, p \in Roots(rt), x, y \in Virt, j, k \in 0 .. Levels - 1 :
          At(s, q, x, j) # Absent /\ At(s, q, x, j) = At(s, p, y, k)
            => j = k /\ Alike(x, y, j) /\ (q = p \/ (j > 0 /\ x >= FirstKernel))
    BY <1>2 DEF Tree, Forest
  <2>00. \A q \in Roots(rt), x \in Virt, j \in 0 .. Levels - 1 : At(s, q, x, j) # f
    BY <1>1 DEF Tables
  <2> SUFFICES ASSUME NEW q1 \in Roots(rt2), NEW q2 \in Roots(rt2),
                      NEW w1 \in Virt, NEW w2 \in Virt,
                      NEW k1 \in 0 .. Levels - 1, NEW k2 \in 0 .. Levels - 1,
                      At(s, q1, w1, k1) # Absent,
                      At(s, q1, w1, k1) = At(s, q2, w2, k2)
               PROVE  /\ k1 = k2 /\ Alike(w1, w2, k1)
                      /\ q1 = q2 \/ (k1 > 0 /\ w1 >= FirstKernel)
    BY DEF Forest
  <2>1. CASE At(s, q1, w1, k1) = f
    <3>1. q1 = f /\ k1 = 0
      <4>1. q1 = f
        BY <1>4, <2>00, <2>1
      <4>2. At(s, KRoot, w1, k1) # f
        BY <1>2, <2>00
      <4>3. (k1 = 0 /\ At(s, f, w1, k1) = f)
            \/ (k1 \in 1 .. Levels /\ At(s, f, w1, k1) = At(s, KRoot, w1, k1))
        BY <1>9
      <4>4. At(s, f, w1, k1) = f
        BY <2>1, <4>1
      <4> QED BY <4>1, <4>2, <4>3, <4>4, ZenonT(40)
    <3>2. q2 = f /\ k2 = 0
      <4>1. q2 = f
        BY <1>4, <2>00, <2>1
      <4>2. At(s, KRoot, w2, k2) # f
        BY <1>2, <2>00
      <4>3. (k2 = 0 /\ At(s, f, w2, k2) = f)
            \/ (k2 \in 1 .. Levels /\ At(s, f, w2, k2) = At(s, KRoot, w2, k2))
        BY <1>9
      <4> QED BY <2>1, <4>1, <4>2, <4>3
    <3> QED BY <3>1, <3>2 DEF Alike
  <2>2. CASE At(s, q1, w1, k1) # f
    <3>1. q1 = f => k1 \in 1 .. Levels /\ At(s, f, w1, k1) = At(s, KRoot, w1, k1)
      BY <1>9, <2>2
    <3>2. q2 = f => k2 \in 1 .. Levels /\ At(s, f, w2, k2) = At(s, KRoot, w2, k2)
      BY <1>9, <2>2
    <3> DEFINE p1 == IF q1 = f THEN KRoot ELSE q1
               p2 == IF q2 = f THEN KRoot ELSE q2
    <3>3. /\ p1 \in Roots(rt) /\ p2 \in Roots(rt)
          /\ At(s, p1, w1, k1) = At(s, q1, w1, k1)
          /\ At(s, p2, w2, k2) = At(s, q2, w2, k2)
      BY <1>2, <1>4, <3>1, <3>2
    <3>4. (q1 = f => p1 = KRoot) /\ (q1 # f => p1 = q1)
          /\ (q2 = f => p2 = KRoot) /\ (q2 # f => p2 = q2)
      OBVIOUS
    <3> HIDE DEF p1, p2
    <3>5. At(s, p1, w1, k1) # Absent /\ At(s, p1, w1, k1) = At(s, p2, w2, k2)
      BY <3>3
    <3>6. k1 = k2 /\ Alike(w1, w2, k1) /\ (p1 = p2 \/ (k1 > 0 /\ w1 >= FirstKernel))
      BY <2>0, <3>3, <3>5
    <3>7. CASE q1 = q2 \/ (k1 > 0 /\ w1 >= FirstKernel)
      BY <3>6, <3>7
    <3>8. CASE p1 = p2 /\ q1 # q2
      <4>1. p1 = KRoot /\ k1 \in 1 .. Levels
        BY <3>1, <3>2, <3>4, <3>6, <3>8
      <4>2. w1 >= FirstKernel
        BY <1>6, <3>5, <4>1
      <4>3. k1 > 0
        BY <4>1, <1>1
      <4> QED BY <3>6, <4>2, <4>3
    <3> QED BY <3>6, <3>7, <3>8
  <2> QED BY <2>1, <2>2
<1>12. RootsTyped(rt2)
  <2>1. \A t \in DOMAIN rt : rt[t] # f
    BY <1>3 DEF Roots, SpaceRoots
  <2> QED BY <1>2, <2>1 DEF Tree, RootsTyped
<1>13. LastShared(s, rt2)
  BY <1>2 DEF Tree, LastShared
<1>14. Tables(s, rt2) \subseteq (1 .. Frames) \ s.free
  <2>1. f \in 1 .. Frames
    BY <1>1
  <2> QED BY <1>2, <1>10, <2>1 DEF Tree
<1>15. Tree(s, rt2)
  BY <1>2, <1>11, <1>12, <1>13, <1>14 DEF Tree
<1>16. Apart(s, rt2)
  <2>1. \A v \in KernelPages : Leaf(s, KRoot, v) \notin s.free
    BY <1>2 DEF Apart
  <2>2. Absent \notin s.free /\ Absent \notin Tables(s, rt2)
    <3>1. s.free \subseteq 2 .. Frames /\ Absent \notin 2 .. Frames
      BY <1>1, <1>2, TreeTyped DEF Absent
    <3> QED BY <3>1 DEF Tables
  <2>3. ASSUME NEW r \in SpaceRoots(rt2), NEW p \in UserPages
        PROVE  Leaf(s, r, p) \notin s.free /\ Leaf(s, r, p) \notin Tables(s, rt2)
    BY <1>2, <1>4, <1>7, <1>10, <2>2 DEF Apart
  <2>4. ASSUME NEW r \in SpaceRoots(rt2), NEW q \in SpaceRoots(rt2),
               NEW p \in UserPages, NEW w \in UserPages,
               Leaf(s, r, p) \notin {Absent, 0}, Leaf(s, q, w) = Leaf(s, r, p)
        PROVE  w = p
    BY <1>2, <1>4, <1>7, <2>4 DEF Apart
  <2>5. ASSUME NEW r \in SpaceRoots(rt2), NEW p \in UserPages, NEW v \in KernelPages,
               Leaf(s, r, p) \notin {Absent, 0}, Leaf(s, KRoot, v) = Leaf(s, r, p)
        PROVE  p \in Stack
    BY <1>2, <1>4, <1>7, <2>5 DEF Apart
  <2> QED BY <2>1, <2>3, <2>4, <2>5 DEF Apart
<1>17. Good(s, rt2, c)
  BY <1>2, <1>4, <1>15, <1>16 DEF Good
<1> QED BY <1>4, <1>7, <1>17

-----------------------------------------------------------------------------
(* The actions.  Programs write where their vmas are: StrayStores = FALSE.    *)

\* Nothing in t lies past the vma of p.
Within(t, p) == \A e \in (0 .. Radix - 1) \ Part[p] : t[e] = Absent

\* The frames that will be given back hold nothing outside the first vma.
Bounded(s, rt) ==
  \A r \in SpaceRoots(rt), p \in Text :
    Leaf(s, r, p) \notin {Absent, 0} => Within(s.mem[Leaf(s, r, p)], p)

PInv == Good(Now, root, cr3) /\ Bounded(Now, root)

\* What is mapped for the first vma was before, and is not written to.
LEMMA BoundedOn ==
  ASSUME NEW s, NEW rt, NEW c, Good(s, rt, c), Bounded(s, rt),
         NEW s2, NEW rt2, Untouched(s2, s, rt),
         \A r \in SpaceRoots(rt2), p \in Text :
           \/ Leaf(s2, r, p) \in {Absent, 0} \/ Within(s2.mem[Leaf(s2, r, p)], p)
           \/ \E q \in SpaceRoots(rt) : Leaf(s2, r, p) = Leaf(s, q, p)
  PROVE  Bounded(s2, rt2)
<1> SUFFICES ASSUME NEW r \in SpaceRoots(rt2), NEW p \in Text,
                    Leaf(s2, r, p) \notin {Absent, 0}
             PROVE  Within(s2.mem[Leaf(s2, r, p)], p)
  BY DEF Bounded
<1>1. CASE Within(s2.mem[Leaf(s2, r, p)], p)
  BY <1>1
<1>2. ASSUME NEW q \in SpaceRoots(rt), Leaf(s2, r, p) = Leaf(s, q, p)
      PROVE  Within(s2.mem[Leaf(s2, r, p)], p)
  <2>1. PICK f : f = Leaf(s, q, p)
    OBVIOUS
  <2>2. p \in UserPages /\ p \in Virt /\ q \in Roots(rt) /\ Tree(s, rt) /\ Apart(s, rt)
    BY PageTablesAssumption, AddressesTyped DEF Roots, Good
  <2>3. f \notin Tables(s, rt) \cup s.free /\ f \in -1 .. Frames /\ f \notin {Absent, 0}
    BY <1>2, <2>1, <2>2, TreeTyped DEF Apart
  <2>4. f \in 0 .. Frames
    BY <2>3, PageTablesAssumption DEF Absent
  <2>5. s2.mem[f] = s.mem[f]
    BY <2>3, <2>4 DEF Untouched
  <2>6. Within(s.mem[f], p)
    BY <2>1, <2>3 DEF Bounded
  <2> QED BY <1>2, <2>1, <2>5, <2>6
<1> QED BY <1>1, <1>2

LEMMA BoundedKept ==
  ASSUME NEW s, NEW rt, NEW c, Good(s, rt, c), Bounded(s, rt),
         NEW s2, Untouched(s2, s, rt), UserKept(s2, s, rt)
  PROVE  Bounded(s2, rt)
<1>1. \A r \in SpaceRoots(rt), p \in Text : Leaf(s2, r, p) = Leaf(s, r, p)
  BY PageTablesAssumption DEF UserKept
<1> QED BY <1>1, BoundedOn

LEMMA BoundedMapped ==
  ASSUME NEW s, NEW rt, NEW c, Good(s, rt, c), Bounded(s, rt),
         NEW s2, Untouched(s2, s, rt), NEW r, NEW p, NEW f, UserMapped(s2, s, rt, r, p, f),
         p \in Text => \/ f = 0 \/ Within(s2.mem[f], p)
                       \/ \E q \in SpaceRoots(rt) : f = Leaf(s, q, p)
  PROVE  Bounded(s2, rt)
<1>1. \A q \in SpaceRoots(rt), w \in Text :
        Leaf(s2, q, w) = IF q = r /\ w = p THEN f ELSE Leaf(s, q, w)
  BY PageTablesAssumption DEF UserMapped
<1>2. \A q \in SpaceRoots(rt), w \in Text :
        \/ Leaf(s2, q, w) \in {Absent, 0} \/ Within(s2.mem[Leaf(s2, q, w)], w)
        \/ \E q2 \in SpaceRoots(rt) : Leaf(s2, q, w) = Leaf(s, q2, w)
  <2> SUFFICES ASSUME NEW q \in SpaceRoots(rt), NEW w \in Text
               PROVE  \/ Leaf(s2, q, w) \in {Absent, 0} \/ Within(s2.mem[Leaf(s2, q, w)], w)
                      \/ \E q2 \in SpaceRoots(rt) : Leaf(s2, q, w) = Leaf(s, q2, w)
    OBVIOUS
  <2>1. CASE q = r /\ w = p
    <3>1. Leaf(s2, q, w) = f
      BY <1>1, <2>1
    <3> QED BY <2>1, <3>1
  <2>2. CASE ~(q = r /\ w = p)
    BY <1>1, <2>2
  <2> QED BY <2>1, <2>2
<1> QED BY <1>2, BoundedOn

\* A frame that is on offer, or was, is written to.
LEMMA UntouchedOffered ==
  ASSUME NEW s, NEW s2, NEW s3, NEW rt, Untouched(s2, s, rt), NEW f \in s.free,
         \A g \in 0 .. Frames : g # f => s3.mem[g] = s2.mem[g]
  PROVE  Untouched(s3, s, rt)
BY DEF Untouched

LEMMA NowBecomes ==
  ASSUME NEW s, s = [mem |-> s.mem, free |-> s.free, top |-> s.top], Becomes(s)
  PROVE  Now' = s
BY DEF Now, Becomes

LEMMA RoomFor ==
  ASSUME PInv, Room
  PROVE  /\ Now.top < Span[Levels] /\ Levels \in Nat /\ Cardinality(Now.free) \in Nat
         /\ Cardinality(Now.free) > 2 * Levels /\ Cardinality(Now.free) > Levels
<1>1. Tree(Now, root)
  BY DEF PInv, Good
<1>2. Cardinality(Now.free) \in Nat /\ Levels \in Nat
  BY <1>1, FreeFinite, PageTablesAssumption
<1>3. Now.top < Span[Levels] /\ Cardinality(Now.free) > 2 * Levels
  BY DEF Room, Now
<1> QED BY <1>2, <1>3

LEMMA KmallocGood ==
  ASSUME PInv, Kmalloc
  PROVE  /\ PInv' /\ root' = root
         /\ KernelKept(Now', Now) /\ UserKept(Now', Now, root)
<1>1. PICK s : s = AllocPages(Now)
  OBVIOUS
<1>2. Becomes(s) /\ root' = root /\ cr3' = cr3 /\ Room
  BY <1>1 DEF Kmalloc
<1>3. Good(Now, root, cr3)
  BY DEF PInv
<1>4. Good(s, root, cr3) /\ Allocated(s, Now, root, NextFree(Now))
  BY <1>1, <1>2, <1>3, RoomFor, AllocPagesIs
<1>5. KernelKept(s, Now) /\ UserKept(s, Now, root)
  BY <1>3, <1>4, AllocatedSeen
<1>6. Now' = s
  BY <1>2, <1>4, GoodFacts, NowBecomes
<1>7. Bounded(s, root)
  BY <1>3, <1>4, <1>5, BoundedKept DEF PInv, Allocated
<1> QED BY <1>2, <1>4, <1>5, <1>6, <1>7 DEF PInv

\* What is written to no table, and to no frame on offer, is not seen.
LEMMA WrittenSeen ==
  ASSUME NEW s, NEW s2, NEW s0, NEW rt, NEW c, Good(s, rt, c),
         \A q \in Roots(rt), w \in Virt : Leaf(s2, q, w) = Leaf(s, q, w)
  PROVE  /\ KernelKept(s, s0) => KernelKept(s2, s0)
         /\ UserKept(s, s0, rt) => UserKept(s2, s0, rt)
         /\ \A r, p, f : UserMapped(s, s0, rt, r, p, f) => UserMapped(s2, s0, rt, r, p, f)
<1>1. /\ SpaceRoots(rt) \subseteq Roots(rt) /\ KRoot \in Roots(rt)
      /\ UserPages \subseteq Virt /\ KernelPages \subseteq Virt
  BY GoodFacts
<1>2. \A v \in KernelPages : Leaf(s2, KRoot, v) = Leaf(s, KRoot, v)
  BY <1>1
<1>3. \A r \in SpaceRoots(rt), p \in UserPages : Leaf(s2, r, p) = Leaf(s, r, p)
  BY <1>1
<1>4. KernelKept(s, s0) => KernelKept(s2, s0)
  BY <1>2 DEF KernelKept
<1>5. UserKept(s, s0, rt) => UserKept(s2, s0, rt)
  BY <1>3 DEF UserKept
<1>6. \A r, p, f : UserMapped(s, s0, rt, r, p, f) => UserMapped(s2, s0, rt, r, p, f)
  BY <1>3 DEF UserMapped
<1> QED BY <1>4, <1>5, <1>6

\* The frames that no page of a program leads to.
Unseen(s, rt, f) == \A r \in SpaceRoots(rt), p \in UserPages : Leaf(s, r, p) # f

LEMMA FreeUnseen ==
  ASSUME NEW s, NEW rt, NEW c, Good(s, rt, c), NEW f \in s.free
  PROVE  Unseen(s, rt, f) /\ \A v \in KernelPages : Leaf(s, KRoot, v) # f
BY DEF Good, Apart, Unseen

\* In the tables of the kernel there is a page.
LEMMA LastPresent ==
  ASSUME NEW s, NEW rt, NEW c, Good(s, rt, c), NEW v \in KernelPages,
         Leaf(s, KRoot, v) # Absent
  PROVE  s.mem[KRoot][Radix - 1] # Absent
<1>1. Levels \in Nat \ {0, 1}
  BY PageTablesAssumption
<1>2. 1 \in 0 .. Levels /\ Levels \in 1 .. Levels /\ 1 \in 1 .. Levels /\ 1 - 1 = 0
  BY <1>1
<1>3. At(s, KRoot, v, 1) # Absent
  BY <1>2, AbsentBelow DEF Leaf
<1>4. At(s, KRoot, v, 0) = KRoot
  BY AtFirst
<1>5. At(s, KRoot, v, 1) = IF At(s, KRoot, v, 1 - 1) = Absent THEN Absent
                           ELSE s.mem[At(s, KRoot, v, 1 - 1)][Offset(v, 1)]
  BY <1>2, AtNext
<1>6. v \in Virt /\ v >= FirstKernel
  BY AddressesTyped
<1>7. Offset(v, 1) = Radix - 1
  BY <1>6, KernelOffset
<1> QED BY <1>2, <1>3, <1>4, <1>5, <1>7

LEMMA EnvSetupVmGood ==
  ASSUME PInv, NEW sp \in Spaces, EnvSetupVm(sp)
  PROVE  /\ PInv' /\ sp \notin DOMAIN root
         /\ root' = [t \in DOMAIN root \cup {sp} |-> IF t = sp THEN root'[sp] ELSE root[t]]
         /\ \A p \in UserPages : Leaf(Now', root'[sp], p) = Absent
         /\ KernelKept(Now', Now) /\ UserKept(Now', Now, root)
<1>1. PICK s : s = AllocPages(Now)
  OBVIOUS
<1>2. PICK f : f = NextFree(Now)
  OBVIOUS
<1>3. PICK x : x = s.mem[KRoot]
  OBVIOUS
<1>4. PICK s2 : s2 = [s EXCEPT !.mem[f] = x]
  OBVIOUS
<1>5. /\ Becomes(s2) /\ cr3' = cr3 /\ Room /\ sp \notin DOMAIN root
      /\ root' = [t \in DOMAIN root \cup {sp} |-> IF t = sp THEN f ELSE root[t]]
  BY <1>1, <1>2, <1>3, <1>4 DEF EnvSetupVm, RootCopy
<1>6. Good(Now, root, cr3) /\ Tree(Now, root)
  BY DEF PInv, Good
<1>7. Good(s, root, cr3) /\ Allocated(s, Now, root, f)
  BY <1>1, <1>2, <1>5, <1>6, RoomFor, AllocPagesIs
<1>8. /\ Tree(s, root) /\ s = [mem |-> s.mem, free |-> s.free, top |-> s.top]
      /\ s.mem \in [0 .. Frames -> [0 .. Radix - 1 -> -1 .. Frames]]
      /\ KRoot \in 1 .. Frames /\ KRoot \in 0 .. Frames /\ Frames \in Nat
      /\ KRoot \in Roots(root)
  <2>1. Tree(s, root) /\ Frames \in Nat
    BY <1>7, PageTablesAssumption DEF Good
  <2>2. Roots(root) \subseteq 1 .. Frames /\ KRoot \in Roots(root)
    BY <2>1, TreeTyped
  <2>3. KRoot \in 0 .. Frames
    BY <2>1, <2>2
  <2> QED BY <2>1, <2>2, <2>3, TreeTyped
<1>9. x \in [0 .. Radix - 1 -> -1 .. Frames]
  BY <1>3, <1>8
<1>10. s2 = [mem |-> [s.mem EXCEPT ![f] = x], free |-> s.free, top |-> s.top]
  BY <1>4, <1>8
<1>11. /\ f \in 2 .. Frames /\ f \in 0 .. Frames /\ f # KRoot
       /\ f \notin Tables(s, root) /\ f \notin s.free /\ f \in Now.free
  BY <1>7, <1>8 DEF Allocated, KRoot
<1>12. /\ Good(s2, root, cr3) /\ Tables(s2, root) = Tables(s, root) /\ s2.free = s.free
       /\ \A q \in Roots(root), w \in Virt : Leaf(s2, q, w) = Leaf(s, q, w)
  BY <1>7, <1>9, <1>10, <1>11, Written
<1>13. s2.mem[f] = s2.mem[KRoot]
  <2>1. s2.mem = [s.mem EXCEPT ![f] = x]
    BY <1>10
  <2>2. s2.mem[f] = x /\ s2.mem[KRoot] = s.mem[KRoot]
    BY <1>8, <1>11, <2>1
  <2> QED BY <1>3, <2>2
<1>14. KernelKept(s2, Now) /\ UserKept(s2, Now, root)
  BY <1>6, <1>7, <1>12, AllocatedSeen, WrittenSeen
<1>15. Unseen(s2, root, f)
  <2>1. Unseen(Now, root, f)
    BY <1>6, <1>11, FreeUnseen
  <2> QED BY <1>14, <2>1 DEF UserKept, Unseen
<1>16. s2.mem[KRoot][Radix - 1] # Absent
  <2>1. PICK v : v = Now.top
    OBVIOUS
  <2>2. v \in KernelPages /\ v \in Virt
    <3>1. v \in Nat /\ v >= FirstKernel /\ v < Span[Levels]
      BY <1>5, <1>6, <2>1, RoomFor, TreeTyped DEF Good
    <3> QED BY <3>1, AddressesTyped DEF Virt
  <2>3. Leaf(s2, KRoot, v) = f
    BY <1>7, <1>8, <1>12, <2>1, <2>2 DEF Allocated
  <2>4. f # Absent
    BY <1>8, <1>11 DEF Absent
  <2> QED BY <1>12, <2>2, <2>3, <2>4, LastPresent
<1>17. PICK rt2 : rt2 = root'
  OBVIOUS
<1>18. DOMAIN rt2 = DOMAIN root \cup {sp} /\ rt2[sp] = f /\ \A t \in DOMAIN root : rt2[t] = root[t]
  BY <1>5, <1>17
<1>19. Good(s2, rt2, cr3) /\ \A p \in UserPages : Leaf(s2, f, p) = Absent
  <2>1. \A r \in SpaceRoots(root), p \in UserPages : Leaf(s2, r, p) # f
    BY <1>15 DEF Unseen
  <2>2. f \notin s2.free /\ f \notin Tables(s2, root)
    BY <1>11, <1>12
  <2> QED BY <1>5, <1>11, <1>12, <1>13, <1>16, <1>18, <2>1, <2>2, NewRoot
<1>20. Now' = s2
  BY <1>5, <1>12, GoodFacts, NowBecomes
<1>21. Bounded(s2, rt2)
  <2>1. Untouched(s2, Now, root)
    <3>1. \A g \in 0 .. Frames : g # f => s2.mem[g] = s.mem[g]
      BY <1>7, <1>10, <1>11, WrittenHere
    <3> QED BY <1>7, <1>11, <3>1, UntouchedOffered DEF Allocated
  <2>2. \A r \in SpaceRoots(rt2) : r = f \/ r \in SpaceRoots(root)
    BY <1>18 DEF SpaceRoots
  <2>3. \A r \in SpaceRoots(rt2), p \in Text :
          Leaf(s2, r, p) = Absent \/ \E q \in SpaceRoots(root) : Leaf(s2, r, p) = Leaf(Now, q, p)
    BY <1>14, <1>19, <2>2, PageTablesAssumption DEF UserKept
  <2> QED BY <1>6, <2>1, <2>3, BoundedOn DEF PInv
<1> QED BY <1>5, <1>14, <1>17, <1>18, <1>19, <1>20, <1>21 DEF PInv

\* A page of the space sp leads to f, and nothing else changes for programs.
OneMapped(sp, p, f) ==
  /\ root' = root /\ UserMapped(Now', Now, root, root[sp], p, f)
  /\ KernelKept(Now', Now)

LEMMA SpaceRootOf ==
  ASSUME PInv, NEW sp \in DOMAIN root
  PROVE  /\ Good(Now, root, cr3) /\ Tree(Now, root) /\ Apart(Now, root)
         /\ Frames \in Nat /\ root[sp] \in SpaceRoots(root) /\ root[sp] \in Roots(root)
         /\ root[sp] # KRoot
<1>1. Good(Now, root, cr3) /\ Tree(Now, root) /\ Apart(Now, root) /\ Frames \in Nat
  BY PageTablesAssumption DEF PInv, Good
<1>2. root[sp] \in 2 .. Frames
  BY <1>1 DEF Tree, RootsTyped
<1> QED BY <1>1, <1>2 DEF SpaceRoots, Roots, KRoot

LEMMA SameKernel ==
  ASSUME NEW s2, NEW s, \A v \in KernelPages : Leaf(s2, KRoot, v) = Leaf(s, KRoot, v)
  PROVE  KernelKept(s2, s)
BY DEF KernelKept

LEMMA MapNewGood ==
  ASSUME PInv, NEW sp \in DOMAIN root, NEW p \in UserPages,
         NEW x \in [0 .. Radix - 1 -> -1 .. Frames], p \in Text => Within(x, p),
         MapNew(sp, p, x)
  PROVE  /\ PInv' /\ OneMapped(sp, p, NextFree(Now))
         /\ Unseen(Now, root, NextFree(Now))
         /\ \A v \in KernelPages : Leaf(Now, KRoot, v) # NextFree(Now)
<1>1. PICK r : r = root[sp]
  OBVIOUS
<1>2. PICK s : s = AllocAtVirt(Now, r, p)
  OBVIOUS
<1>3. PICK t : t = NextFree(Now)
  OBVIOUS
<1>4. PICK s2 : s2 = [s EXCEPT !.mem[t] = x]
  OBVIOUS
<1>5. Becomes(s2) /\ root' = root /\ cr3' = cr3 /\ Room
  BY <1>1, <1>2, <1>3, <1>4 DEF MapNew
<1>6. /\ Good(Now, root, cr3) /\ Tree(Now, root) /\ Frames \in Nat
      /\ r \in SpaceRoots(root) /\ r \in Roots(root) /\ r # KRoot
  BY <1>1, SpaceRootOf
<1>7. p \in Virt
  BY AddressesTyped
<1>8. Mapping(s, Now, root, r, p, t) /\ t \in Now.free \ s.free /\ t \notin Tables(s, root)
  <2>1. Cardinality(Now.free) > Levels
    BY <1>5, RoomFor
  <2> QED BY <1>2, <1>3, <1>6, <1>7, <2>1, AllocMaps
<1>9. Unseen(Now, root, t) /\ \A v \in KernelPages : Leaf(Now, KRoot, v) # t
  BY <1>6, <1>8, FreeUnseen
<1>10. /\ Good(s, root, cr3) /\ UserMapped(s, Now, root, r, p, t)
       /\ \A v \in KernelPages : Leaf(s, KRoot, v) = Leaf(Now, KRoot, v)
  <2>1. t # 0 => /\ \A q \in SpaceRoots(root), w \in UserPages : Leaf(Now, q, w) = t => w = p
                 /\ \A v \in KernelPages : Leaf(Now, KRoot, v) = t => p \in Stack
    BY <1>9 DEF Unseen
  <2> QED BY <1>6, <1>8, <2>1, UserMapGood
<1>11. s2 = [mem |-> [s.mem EXCEPT ![t] = x], free |-> s.free, top |-> s.top]
  <2>1. s = [mem |-> s.mem, free |-> s.free, top |-> s.top]
    BY <1>10, GoodFacts
  <2> QED BY <1>4, <2>1
<1>12. t \in 0 .. Frames
  <2>1. t \in 2 .. Frames
    BY <1>6, <1>8, TreeTyped
  <2> QED BY <1>6, <2>1
<1>13. /\ Good(s2, root, cr3)
       /\ \A q \in Roots(root), w \in Virt : Leaf(s2, q, w) = Leaf(s, q, w)
  BY <1>8, <1>10, <1>11, <1>12, Written
<1>14. UserMapped(s2, Now, root, r, p, t) /\ KernelKept(s2, Now)
  <2>1. KernelKept(s, Now)
    BY <1>10, SameKernel
  <2> QED BY <1>10, <1>13, <2>1, WrittenSeen
<1>15. Now' = s2
  BY <1>5, <1>13, GoodFacts, NowBecomes
<1>16. Bounded(s2, root)
  <2>0. s2.mem[t] = x /\ \A g \in 0 .. Frames : g # t => s2.mem[g] = s.mem[g]
    <3>1. s.mem \in [0 .. Frames -> [0 .. Radix - 1 -> -1 .. Frames]]
      BY <1>10, TreeTyped DEF Good
    <3>2. s2.mem = [s.mem EXCEPT ![t] = x]
      BY <1>11
    <3> QED BY <1>12, <3>1, <3>2
  <2>1. Untouched(s2, Now, root)
    BY <1>8, <2>0, UntouchedOffered DEF Mapping
  <2>2. p \in Text => Within(s2.mem[t], p)
    BY <2>0
  <2> QED BY <1>6, <1>14, <2>1, <2>2, BoundedMapped DEF PInv
<1> QED BY <1>1, <1>3, <1>5, <1>9, <1>13, <1>14, <1>15, <1>16 DEF PInv, OneMapped

\* The next frame on offer is clear.
LEMMA NextClear ==
  ASSUME PInv, Room
  PROVE  mem[NextFree(Now)] = Empty
<1>1. Good(Now, root, cr3) /\ Tree(Now, root)
  BY DEF PInv, Good
<1>2. Cardinality(Now.free) >= 1
  BY RoomFor
<1>3. NextFree(Now) \in Now.free
  BY <1>1, <1>2, NextFreeIs
<1> QED BY <1>1, <1>3 DEF Tree, Now

LEMMA OverTyped ==
  ASSUME NEW t \in [0 .. Radix - 1 -> -1 .. Frames], NEW es, NEW x \in -1 .. Frames
  PROVE  Over(t, es, x) \in [0 .. Radix - 1 -> -1 .. Frames]
BY DEF Over

LEMMA EmptyTyped == Empty \in [0 .. Radix - 1 -> -1 .. Frames]
BY PageTablesAssumption DEF Empty, Absent

LEMMA LoadPageGood ==
  ASSUME PInv, NEW sp \in DOMAIN root, NEW p \in UserPages, LoadPage(sp, p)
  PROVE  /\ PInv' /\ OneMapped(sp, p, NextFree(Now))
         /\ Unseen(Now, root, NextFree(Now))
         /\ \A v \in KernelPages : Leaf(Now, KRoot, v) # NextFree(Now)
<1>1. PICK x : x = Over(mem[NextFree(Now)], Part[p], Junk)
  OBVIOUS
<1>2. MapNew(sp, p, x) /\ Room
  BY <1>1 DEF LoadPage, MapNew
<1>3. x = Over(Empty, Part[p], Junk)
  BY <1>1, <1>2, NextClear
<1>4. x \in [0 .. Radix - 1 -> -1 .. Frames]
  BY <1>3, OverTyped, EmptyTyped, PageTablesAssumption DEF Junk
<1>5. Within(x, p)
  BY <1>3 DEF Within, Over, Empty
<1> QED BY <1>2, <1>4, <1>5, MapNewGood

LEMMA HeapFaultGood ==
  ASSUME PInv, NEW sp \in DOMAIN root, NEW p \in UserPages, HeapFault(sp, p)
  PROVE  /\ PInv' /\ OneMapped(sp, p, NextFree(Now))
         /\ Unseen(Now, root, NextFree(Now))
         /\ \A v \in KernelPages : Leaf(Now, KRoot, v) # NextFree(Now)
<1>1. MapNew(sp, p, Empty) /\ p \notin Text
  BY DEF HeapFault
<1> QED BY <1>1, EmptyTyped, MapNewGood

LEMMA StackFaultGood ==
  ASSUME PInv, NEW sp \in DOMAIN root, NEW p \in UserPages, StackFault(sp, p)
  PROVE  /\ PInv' /\ OneMapped(sp, p, NextFree(Now))
         /\ Unseen(Now, root, NextFree(Now))
         /\ \A v \in KernelPages : Leaf(Now, KRoot, v) # NextFree(Now)
<1>1. MapNew(sp, p, mem[NextFree(Now)]) /\ p \notin Text /\ Room
  BY PageTablesAssumption DEF StackFault, MapNew
<1>2. MapNew(sp, p, Empty)
  BY <1>1, NextClear
<1> QED BY <1>1, <1>2, EmptyTyped, MapNewGood

LEMMA VirtToPhyIs ==
  ASSUME PInv, NEW sp \in DOMAIN root, NEW p \in UserPages
  PROVE  /\ VirtToPhy(root[sp], p) \in {Leaf(Now, root[sp], p), 0}
         /\ VirtToPhy(root[sp], p) \in 0 .. Frames
         /\ Leaf(Now, root[sp], p) = Absent => VirtToPhy(root[sp], p) = 0
<1>1. PICK f : f = Leaf(Now, root[sp], p)
  OBVIOUS
<1>2. VirtToPhy(root[sp], p) = IF f = Absent THEN 0 ELSE f
  BY <1>1 DEF VirtToPhy, Walk, Leaf, At, Now
<1>3. f \in -1 .. Frames
  BY <1>1, SpaceRootOf, AddressesTyped, TreeTyped
<1> QED BY <1>1, <1>2, <1>3, PageTablesAssumption DEF Absent

LEMMA SharePageGood ==
  ASSUME PInv, NEW parent \in DOMAIN root, NEW child \in DOMAIN root \ {parent},
         NEW p \in UserPages, SharePage(parent, child, p)
  PROVE  PInv' /\ OneMapped(child, p, VirtToPhy(root[parent], p))
<1>1. PICK r : r = root[child]
  OBVIOUS
<1>2. PICK f : f = VirtToPhy(root[parent], p)
  OBVIOUS
<1>3. PICK s : s = MapVirtToPhy(Now, r, p, f)
  OBVIOUS
<1>4. Becomes(s) /\ root' = root /\ cr3' = cr3 /\ Room /\ p \notin Stack
  BY <1>1, <1>2, <1>3 DEF SharePage
<1>5. /\ Good(Now, root, cr3) /\ Tree(Now, root) /\ Apart(Now, root) /\ Frames \in Nat
      /\ r \in SpaceRoots(root) /\ r \in Roots(root) /\ r # KRoot
      /\ root[parent] \in SpaceRoots(root)
  BY <1>1, SpaceRootOf
<1>6. p \in Virt
  BY AddressesTyped
<1>7. /\ f \in 0 .. Frames /\ f \in {Leaf(Now, root[parent], p), 0}
      /\ f # 0 => f = Leaf(Now, root[parent], p) /\ f # Absent
  <2>1. f \in 0 .. Frames /\ f \in {Leaf(Now, root[parent], p), 0}
    BY <1>2, VirtToPhyIs
  <2> QED BY <1>5, <2>1 DEF Absent
<1>8. Mapping(s, Now, root, r, p, f)
  <2>1. Cardinality(Now.free) >= Levels
    BY <1>4, RoomFor
  <2> QED BY <1>3, <1>5, <1>6, <1>7, <2>1, MapVirtToPhyMaps
<1>9. f \notin s.free /\ f \notin Tables(s, root)
  <2>1. /\ s.free \subseteq Now.free
        /\ Tables(s, root) \subseteq Tables(Now, root) \cup (Now.free \ s.free)
    BY <1>8 DEF Mapping
  <2>2. f \notin Now.free /\ f \notin Tables(Now, root)
    <3>1. CASE f = 0
      <4>1. Now.free \subseteq 2 .. Frames /\ Tables(Now, root) \subseteq 1 .. Frames
        BY <1>5, TreeTyped DEF Tree
      <4> QED BY <1>5, <3>1, <4>1
    <3>2. CASE f # 0
      BY <1>5, <1>7, <3>2 DEF Apart
    <3> QED BY <3>1, <3>2
  <2> QED BY <2>1, <2>2
<1>10. f # 0 => /\ \A q \in SpaceRoots(root), w \in UserPages : Leaf(Now, q, w) = f => w = p
                /\ \A v \in KernelPages : Leaf(Now, KRoot, v) = f => p \in Stack
  BY <1>5, <1>7 DEF Apart
<1>11. /\ Good(s, root, cr3) /\ UserMapped(s, Now, root, r, p, f)
       /\ \A v \in KernelPages : Leaf(s, KRoot, v) = Leaf(Now, KRoot, v)
  BY <1>5, <1>8, <1>9, <1>10, UserMapGood
<1>12. KernelKept(s, Now)
  BY <1>11, SameKernel
<1>13. Now' = s
  BY <1>4, <1>11, GoodFacts, NowBecomes
<1>14. Bounded(s, root)
  <2>1. Untouched(s, Now, root)
    BY <1>8 DEF Mapping
  <2>2. f = 0 \/ \E q \in SpaceRoots(root) : f = Leaf(Now, q, p)
    BY <1>5, <1>7
  <2> QED BY <1>5, <1>11, <2>1, <2>2, BoundedMapped DEF PInv
<1> QED BY <1>1, <1>2, <1>4, <1>11, <1>12, <1>13, <1>14 DEF PInv, OneMapped

LEMMA CopyPageGood ==
  ASSUME PInv, NEW parent \in DOMAIN root, NEW child \in DOMAIN root \ {parent},
         NEW p \in UserPages, CopyPage(parent, child, p)
  PROVE  /\ PInv' /\ OneMapped(child, p, NextFree(Now))
         /\ Unseen(Now, root, NextFree(Now))
         /\ \A v \in KernelPages : Leaf(Now, KRoot, v) # NextFree(Now)
<1>1. PICK r : r = root[child]
  OBVIOUS
<1>2. PICK s : s = AllocPages(Now)
  OBVIOUS
<1>3. PICK f : f = Walk(s.mem, cr3, top)
  OBVIOUS
<1>4. PICK x : x = s.mem[VirtToPhy(cr3, p)]
  OBVIOUS
<1>5. PICK n : n = [s EXCEPT !.mem[f] = x]
  OBVIOUS
<1>6. PICK s2 : s2 = MapVirtToPhy(n, r, p, f)
  OBVIOUS
<1>7. /\ Becomes(s2) /\ root' = root /\ cr3' = cr3 /\ Room /\ p \in Stack
      /\ cr3 = root[parent]
  BY <1>1, <1>2, <1>3, <1>4, <1>5, <1>6 DEF CopyPage
<1>8. /\ Good(Now, root, cr3) /\ Tree(Now, root) /\ Frames \in Nat
      /\ r \in SpaceRoots(root) /\ r \in Roots(root) /\ r # KRoot
      /\ cr3 \in Roots(root)
  BY <1>1, <1>7, SpaceRootOf
<1>9. PICK t : t = NextFree(Now)
  OBVIOUS
<1>10. Good(s, root, cr3) /\ Allocated(s, Now, root, t)
  BY <1>2, <1>7, <1>8, <1>9, RoomFor, AllocPagesIs
<1>11. /\ t \in Now.free /\ t \notin s.free /\ t \in 2 .. Frames /\ t \in 0 .. Frames
       /\ t \notin Tables(s, root) /\ t # 0
       /\ Cardinality(s.free) >= Cardinality(Now.free) - Levels
  <2>1. t \in 2 .. Frames
    BY <1>10 DEF Allocated
  <2>2. t \in 0 .. Frames /\ t # 0
    BY <1>8, <2>1
  <2> QED BY <1>10, <2>1, <2>2 DEF Allocated
<1>12. f = t
  <2>1. PICK v : v = Now.top
    OBVIOUS
  <2>2. v \in Virt
    <3>1. v \in Nat /\ v < Span[Levels]
      BY <1>7, <1>8, <2>1, RoomFor, TreeTyped
    <3> QED BY <3>1, AddressesTyped DEF Virt
  <2>3. Leaf(s, cr3, v) = t
    BY <1>8, <1>10, <2>1, <2>2 DEF Allocated
  <2>4. v = top
    BY <2>1 DEF Now
  <2> QED BY <1>3, <2>3, <2>4 DEF Walk, Leaf, At
<1>13. Unseen(Now, root, t) /\ \A v \in KernelPages : Leaf(Now, KRoot, v) # t
  BY <1>8, <1>11, FreeUnseen
<1>14. KernelKept(s, Now) /\ UserKept(s, Now, root)
  BY <1>8, <1>10, AllocatedSeen
<1>15. Tree(s, root) /\ s = [mem |-> s.mem, free |-> s.free, top |-> s.top]
       /\ s.mem \in [0 .. Frames -> [0 .. Radix - 1 -> -1 .. Frames]]
  <2>1. Tree(s, root)
    BY <1>10 DEF Good
  <2> QED BY <2>1, TreeTyped
<1>16. x \in [0 .. Radix - 1 -> -1 .. Frames]
  <2>1. VirtToPhy(cr3, p) \in 0 .. Frames
    BY <1>7, VirtToPhyIs
  <2> QED BY <1>4, <1>15, <2>1
<1>17. n = [mem |-> [s.mem EXCEPT ![t] = x], free |-> s.free, top |-> s.top]
  BY <1>5, <1>12, <1>15
<1>18. /\ Good(n, root, cr3) /\ Tables(n, root) = Tables(s, root) /\ n.free = s.free
       /\ \A q \in Roots(root), w \in Virt : Leaf(n, q, w) = Leaf(s, q, w)
  BY <1>10, <1>11, <1>16, <1>17, Written
<1>19. KernelKept(n, Now) /\ UserKept(n, Now, root)
  BY <1>10, <1>14, <1>18, WrittenSeen
<1>20. Mapping(s2, n, root, r, p, t)
  <2>1. Tree(n, root) /\ p \in Virt
    BY <1>18, AddressesTyped DEF Good
  <2>2. Cardinality(n.free) >= Levels
    <3>1. Cardinality(s.free) \in Nat
      BY <1>15, FreeFinite
    <3> QED BY <1>7, <1>11, <1>18, <3>1, RoomFor
  <2> QED BY <1>6, <1>8, <1>11, <1>12, <2>1, <2>2, MapVirtToPhyMaps
<1>21. t \notin s2.free /\ t \notin Tables(s2, root)
  <2>1. /\ s2.free \subseteq n.free
        /\ Tables(s2, root) \subseteq Tables(n, root) \cup (n.free \ s2.free)
    BY <1>20 DEF Mapping
  <2> QED BY <1>11, <1>18, <2>1
<1>22. /\ Good(s2, root, cr3) /\ UserMapped(s2, n, root, r, p, t)
       /\ \A v \in KernelPages : Leaf(s2, KRoot, v) = Leaf(n, KRoot, v)
  <2>1. \A q \in SpaceRoots(root), w \in UserPages : Leaf(n, q, w) # t
    BY <1>13, <1>19 DEF Unseen, UserKept
  <2>2. t # 0 => /\ \A q \in SpaceRoots(root), w \in UserPages : Leaf(n, q, w) = t => w = p
                 /\ \A v \in KernelPages : Leaf(n, KRoot, v) = t => p \in Stack
    BY <1>7, <2>1
  <2> QED BY <1>8, <1>18, <1>20, <1>21, <2>2, UserMapGood
<1>23. UserMapped(s2, Now, root, r, p, t) /\ KernelKept(s2, Now)
  BY <1>19, <1>22 DEF UserMapped, UserKept, KernelKept
<1>24. Now' = s2
  BY <1>7, <1>22, GoodFacts, NowBecomes
<1>25. Bounded(s2, root)
  <2>1. Untouched(n, Now, root)
    <3>1. \A g \in 0 .. Frames : g # t => n.mem[g] = s.mem[g]
      BY <1>10, <1>11, <1>17, WrittenHere
    <3> QED BY <1>10, <1>11, <3>1, UntouchedOffered DEF Allocated
  <2>2. /\ n.free \subseteq Now.free
        /\ Tables(n, root) \subseteq Tables(Now, root) \cup (Now.free \ n.free)
    BY <1>10, <1>18 DEF Allocated
  <2>3. Untouched(s2, n, root)
    BY <1>20 DEF Mapping
  <2>4. Untouched(s2, Now, root)
    BY <2>1, <2>2, <2>3, UntouchedOn
  <2>5. p \notin Text
    BY <1>7, PageTablesAssumption
  <2> QED BY <1>8, <1>23, <2>4, <2>5, BoundedMapped DEF PInv
<1> QED BY <1>1, <1>7, <1>9, <1>13, <1>22, <1>23, <1>24, <1>25 DEF PInv, OneMapped

LEMMA StoreGood ==
  ASSUME PInv, ~StrayStores, NEW sp \in DOMAIN root, NEW p \in UserPages, Store(sp, p)
  PROVE  PInv' /\ root' = root /\ KernelKept(Now', Now) /\ UserKept(Now', Now, root)
<1>1. PICK f : f = Walk(mem, root[sp], p)
  OBVIOUS
<1>2. PICK x : x = Over(mem[f], Part[p], Junk)
  OBVIOUS
<1>3. /\ mem' = [mem EXCEPT ![f] = x] /\ f # Absent
      /\ free' = free /\ top' = top /\ root' = root /\ cr3' = cr3
  BY <1>1, <1>2 DEF Store
<1>4. /\ Good(Now, root, cr3) /\ Tree(Now, root) /\ Apart(Now, root) /\ Frames \in Nat
      /\ root[sp] \in SpaceRoots(root) /\ root[sp] \in Roots(root)
  BY SpaceRootOf
<1>5. PICK s2 : s2 = [mem |-> [Now.mem EXCEPT ![f] = x], free |-> Now.free, top |-> Now.top]
  OBVIOUS
<1>6. Now' = s2
  BY <1>3, <1>5 DEF Now
<1>7. /\ f \in 0 .. Frames /\ f \notin Tables(Now, root) /\ f \notin Now.free
      /\ f = Leaf(Now, root[sp], p)
  <2>1. f = Leaf(Now, root[sp], p)
    BY <1>1 DEF Walk, Leaf, At, Now
  <2>2. f \in -1 .. Frames
    BY <1>4, <2>1, TreeTyped, AddressesTyped
  <2>3. f \in 0 .. Frames
    BY <1>3, <1>4, <2>2 DEF Absent
  <2> QED BY <1>4, <2>1, <2>3 DEF Apart
<1>8. x \in [0 .. Radix - 1 -> -1 .. Frames]
  <2>1. Now.mem \in [0 .. Frames -> [0 .. Radix - 1 -> -1 .. Frames]] /\ Now.mem = mem
    BY <1>4, TreeTyped DEF Now
  <2>2. mem[f] \in [0 .. Radix - 1 -> -1 .. Frames]
    BY <1>7, <2>1
  <2> QED BY <1>2, <1>4, <2>2, OverTyped DEF Junk
<1>9. /\ Good(s2, root, cr3)
      /\ \A q \in Roots(root), w \in Virt : Leaf(s2, q, w) = Leaf(Now, q, w)
  BY <1>4, <1>5, <1>7, <1>8, Written
<1>10. KernelKept(Now, Now) /\ UserKept(Now, Now, root)
  BY DEF KernelKept, UserKept
<1>11. KernelKept(s2, Now) /\ UserKept(s2, Now, root)
  BY <1>4, <1>9, <1>10, WrittenSeen
<1>13. s2.mem[f] = x /\ \A g \in 0 .. Frames : g # f => s2.mem[g] = Now.mem[g]
  <2>1. PICK m : m = Now.mem
    OBVIOUS
  <2>2. m \in [0 .. Frames -> [0 .. Radix - 1 -> -1 .. Frames]]
    BY <1>4, <2>1, TreeTyped
  <2>3. s2.mem = [m EXCEPT ![f] = x]
    BY <1>5, <2>1
  <2>4. s2.mem[f] = x
    BY <1>7, <2>2, <2>3
  <2>5. \A g \in 0 .. Frames : g # f => s2.mem[g] = m[g]
    BY <2>2, <2>3
  <2> QED BY <2>1, <2>4, <2>5
<1>12. Bounded(s2, root)
  <2> SUFFICES ASSUME NEW q \in SpaceRoots(root), NEW w \in Text,
                      Leaf(s2, q, w) \notin {Absent, 0}
               PROVE  Within(s2.mem[Leaf(s2, q, w)], w)
    BY DEF Bounded
  <2>1. PICK g : g = Leaf(Now, q, w)
    OBVIOUS
  <2>2. /\ g = Leaf(s2, q, w) /\ g \notin {Absent, 0} /\ w \in UserPages
        /\ q \in Roots(root) /\ w \in Virt
    <3>1. q \in Roots(root) /\ w \in UserPages /\ w \in Virt
      BY PageTablesAssumption, AddressesTyped DEF Roots
    <3>2. Leaf(s2, q, w) = Leaf(Now, q, w)
      BY <1>9, <3>1
    <3> QED BY <2>1, <3>1, <3>2
  <2>3. g \in 0 .. Frames
    <3>2. Tree(Now, root) /\ q \in Roots(root) /\ w \in Virt
      BY <1>4, <2>2
    <3>3. Leaf(Now, q, w) \in -1 .. Frames
      BY <3>2, TreeTyped
    <3>1. g \in -1 .. Frames
      BY <2>1, <3>3
    <3> QED BY <1>4, <2>2, <3>1 DEF Absent
  <2>4. Within(Now.mem[g], w)
    BY <2>1, <2>2 DEF PInv, Bounded
  <2>5. CASE g = f
    <3>1. w = p
      BY <1>4, <1>7, <2>1, <2>2, <2>5 DEF Apart
    <3>2. Within(x, w)
      BY <1>2, <2>4, <2>5, <3>1 DEF Within, Over, Now
    <3> QED BY <1>13, <2>2, <2>5, <3>2
  <2>6. CASE g # f
    BY <1>13, <2>2, <2>3, <2>4, <2>6
  <2> QED BY <2>5, <2>6
<1> QED BY <1>3, <1>6, <1>9, <1>11, <1>12 DEF PInv

LEMMA SwitchGood ==
  ASSUME PInv, NEW sp \in DOMAIN root, Switch(sp)
  PROVE  PInv' /\ Now' = Now /\ root' = root
<1>1. Now' = Now /\ root' = root /\ cr3' = root[sp]
  BY DEF Switch, Now
<1>2. root[sp] \in Roots(root)
  BY SpaceRootOf
<1>3. Good(Now, root, root[sp])
  BY <1>2 DEF PInv, Good
<1> QED BY <1>1, <1>3 DEF PInv

\* The frames of the first vma are no table, and no page of another space.
LEMMA EndSpaceGood ==
  ASSUME PInv, NEW sp \in DOMAIN root, EndSpace(sp)
  PROVE  /\ PInv' /\ root' = [t \in DOMAIN root \ {sp} |-> root[t]]
         /\ KernelKept(Now', Now) /\ UserKept(Now', Now, root')
<1>1. PICK r : r = root[sp]
  OBVIOUS
<1>2. PICK given : given = {VirtToPhy(root[sp], p) : p \in Text}
  OBVIOUS
<1>3. PICK rt2 : rt2 = [t \in DOMAIN root \ {sp} |-> root[t]]
  OBVIOUS
<1>4. /\ \A t \in DOMAIN root \ {sp}, p \in Text : Walk(mem, root[t], p) \notin given
      /\ mem' = GivenBack(mem, r) /\ free' = free \cup given /\ top' = top
      /\ root' = rt2 /\ cr3' = KRoot /\ 0 \notin given
  BY <1>1, <1>2, <1>3 DEF EndSpace
<1>5. /\ Good(Now, root, cr3) /\ Tree(Now, root) /\ Apart(Now, root) /\ Frames \in Nat
      /\ r \in SpaceRoots(root) /\ Text \subseteq UserPages /\ Text \cap Stack = {}
  BY <1>1, SpaceRootOf, PageTablesAssumption
<1>6. PICK s2 : s2 = [mem |-> GivenBack(Now.mem, r), free |-> Now.free \cup given, top |-> Now.top]
  OBVIOUS
<1>7. Now' = s2
  BY <1>4, <1>6 DEF Now
<1>8. \A f \in given : /\ f \in 1 .. Frames
                       /\ \E p \in Text : f = Leaf(Now, r, p)
  <2> SUFFICES ASSUME NEW f \in given
               PROVE  f \in 1 .. Frames /\ \E p \in Text : f = Leaf(Now, r, p)
    OBVIOUS
  <2>1. PICK p \in Text : f = VirtToPhy(root[sp], p)
    BY <1>2
  <2>2. f # 0
    BY <1>4
  <2>3. p \in UserPages
    BY <1>5
  <2>4. f \in 0 .. Frames /\ f \in {Leaf(Now, r, p), 0}
    BY <1>1, <2>1, <2>3, VirtToPhyIs
  <2> QED BY <1>5, <2>2, <2>4
<1>9. \A f \in given : /\ f \notin Tables(Now, root) /\ f \notin {Absent, 0}
                       /\ \A v \in KernelPages : Leaf(Now, KRoot, v) # f
  <2> SUFFICES ASSUME NEW f \in given
               PROVE  /\ f \notin Tables(Now, root) /\ f \notin {Absent, 0}
                      /\ \A v \in KernelPages : Leaf(Now, KRoot, v) # f
    OBVIOUS
  <2>1. PICK p \in Text : f = Leaf(Now, r, p)
    BY <1>8
  <2>2. p \in UserPages /\ p \notin Stack
    BY <1>5
  <2>3. f \notin {Absent, 0}
    <3>1. f \in 1 .. Frames
      BY <1>8
    <3> QED BY <1>5, <3>1 DEF Absent
  <2> QED BY <1>5, <2>1, <2>2, <2>3 DEF Apart
<1>10. KRoot \in Tables(Now, root)
  <2>1. KRoot \in Roots(root) /\ 0 \in Virt /\ 0 \in 0 .. Levels - 1 /\ KRoot # Absent
    BY PageTablesAssumption, AddressesTyped DEF Roots, Virt, KRoot, Absent
  <2>2. At(Now, KRoot, 0, 0) = KRoot
    BY AtFirst
  <2> QED BY <2>1, <2>2 DEF Tables
<1>11. given \subseteq 2 .. Frames
  BY <1>5, <1>8, <1>9, <1>10 DEF KRoot
<1>12. /\ Now.mem \in [0 .. Frames -> [0 .. Radix - 1 -> -1 .. Frames]]
       /\ Now.free \subseteq 2 .. Frames /\ Now.top \in Nat
       /\ \A g \in Now.free : Now.mem[g] = Empty
  BY <1>5, TreeTyped DEF Tree
<1>13. s2.mem = GivenBack(Now.mem, r) /\ s2.free = Now.free \cup given /\ s2.top = Now.top
  BY <1>6
<1>14. PICK m : m = Now.mem
  OBVIOUS
<1>15. s2.mem = [g \in 0 .. Frames |-> IF g \in given THEN Empty ELSE m[g]]
  <2>1. PICK es : es = [g \in 0 .. Frames |->
                         UNION {Part[p] : p \in {q \in Text : Leaf(Now, r, q) = g}}]
    OBVIOUS
  <2>2. s2.mem = [g \in 0 .. Frames |-> Over(m[g], es[g], Absent)]
    <3>1. \A q : Walk(m, r, q) = Leaf(Now, r, q)
      BY <1>14 DEF Walk, Leaf, At
    <3>2. DOMAIN m = 0 .. Frames
      BY <1>12, <1>14
    <3> QED BY <1>13, <1>14, <2>1, <3>1, <3>2 DEF GivenBack
  <2>3. ASSUME NEW g \in 0 .. Frames, g \in given PROVE Over(m[g], es[g], Absent) = Empty
    <3>1. PICK p \in Text : g = Leaf(Now, r, p)
      BY <1>8, <2>3
    <3>2. Part[p] \subseteq es[g]
      BY <2>1, <3>1
    <3>3. Within(m[g], p)
      BY <1>5, <1>9, <1>14, <2>3, <3>1 DEF PInv, Bounded
    <3> QED BY <3>2, <3>3 DEF Over, Empty, Within
  <2>4. ASSUME NEW g \in 0 .. Frames, g \notin given PROVE Over(m[g], es[g], Absent) = m[g]
    <3>1. \A q \in Text : Leaf(Now, r, q) # g
      <4> SUFFICES ASSUME NEW q \in Text, Leaf(Now, r, q) = g PROVE FALSE
        OBVIOUS
      <4>1. g # Absent
        BY <1>5, <2>4 DEF Absent
      <4>2. VirtToPhy(root[sp], q) = g
        BY <1>1, <4>1 DEF VirtToPhy, Walk, Leaf, At, Now
      <4> QED BY <1>2, <2>4, <4>2
    <3>2. es[g] = {}
      BY <2>1, <3>1
    <3>3. m[g] \in [0 .. Radix - 1 -> -1 .. Frames]
      BY <1>12, <1>14, <2>4
    <3> QED BY <3>2, <3>3 DEF Over
  <2> QED BY <2>2, <2>3, <2>4
<1>28. \A g \in 0 .. Frames : s2.mem[g] = IF g \in given THEN Empty ELSE m[g]
  BY <1>15
<1>16. Empty \in [0 .. Radix - 1 -> -1 .. Frames]
  BY <1>5 DEF Empty, Absent
<1>17. s2 \in Memory
  <2>1. s2.mem = [g \in 0 .. Frames |-> IF g \in given THEN Empty ELSE m[g]]
    BY <1>15
  <2>2. m \in [0 .. Frames -> [0 .. Radix - 1 -> -1 .. Frames]]
    BY <1>12, <1>14
  <2>3. s2.mem \in [0 .. Frames -> [0 .. Radix - 1 -> -1 .. Frames]]
    BY <1>16, <2>1, <2>2
  <2>4. s2.free \subseteq 2 .. Frames /\ s2.top \in Nat
    BY <1>11, <1>12, <1>13
  <2>5. s2 = [mem |-> s2.mem, free |-> s2.free, top |-> s2.top]
    BY <1>6
  <2> QED BY <2>3, <2>4, <2>5 DEF Memory
<1>18. Beside(s2, Now, root)
  <2>1. \A t \in (1 .. Frames) \cap Tables(Now, root) : s2.mem[t] = Now.mem[t]
    <3>1. \A t \in 1 .. Frames : t \in 0 .. Frames
      BY <1>5
    <3> QED BY <1>9, <1>14, <1>28, <3>1
  <2>2. \A g \in s2.free : s2.mem[g] = Empty
    <3> SUFFICES ASSUME NEW g \in s2.free PROVE s2.mem[g] = Empty
      OBVIOUS
    <3>1. g \in given \/ g \in Now.free
      BY <1>13
    <3>2. g \in 2 .. Frames
      BY <1>11, <1>12, <3>1
    <3>3. g \in 0 .. Frames
      BY <1>5, <3>2
    <3>4. s2.mem[g] = IF g \in given THEN Empty ELSE m[g]
      BY <1>28, <3>3
    <3> QED BY <1>12, <1>14, <3>1, <3>4
  <2>3. Tables(Now, root) \cap s2.free = {}
    <3>1. Tables(Now, root) \cap Now.free = {}
      BY <1>5 DEF Tree
    <3> QED BY <1>9, <1>13, <3>1
  <2> QED BY <1>17, <2>1, <2>2, <2>3 DEF Beside
<1>19. /\ Tree(s2, root) /\ Tables(s2, root) = Tables(Now, root)
       /\ \A q \in Roots(root), w \in Virt : Leaf(s2, q, w) = Leaf(Now, q, w)
  BY <1>5, <1>18, Elsewhere
<1>20. /\ Tree(s2, rt2) /\ SpaceRoots(rt2) \subseteq SpaceRoots(root)
       /\ Tables(s2, rt2) \subseteq Tables(s2, root)
  <2>1. DOMAIN rt2 = DOMAIN root \ {sp} /\ \A t \in DOMAIN rt2 : rt2[t] = root[t]
    BY <1>3
  <2> QED BY <1>19, <2>1, FewerRoots
<1>21. /\ SpaceRoots(root) \subseteq Roots(root) /\ KRoot \in Roots(root)
       /\ UserPages \subseteq Virt /\ KernelPages \subseteq Virt
  BY <1>5, GoodFacts
<1>22. \A v \in KernelPages : Leaf(s2, KRoot, v) = Leaf(Now, KRoot, v)
  BY <1>19, <1>21
<1>23. \A q \in SpaceRoots(rt2), p \in UserPages : Leaf(s2, q, p) = Leaf(Now, q, p)
  BY <1>19, <1>20, <1>21
<1>24. \A q \in SpaceRoots(rt2), p \in UserPages : Leaf(Now, q, p) \notin given
  <2> SUFFICES ASSUME NEW q \in SpaceRoots(rt2), NEW p \in UserPages,
                      Leaf(Now, q, p) \in given
               PROVE  FALSE
    OBVIOUS
  <2>1. PICK f : f = Leaf(Now, q, p)
    OBVIOUS
  <2>2. PICK w \in Text : f = Leaf(Now, r, w)
    BY <1>8, <2>1
  <2>3. p = w
    <3>1. w \in UserPages /\ q \in SpaceRoots(root) /\ f \notin {Absent, 0}
      BY <1>5, <1>9, <1>20, <2>1
    <3>2. Leaf(Now, r, w) \notin {Absent, 0} /\ Leaf(Now, q, p) = Leaf(Now, r, w)
      BY <2>1, <2>2, <3>1
    <3>3. \A q1, q2 \in SpaceRoots(root), x, y \in UserPages :
            Leaf(Now, q1, x) \notin {Absent, 0} /\ Leaf(Now, q2, y) = Leaf(Now, q1, x) => y = x
      BY <1>5 DEF Apart
    <3> QED BY <1>5, <3>1, <3>2, <3>3
  <2>4. PICK t \in DOMAIN rt2 : q = rt2[t]
    BY DEF SpaceRoots
  <2>5. t \in DOMAIN root \ {sp} /\ q = root[t]
    BY <1>3, <2>4
  <2>6. Leaf(Now, q, p) = Walk(mem, q, p)
    BY DEF Leaf, At, Walk, Now
  <2> QED BY <1>4, <2>2, <2>3, <2>5, <2>6
<1>25. Apart(s2, rt2)
  <2>1. \A v \in KernelPages : Leaf(s2, KRoot, v) \notin s2.free
    BY <1>5, <1>9, <1>13, <1>22 DEF Apart
  <2>2. \A q \in SpaceRoots(rt2), p \in UserPages :
          Leaf(s2, q, p) \notin s2.free /\ Leaf(s2, q, p) \notin Tables(s2, rt2)
    BY <1>5, <1>13, <1>19, <1>20, <1>23, <1>24 DEF Apart
  <2>3. \A q1, q2 \in SpaceRoots(rt2), p, w \in UserPages :
          Leaf(s2, q1, p) \notin {Absent, 0} /\ Leaf(s2, q2, w) = Leaf(s2, q1, p) => w = p
    BY <1>5, <1>20, <1>23 DEF Apart
  <2>4. \A q \in SpaceRoots(rt2), p \in UserPages, v \in KernelPages :
          Leaf(s2, q, p) \notin {Absent, 0} /\ Leaf(s2, KRoot, v) = Leaf(s2, q, p) => p \in Stack
    BY <1>5, <1>20, <1>22, <1>23 DEF Apart
  <2> QED BY <2>1, <2>2, <2>3, <2>4 DEF Apart
<1>26. Good(s2, rt2, KRoot)
  <2>1. s2.top = Now.top /\ KRoot \in Roots(rt2)
    BY <1>13 DEF Roots
  <2> QED BY <1>5, <1>20, <1>22, <1>25, <2>1 DEF Good
<1>27. KernelKept(s2, Now) /\ UserKept(s2, Now, rt2)
  BY <1>22, <1>23 DEF KernelKept, UserKept
<1>29. Bounded(s2, rt2)
  <2> SUFFICES ASSUME NEW q \in SpaceRoots(rt2), NEW p \in Text,
                      Leaf(s2, q, p) \notin {Absent, 0}
               PROVE  Within(s2.mem[Leaf(s2, q, p)], p)
    BY DEF Bounded
  <2>1. PICK f : f = Leaf(Now, q, p)
    OBVIOUS
  <2>2. p \in UserPages /\ q \in SpaceRoots(root) /\ q \in Roots(root) /\ p \in Virt
    BY <1>5, <1>20, <1>21
  <2>3. f = Leaf(s2, q, p) /\ f \notin {Absent, 0} /\ f \notin given
    BY <1>23, <1>24, <2>1, <2>2
  <2>4. f \in 0 .. Frames
    <3>1. f \in -1 .. Frames
      BY <1>5, <2>1, <2>2, TreeTyped
    <3> QED BY <1>5, <2>3, <3>1 DEF Absent
  <2>5. s2.mem[f] = Now.mem[f]
    BY <1>14, <1>28, <2>3, <2>4
  <2>6. Within(Now.mem[f], p)
    BY <2>1, <2>2, <2>3 DEF PInv, Bounded
  <2> QED BY <2>3, <2>5, <2>6
<1> QED BY <1>3, <1>4, <1>7, <1>26, <1>27, <1>29 DEF PInv

\* A task with a parent gives nothing back.
LEMMA LeaveSpaceGood ==
  ASSUME PInv, NEW sp \in DOMAIN root, LeaveSpace(sp)
  PROVE  /\ PInv' /\ root' = [t \in DOMAIN root \ {sp} |-> root[t]]
         /\ KernelKept(Now', Now) /\ UserKept(Now', Now, root')
<1>1. PICK rt2 : rt2 = [t \in DOMAIN root \ {sp} |-> root[t]]
  OBVIOUS
<1>2. Now' = Now /\ root' = rt2 /\ cr3' = KRoot
  BY <1>1 DEF LeaveSpace, Now
<1>3. Good(Now, root, cr3) /\ Tree(Now, root) /\ Apart(Now, root)
  BY SpaceRootOf
<1>4. /\ Tree(Now, rt2) /\ SpaceRoots(rt2) \subseteq SpaceRoots(root)
      /\ Tables(Now, rt2) \subseteq Tables(Now, root)
  <2>1. DOMAIN rt2 = DOMAIN root \ {sp} /\ \A t \in DOMAIN rt2 : rt2[t] = root[t]
    BY <1>1
  <2> QED BY <1>3, <2>1, FewerRoots
<1>5. Apart(Now, rt2)
  <2>1. \A q \in SpaceRoots(rt2), p \in UserPages :
          Leaf(Now, q, p) \notin Now.free /\ Leaf(Now, q, p) \notin Tables(Now, rt2)
    BY <1>3, <1>4 DEF Apart
  <2>2. \A q1, q2 \in SpaceRoots(rt2), p, w \in UserPages :
          Leaf(Now, q1, p) \notin {Absent, 0} /\ Leaf(Now, q2, w) = Leaf(Now, q1, p) => w = p
    BY <1>3, <1>4 DEF Apart
  <2>3. \A q \in SpaceRoots(rt2), p \in UserPages, v \in KernelPages :
          Leaf(Now, q, p) \notin {Absent, 0} /\ Leaf(Now, KRoot, v) = Leaf(Now, q, p) => p \in Stack
    BY <1>3, <1>4 DEF Apart
  <2> QED BY <1>3, <2>1, <2>2, <2>3 DEF Apart
<1>6. Good(Now, rt2, KRoot)
  <2>1. KRoot \in Roots(rt2)
    BY DEF Roots
  <2> QED BY <1>3, <1>4, <1>5, <2>1 DEF Good
<1>7. Bounded(Now, rt2)
  BY <1>4 DEF PInv, Bounded
<1>8. KernelKept(Now, Now) /\ UserKept(Now, Now, rt2)
  BY DEF KernelKept, UserKept
<1> QED BY <1>1, <1>2, <1>6, <1>7, <1>8 DEF PInv


-----------------------------------------------------------------------------
(* The boot. *)

NoSpaces == [sp \in {} |-> 0]

LEMMA BootFacts ==
  /\ Levels \in Nat \ {0, 1} /\ Radix \in Nat \ {0, 1} /\ Frames \in Nat /\ BootPages \in Nat
  /\ Frames >= 1 /\ FirstKernel \in Nat /\ Levels * BootPages \in Nat
  /\ Frames > Levels * BootPages /\ FirstKernel + BootPages <= Span[Levels]
<1>1. Levels \in Nat \ {0, 1} /\ Radix \in Nat \ {0, 1} /\ Frames \in Nat
  BY PageTablesAssumption
<1>2. Levels - 1 \in 0 .. Levels /\ Levels \in 1 .. Levels
  BY <1>1
<1>3. Span[Levels - 1] \in Nat /\ Span[Levels] = Radix * Span[Levels - 1]
  BY <1>2, SpanFacts
<1>4. BootPages \in Nat /\ BootPages <= Span[Levels - 1]
  BY <1>3, PageTablesAssumption
<1>5. Levels * BootPages \in Nat
  BY <1>1, <1>4
<1>6. Frames > Levels * BootPages
  BY PageTablesAssumption
<1>7. Frames >= 1
  BY <1>1, <1>5, <1>6
<1>8. FirstKernel = (Radix - 1) * Span[Levels - 1] /\ FirstKernel \in Nat
  BY AddressesTyped DEF FirstKernel
<1>9. FirstKernel + BootPages <= Span[Levels]
  <2> DEFINE a == Span[Levels - 1]
  <2>1. a \in Nat /\ Span[Levels] = Radix * a /\ FirstKernel = (Radix - 1) * a /\ BootPages <= a
    BY <1>3, <1>4, <1>8
  <2> HIDE DEF a
  <2>2. Radix * a = (Radix - 1) * a + a
    BY <1>1, <2>1
  <2> QED BY <1>1, <1>4, <1>8, <2>1, <2>2
<1> QED BY <1>1, <1>4, <1>5, <1>6, <1>7, <1>8, <1>9

LEMMA BootedExists ==
  Booted = [n \in 0 .. BootPages |->
              IF n = 0 THEN Blank
              ELSE MapVirtToPhy(Booted[n - 1], KRoot, FirstKernel + n - 1, 0)]
<1> DEFINE Next1(n, s) == MapVirtToPhy(s, KRoot, FirstKernel + n - 1, 0)
           Upto(n) == \E g : g = [l \in 0 .. n |-> IF l = 0 THEN Blank ELSE Next1(l, g[l - 1])]
           P == {n \in 0 .. BootPages : Upto(n)}
<1>1. BootPages \in Nat
  BY BootFacts
<1>2. 0 \in P
  <2> DEFINE g == [l \in 0 .. 0 |-> Blank]
  <2> HIDE DEF Next1
  <2>1. g = [l \in 0 .. 0 |-> IF l = 0 THEN Blank ELSE Next1(l, g[l - 1])]
    OBVIOUS
  <2>2. Upto(0)
    BY <2>1
  <2> QED BY <1>1, <2>2
<1>3. ASSUME NEW n \in 1 .. BootPages, n - 1 \in P PROVE n \in P
  <2> HIDE DEF Next1
  <2>1. PICK g : g = [l \in 0 .. n - 1 |-> IF l = 0 THEN Blank ELSE Next1(l, g[l - 1])]
    BY <1>3
  <2> DEFINE h == [l \in 0 .. n |-> IF l < n THEN g[l] ELSE Next1(n, g[n - 1])]
  <2>2. ASSUME NEW l \in 0 .. n
        PROVE  h[l] = IF l = 0 THEN Blank ELSE Next1(l, h[l - 1])
    <3>1. l # 0 => l - 1 \in 0 .. n - 1 /\ h[l - 1] = g[l - 1]
      BY <1>1
    <3>2. l < n => g[l] = IF l = 0 THEN Blank ELSE Next1(l, g[l - 1])
      BY <1>1, <2>1
    <3> QED BY <1>1, <3>1, <3>2
  <2>3. h = [l \in 0 .. n |-> IF l = 0 THEN Blank ELSE Next1(l, h[l - 1])]
    BY <2>2
  <2> HIDE DEF h
  <2>4. Upto(n)
    BY <2>3
  <2> QED BY <2>4
<1> HIDE DEF P
<1>4. BootPages \in P
  BY <1>1, <1>2, <1>3, Upward
<1> QED BY <1>4 DEF P, Booted

LEMMA BootedStep ==
  /\ Booted[0] = Blank
  /\ \A n \in 1 .. BootPages :
       Booted[n] = MapVirtToPhy(Booted[n - 1], KRoot, FirstKernel + n - 1, 0)
<1> DEFINE b == Booted
<1>1. BootPages \in Nat
  BY BootFacts
<1>2. b = [n \in 0 .. BootPages |->
             IF n = 0 THEN Blank
             ELSE MapVirtToPhy(b[n - 1], KRoot, FirstKernel + n - 1, 0)]
  BY BootedExists
<1> HIDE DEF b
<1>3. b[0] = Blank
  BY <1>1, <1>2
<1>4. ASSUME NEW n \in 1 .. BootPages
      PROVE  b[n] = MapVirtToPhy(b[n - 1], KRoot, FirstKernel + n - 1, 0)
  <2>1. n \in 0 .. BootPages /\ n # 0
    BY <1>1
  <2> QED BY <1>2, <2>1
<1> QED BY <1>3, <1>4 DEF b

\* An empty root table.
LEMMA BlankTree ==
  /\ Tree(Blank, NoSpaces) /\ Cardinality(Blank.free) = Frames - 1
  /\ Blank.top = FirstKernel + BootPages
  /\ \A v \in Virt : Leaf(Blank, KRoot, v) = Absent
<1>1. PICK s : s = Blank
  OBVIOUS
<1>2. /\ s.mem = [f \in 0 .. Frames |-> Empty] /\ s.free = 2 .. Frames
      /\ s.top = FirstKernel + BootPages
      /\ s = [mem |-> s.mem, free |-> s.free, top |-> s.top]
  BY <1>1 DEF Blank
<1>3. /\ Levels \in Nat \ {0, 1} /\ Radix \in Nat \ {0, 1} /\ Frames \in Nat /\ Frames >= 1
      /\ s.top \in Nat /\ 1 \in 0 .. Levels /\ 1 \in 1 .. Levels /\ Levels \in 1 .. Levels
      /\ KRoot \in 0 .. Frames /\ KRoot \in 1 .. Frames /\ KRoot \notin 2 .. Frames
      /\ KRoot # Absent /\ 1 - 1 = 0
      /\ \A l \in 0 .. Levels - 1 : l = 0 \/ l \in 1 .. Levels
  BY <1>2, BootFacts DEF KRoot, Absent
<1>4. \A f \in 0 .. Frames, e \in 0 .. Radix - 1 : s.mem[f][e] = Absent
  BY <1>2 DEF Empty
<1>5. s \in Memory
  <2>1. Empty \in [0 .. Radix - 1 -> -1 .. Frames]
    BY <1>3 DEF Empty, Absent
  <2>2. s.mem \in [0 .. Frames -> [0 .. Radix - 1 -> -1 .. Frames]]
    BY <1>2, <2>1
  <2> QED BY <1>2, <1>3, <2>2 DEF Memory
<1>6. DOMAIN NoSpaces = {} /\ SpaceRoots(NoSpaces) = {} /\ Roots(NoSpaces) = {KRoot}
  BY DEF NoSpaces, SpaceRoots, Roots
<1>7. ASSUME NEW v \in Virt
      PROVE  /\ At(s, KRoot, v, 0) = KRoot
             /\ \A l \in 1 .. Levels : At(s, KRoot, v, l) = Absent
  <2>1. At(s, KRoot, v, 0) = KRoot
    BY AtFirst
  <2>2. At(s, KRoot, v, 1) = IF At(s, KRoot, v, 1 - 1) = Absent THEN Absent
                             ELSE s.mem[At(s, KRoot, v, 1 - 1)][Offset(v, 1)]
    BY <1>3, AtNext
  <2>3. Offset(v, 1) \in 0 .. Radix - 1
    BY <1>3, OffsetTyped
  <2>4. At(s, KRoot, v, 1) = Absent
    BY <1>3, <1>4, <2>1, <2>2, <2>3
  <2> QED BY <1>3, <2>1, <2>4, AbsentBelow
<1>8. Tables(s, NoSpaces) \subseteq {KRoot}
  BY <1>3, <1>6, <1>7 DEF Tables
<1>9. Forest(s, NoSpaces)
  <2> SUFFICES ASSUME NEW r \in Roots(NoSpaces), NEW q \in Roots(NoSpaces),
                      NEW v \in Virt, NEW w \in Virt,
                      NEW l \in 0 .. Levels - 1, NEW k \in 0 .. Levels - 1,
                      At(s, r, v, l) # Absent, At(s, r, v, l) = At(s, q, w, k)
               PROVE  l = k /\ Alike(v, w, l) /\ r = q
    BY DEF Forest
  <2>1. r = KRoot /\ q = KRoot
    BY <1>6
  <2>2. l = 0 /\ k = 0
    BY <1>3, <1>7, <2>1
  <2>3. Alike(v, w, 0)
    BY DEF Alike
  <2> QED BY <2>1, <2>2, <2>3
<1>10. RootsTyped(NoSpaces) /\ LastShared(s, NoSpaces)
  <2>1. \A e \in 0 .. Radix - 2 : s.mem[KRoot][e] = Absent
    BY <1>3, <1>4
  <2> QED BY <1>6, <2>1 DEF RootsTyped, LastShared
<1>11. \A f \in s.free : s.mem[f] = Empty
  BY <1>2, <1>3
<1>12. Tables(s, NoSpaces) \subseteq (1 .. Frames) \ s.free
  BY <1>2, <1>3, <1>8
<1>13. Tree(s, NoSpaces)
  BY <1>5, <1>9, <1>10, <1>11, <1>12 DEF Tree
<1>14. Cardinality(s.free) = Frames - 1
  <2>1. Cardinality(2 .. Frames) = IF 2 > Frames THEN 0 ELSE Frames - 2 + 1
    BY <1>3, FS_Interval
  <2> QED BY <1>2, <1>3, <2>1
<1>15. \A v \in Virt : Leaf(s, KRoot, v) = Absent
  BY <1>3, <1>7 DEF Leaf
<1> QED BY <1>1, <1>2, <1>13, <1>14, <1>15

\* What the loop has done after n rounds.
LEMMA BootedTree ==
  \A n \in 0 .. BootPages :
    /\ Tree(Booted[n], NoSpaces) /\ Booted[n].top = FirstKernel + BootPages
    /\ Cardinality(Booted[n].free) >= Frames - 1 - n * (Levels - 1)
    /\ \A v \in KernelPages :
         /\ Leaf(Booted[n], KRoot, v) \in {Absent, 0}
         /\ v >= FirstKernel + n => Leaf(Booted[n], KRoot, v) = Absent
<1> DEFINE Done(s, n) ==
             /\ Tree(s, NoSpaces) /\ s.top = FirstKernel + BootPages
             /\ Cardinality(s.free) >= Frames - 1 - n * (Levels - 1)
             /\ \A v \in KernelPages :
                  /\ Leaf(s, KRoot, v) \in {Absent, 0}
                  /\ v >= FirstKernel + n => Leaf(s, KRoot, v) = Absent
           P == {n \in 0 .. BootPages : Done(Booted[n], n)}
<1>1. /\ Levels \in Nat \ {0, 1} /\ Radix \in Nat \ {0, 1} /\ Frames \in Nat /\ BootPages \in Nat
      /\ Frames >= 1 /\ FirstKernel \in Nat /\ Levels * BootPages \in Nat
      /\ Frames > Levels * BootPages /\ FirstKernel + BootPages <= Span[Levels]
      /\ Span[Levels] \in Nat
  BY BootFacts, AddressesTyped
<1>2. KernelPages \subseteq Virt /\ \A v \in KernelPages : v \in Nat /\ v >= FirstKernel
  BY AddressesTyped DEF Virt
<1>3. 0 \in P
  <2>1. Done(Blank, 0)
    BY <1>1, <1>2, BlankTree
  <2> QED BY <1>1, <2>1, BootedStep
<1>4. ASSUME NEW n \in 1 .. BootPages, n - 1 \in P PROVE n \in P
  <2>1. PICK s : s = Booted[n - 1]
    OBVIOUS
  <2>2. PICK s2 : s2 = Booted[n]
    OBVIOUS
  <2>3. PICK v : v = FirstKernel + n - 1
    OBVIOUS
  <2>4. Done(s, n - 1)
    BY <1>4, <2>1
  <2>5. n \in Nat /\ n >= 1 /\ n <= BootPages /\ n \in 0 .. BootPages
    BY <1>1
  <2>6. s2 = MapVirtToPhy(s, KRoot, v, 0)
    BY <2>1, <2>2, <2>3, BootedStep
  <2>7. v \in Virt /\ v >= FirstKernel /\ v \in Nat
    <3>1. v \in Nat /\ v >= FirstKernel /\ v < Span[Levels]
      BY <1>1, <2>3, <2>5
    <3> QED BY <1>1, <3>1 DEF Virt
  <2>8. /\ Tree(s, NoSpaces) /\ s.top = FirstKernel + BootPages
        /\ Cardinality(s.free) \in Nat
        /\ Cardinality(s.free) >= Frames - 1 - (n - 1) * (Levels - 1)
    BY <2>4, FreeFinite
  <2>9. Cardinality(s.free) >= Levels
    <3> DEFINE c == Cardinality(s.free)
               g == Levels - 1
               d == BootPages - n
               i == n - 1
    <3>1. c \in Nat /\ g \in Nat /\ d \in Nat /\ i \in Nat /\ c >= Frames - 1 - i * g
      BY <1>1, <2>5, <2>8
    <3>2. Levels = g + 1 /\ BootPages = (i + 1) + d
      BY <1>1, <2>5
    <3> HIDE DEF c, g, d, i
    <3>3. Levels * BootPages = i * g + g + d * g + i + 1 + d
      BY <3>1, <3>2
    <3>4. i * g \in Nat /\ d * g \in Nat
      BY <3>1
    <3>5. c >= g + 1
      BY <1>1, <3>1, <3>3, <3>4
    <3> QED BY <3>2, <3>5 DEF c
  <2>10. /\ Mapping(s2, s, NoSpaces, KRoot, v, 0)
         /\ Cardinality(s2.free) >= Cardinality(s.free) - (Levels - 1)
    <3>1. KRoot \in Roots(NoSpaces) /\ 0 \in 0 .. Frames
      BY <1>1 DEF Roots
    <3> QED BY <2>6, <2>7, <2>8, <2>9, <3>1, MapVirtToPhyMaps
  <2>11. Tree(s2, NoSpaces) /\ s2.top = FirstKernel + BootPages
    BY <2>8, <2>10 DEF Mapping
  <2>12. Cardinality(s2.free) >= Frames - 1 - n * (Levels - 1)
    <3> DEFINE g == Levels - 1
    <3>1. g \in Nat /\ Cardinality(s2.free) \in Nat
      BY <1>1, <2>11, FreeFinite
    <3>2. /\ Cardinality(s.free) >= Frames - 1 - (n - 1) * g
          /\ Cardinality(s2.free) >= Cardinality(s.free) - g
      BY <2>8, <2>10
    <3> HIDE DEF g
    <3>3. n * g = (n - 1) * g + g /\ (n - 1) * g \in Nat
      BY <2>5, <3>1
    <3>4. Cardinality(s2.free) >= Frames - 1 - n * g
      BY <1>1, <2>8, <3>1, <3>2, <3>3
    <3> QED BY <3>4 DEF g
  <2>13. ASSUME NEW w \in KernelPages
         PROVE  /\ Leaf(s2, KRoot, w) \in {Absent, 0}
                /\ w >= FirstKernel + n => Leaf(s2, KRoot, w) = Absent
    <3>1. w \in Virt /\ w \in Nat
      BY <1>2
    <3>2. Leaf(s2, KRoot, w) = IF w = v THEN 0 ELSE Leaf(s, KRoot, w)
      <4>1. KRoot \in Roots(NoSpaces)
        BY DEF Roots
      <4> QED BY <2>10, <3>1, <4>1 DEF Mapping
    <3>3. w >= FirstKernel + n => w # v /\ w >= FirstKernel + (n - 1)
      BY <1>1, <2>3, <2>5, <3>1
    <3> QED BY <2>4, <3>2, <3>3
  <2>14. Done(s2, n)
    BY <2>11, <2>12, <2>13
  <2> QED BY <2>2, <2>5, <2>14
<1>5. 0 .. BootPages \subseteq P
  <2> HIDE DEF P
  <2> QED BY <1>1, <1>3, <1>4, Upward
<1> QED BY <1>5

\* The tables when the kernel starts.
LEMMA InitGood ==
  ASSUME PTInit
  PROVE  PInv /\ root = NoSpaces
<1>1. PICK s : s = Booted[BootPages]
  OBVIOUS
<1>2. root = NoSpaces /\ cr3 = KRoot
  BY DEF PTInit, NoSpaces
<1>3. BootPages \in Nat /\ BootPages \in 0 .. BootPages /\ FirstKernel \in Nat
  BY BootFacts
<1>4. /\ Tree(s, NoSpaces) /\ s.top = FirstKernel + BootPages
      /\ \A v \in KernelPages :
           /\ Leaf(s, KRoot, v) \in {Absent, 0}
           /\ v >= FirstKernel + BootPages => Leaf(s, KRoot, v) = Absent
  BY <1>1, <1>3, BootedTree
<1>5. s = [mem |-> s.mem, free |-> s.free, top |-> s.top] /\ s.free \subseteq 2 .. Frames
  BY <1>4, TreeTyped
<1>6. Now = s
  <2>1. mem = s.mem /\ free = s.free /\ top = s.top
    BY <1>1 DEF PTInit
  <2> QED BY <1>5, <2>1 DEF Now
<1>7. SpaceRoots(NoSpaces) = {} /\ KRoot \in Roots(NoSpaces)
  BY DEF NoSpaces, SpaceRoots, Roots
<1>8. Apart(s, NoSpaces)
  <2>1. Absent \notin 2 .. Frames /\ 0 \notin 2 .. Frames
    BY BootFacts DEF Absent
  <2>2. \A v \in KernelPages : Leaf(s, KRoot, v) \notin s.free
    BY <1>4, <1>5, <2>1
  <2> QED BY <1>7, <2>2 DEF Apart
<1>9. s.top >= FirstKernel
  BY <1>3, <1>4
<1>10. Good(s, NoSpaces, KRoot)
  BY <1>4, <1>7, <1>8, <1>9 DEF Good
<1>11. Bounded(s, NoSpaces)
  BY <1>7 DEF Bounded
<1> QED BY <1>2, <1>6, <1>10, <1>11 DEF PInv

-----------------------------------------------------------------------------
(* The theorems on the page tables. *)

LEMMA StepGood ==
  ASSUME PInv, ~StrayStores, PTNext
  PROVE  PInv'
<1>1. CASE Kmalloc
  BY <1>1, KmallocGood
<1>2. ASSUME NEW sp \in Spaces, EnvSetupVm(sp) PROVE PInv'
  BY <1>2, EnvSetupVmGood
<1>3. ASSUME NEW sp \in DOMAIN root, Switch(sp) PROVE PInv'
  BY <1>3, SwitchGood
<1>4. ASSUME NEW sp \in DOMAIN root, EndSpace(sp) PROVE PInv'
  BY <1>4, EndSpaceGood
<1>5. ASSUME NEW sp \in DOMAIN root, NEW p \in UserPages,
             LoadPage(sp, p) \/ HeapFault(sp, p) \/ StackFault(sp, p)
      PROVE  PInv'
  BY <1>5, LoadPageGood, HeapFaultGood, StackFaultGood
<1>6. ASSUME NEW sp \in DOMAIN root, NEW p \in UserPages, Store(sp, p) PROVE PInv'
  BY <1>6, StoreGood
<1>7. ASSUME NEW sp \in DOMAIN root, NEW t \in DOMAIN root \ {sp}, NEW p \in UserPages,
             SharePage(sp, t, p)
      PROVE  PInv'
  BY <1>7, SharePageGood
<1>8. ASSUME NEW sp \in DOMAIN root, NEW t \in DOMAIN root \ {sp}, NEW p \in UserPages,
             CopyPage(sp, t, p)
      PROVE  PInv'
  BY <1>8, CopyPageGood
<1>9. ASSUME NEW sp \in DOMAIN root, LeaveSpace(sp) PROVE PInv'
  BY <1>9, LeaveSpaceGood
<1> QED BY <1>1, <1>2, <1>3, <1>4, <1>5, <1>6, <1>7, <1>8, <1>9 DEF PTNext

\* sys/mmu/pt.c: the tables that walks come to are disjoint trees, joined only in
\* the kernel's half; no frame on offer is mapped or is a table, no program's page
\* is a table, and a frame is shared by programs at one address only.  The frames
\* on offer are clear although free_task_mm_struct clears no further than vm_end,
\* as long as programs write no further.
THEOREM TablesGood == ASSUME ~StrayStores PROVE PTSpec => []PInv
<1>1. PTInit => PInv
  BY InitGood
<1>2. PInv /\ [PTNext]_ptvars => PInv'
  <2> SUFFICES ASSUME PInv, [PTNext]_ptvars PROVE PInv'
    OBVIOUS
  <2>1. CASE PTNext
    BY <2>1, StepGood
  <2>2. CASE UNCHANGED ptvars
    BY <2>2 DEF PInv, Now, ptvars
  <2> QED BY <2>1, <2>2
<1> QED BY <1>1, <1>2, PTL DEF PTSpec

\* What a space maps, in terms of walks.
KernelMap(s)   == [v \in KernelPages |-> Leaf(s, KRoot, v)]
UserMap(s, rt) == [sp \in DOMAIN rt |-> [p \in UserPages |-> Leaf(s, rt[sp], p)]]

LEMMA MapInIs ==
  /\ \A r, pages : MapIn(r, pages) = [p \in pages |-> Leaf(Now, r, p)]
  /\ MapIn(KRoot, KernelPages) = KernelMap(Now)
  /\ [sp \in DOMAIN root |-> MapIn(root[sp], UserPages)] = UserMap(Now, root)
<1>1. \A r, p : Walk(mem, r, p) = Leaf(Now, r, p)
  BY DEF Walk, Leaf, At, Now
<1>2. \A r, pages : MapIn(r, pages) = [p \in pages |-> Leaf(Now, r, p)]
  BY <1>1 DEF MapIn
<1> QED BY <1>2 DEF KernelMap, UserMap

\* env_setup_vm copies the root once; whatever map_virt_to_phy adds below the
\* kernel's entry afterwards, in any space, every space sees.
THEOREM AlwaysKernelShared == ASSUME ~StrayStores PROVE PTSpec => []KernelShared
<1>1. PInv => KernelShared
  <2> SUFFICES ASSUME PInv, NEW sp \in DOMAIN root
               PROVE  MapIn(root[sp], KernelPages) = MapIn(KRoot, KernelPages)
    BY DEF KernelShared
  <2>1. ASSUME NEW v \in KernelPages
        PROVE  Leaf(Now, root[sp], v) = Leaf(Now, KRoot, v)
    <3>1. v \in Virt /\ v >= FirstKernel /\ Levels \in 1 .. Levels
      BY AddressesTyped, PageTablesAssumption
    <3>2. \A l \in 1 .. Levels : At(Now, root[sp], v, l) = At(Now, KRoot, v, l)
      BY <3>1, SpaceRootOf, KernelPath
    <3> QED BY <3>1, <3>2 DEF Leaf
  <2> QED BY <2>1, MapInIs
<1> QED BY <1>1, TablesGood, PTL

\* What each action is to the spaces.
LEMMA MapsKept ==
  ASSUME NEW s, NEW s2, NEW rt, UserKept(s2, s, rt)
  PROVE  UserMap(s2, rt) = UserMap(s, rt)
<1>1. \A sp \in DOMAIN rt, p \in UserPages : Leaf(s2, rt[sp], p) = Leaf(s, rt[sp], p)
  BY DEF UserKept, SpaceRoots
<1> QED BY <1>1 DEF UserMap

LEMMA MapsKernel ==
  ASSUME NEW s, NEW s2, KernelKept(s2, s)
  PROVE  \A p \in KernelPages : KernelMap(s2)[p] # KernelMap(s)[p] => KernelMap(s)[p] = Absent
BY DEF KernelKept, KernelMap

Created(u, sp) ==
  [t \in DOMAIN u \cup {sp} |-> IF t = sp THEN [p \in UserPages |-> Absent] ELSE u[t]]
Ended(u, sp) == [t \in DOMAIN u \ {sp} |-> u[t]]

LEMMA MapsCreate ==
  ASSUME NEW s, NEW s2, NEW rt, NEW rt2, NEW sp, UserKept(s2, s, rt), sp \notin DOMAIN rt,
         DOMAIN rt2 = DOMAIN rt \cup {sp}, \A t \in DOMAIN rt : rt2[t] = rt[t],
         \A p \in UserPages : Leaf(s2, rt2[sp], p) = Absent
  PROVE  UserMap(s2, rt2) = Created(UserMap(s, rt), sp)
<1>1. DOMAIN rt2 = DOMAIN rt \cup {sp} /\ \A t \in DOMAIN rt : rt2[t] = rt[t]
  OBVIOUS
<1>2. \A t \in DOMAIN rt, p \in UserPages : Leaf(s2, rt2[t], p) = Leaf(s, rt[t], p)
  BY <1>1 DEF UserKept, SpaceRoots
<1>3. DOMAIN UserMap(s, rt) = DOMAIN rt
  BY DEF UserMap
<1>4. \A t \in DOMAIN rt : UserMap(s, rt)[t] = [p \in UserPages |-> Leaf(s, rt[t], p)]
  BY DEF UserMap
<1>5. UserMap(s2, rt2) = [t \in DOMAIN rt \cup {sp} |->
                            [p \in UserPages |-> Leaf(s2, rt2[t], p)]]
  BY <1>1 DEF UserMap
<1>6. \A t \in DOMAIN rt \cup {sp} :
        [p \in UserPages |-> Leaf(s2, rt2[t], p)]
          = IF t = sp THEN [p \in UserPages |-> Absent] ELSE UserMap(s, rt)[t]
  BY <1>2, <1>4
<1> QED BY <1>3, <1>5, <1>6 DEF Created

LEMMA MapsEnd ==
  ASSUME NEW s, NEW s2, NEW rt, NEW rt2, NEW sp, UserKept(s2, s, rt2),
         DOMAIN rt2 = DOMAIN rt \ {sp}, \A t \in DOMAIN rt2 : rt2[t] = rt[t]
  PROVE  UserMap(s2, rt2) = Ended(UserMap(s, rt), sp)
<1>1. DOMAIN rt2 = DOMAIN rt \ {sp} /\ \A t \in DOMAIN rt2 : rt2[t] = rt[t]
  OBVIOUS
<1>2. \A t \in DOMAIN rt2, p \in UserPages : Leaf(s2, rt2[t], p) = Leaf(s, rt[t], p)
  BY <1>1 DEF UserKept, SpaceRoots
<1>3. DOMAIN UserMap(s, rt) = DOMAIN rt
  BY DEF UserMap
<1>4. \A t \in DOMAIN rt : UserMap(s, rt)[t] = [p \in UserPages |-> Leaf(s, rt[t], p)]
  BY DEF UserMap
<1>5. UserMap(s2, rt2) = [t \in DOMAIN rt \ {sp} |-> [p \in UserPages |-> Leaf(s2, rt2[t], p)]]
  BY <1>1 DEF UserMap
<1>6. \A t \in DOMAIN rt \ {sp} :
        [p \in UserPages |-> Leaf(s2, rt2[t], p)] = UserMap(s, rt)[t]
  BY <1>1, <1>2, <1>4
<1> QED BY <1>3, <1>5, <1>6 DEF Ended

LEMMA MapsMap ==
  ASSUME NEW s, NEW s2, NEW rt, RootsTyped(rt), NEW sp \in DOMAIN rt, NEW p \in UserPages,
         NEW f, UserMapped(s2, s, rt, rt[sp], p, f)
  PROVE  /\ UserMap(s2, rt) = [UserMap(s, rt) EXCEPT ![sp][p] = f]
         /\ UserMap(s2, rt)[sp][p] = f
<1>1. \A t \in DOMAIN rt : rt[t] \in SpaceRoots(rt) /\ (rt[t] = rt[sp] <=> t = sp)
  BY DEF RootsTyped, SpaceRoots
<1>2. \A t \in DOMAIN rt, w \in UserPages :
        Leaf(s2, rt[t], w) = IF t = sp /\ w = p THEN f ELSE Leaf(s, rt[t], w)
  BY <1>1 DEF UserMapped
<1>3. PICK u : u = UserMap(s, rt)
  OBVIOUS
<1>4. /\ u = [t \in DOMAIN rt |-> [w \in UserPages |-> Leaf(s, rt[t], w)]]
      /\ \A t \in DOMAIN rt : u[t] = [w \in UserPages |-> Leaf(s, rt[t], w)]
  BY <1>3 DEF UserMap
<1>5. PICK c : c = [u[sp] EXCEPT ![p] = f]
  OBVIOUS
<1>6. c = [w \in UserPages |-> Leaf(s2, rt[sp], w)]
  BY <1>2, <1>4, <1>5
<1>7. \A t \in DOMAIN rt : t # sp => [w \in UserPages |-> Leaf(s2, rt[t], w)] = u[t]
  BY <1>2, <1>4
<1>8. UserMap(s2, rt) = [u EXCEPT ![sp] = c]
  <2>1. UserMap(s2, rt) = [t \in DOMAIN rt |-> IF t = sp THEN c ELSE u[t]]
    BY <1>6, <1>7 DEF UserMap
  <2>2. DOMAIN u = DOMAIN rt
    BY <1>4
  <2> QED BY <2>1, <2>2
<1>9. [u EXCEPT ![sp][p] = f] = [u EXCEPT ![sp] = c]
  BY <1>5
<1>10. UserMap(s2, rt)[sp][p] = f
  BY <1>2 DEF UserMap
<1> QED BY <1>3, <1>8, <1>9, <1>10

\* A frame on offer is mapped nowhere.
LEMMA UnseenUnmapped ==
  ASSUME NEW s, NEW rt, NEW f, Unseen(s, rt, f), \A v \in KernelPages : Leaf(s, KRoot, v) # f
  PROVE  /\ f \notin {KernelMap(s)[v] : v \in KernelPages}
         /\ \A sp \in DOMAIN UserMap(s, rt), p \in UserPages : UserMap(s, rt)[sp][p] # f
<1>1. \A v \in KernelPages : KernelMap(s)[v] # f
  BY DEF KernelMap
<1>2. DOMAIN UserMap(s, rt) = DOMAIN rt
  BY DEF UserMap
<1>3. \A sp \in DOMAIN rt, p \in UserPages : UserMap(s, rt)[sp][p] = Leaf(s, rt[sp], p)
  BY DEF UserMap
<1> QED BY <1>1, <1>2, <1>3 DEF Unseen, SpaceRoots

LEMMA MapInNext ==
  /\ MapIn(KRoot, KernelPages)' = KernelMap(Now')
  /\ [sp \in DOMAIN root |-> MapIn(root[sp], UserPages)]' = UserMap(Now', root')
<1>1. Now'.mem = mem'
  BY DEF Now
<1>2. \A r, p : Walk(mem', r, p) = Leaf(Now', r, p)
  BY <1>1 DEF Walk, Leaf, At
<1>3. MapIn(KRoot, KernelPages)' = KernelMap(Now')
  BY <1>2 DEF MapIn, KernelMap
<1>4. [sp \in DOMAIN root |-> MapIn(root[sp], UserPages)]' = UserMap(Now', root')
  BY <1>2 DEF MapIn, UserMap
<1> QED BY <1>3, <1>4

LEMMA StepMaps ==
  ASSUME PInv, ~StrayStores, PTNext
  PROVE  Maps!MapsNext
<1> DEFINE k  == MapIn(KRoot, KernelPages)
           u  == [sp \in DOMAIN root |-> MapIn(root[sp], UserPages)]
<1>1. k = KernelMap(Now) /\ u = UserMap(Now, root) /\ DOMAIN u = DOMAIN root
  BY MapInIs
<1>2. k' = KernelMap(Now') /\ u' = UserMap(Now', root')
  BY MapInNext
<1>3. RootsTyped(root)
  BY DEF PInv, Good, Tree
<1> HIDE DEF k, u
<1>4. ASSUME KernelKept(Now', Now)
      PROVE  \A p \in KernelPages : k'[p] # k[p] => k[p] = Absent
  BY <1>1, <1>2, <1>4, MapsKernel
<1>5. ASSUME root' = root, UserKept(Now', Now, root) PROVE u' = u
  BY <1>1, <1>2, <1>5, MapsKept
<1> DEFINE MapStep(sp, p) ==
             /\ u' = [u EXCEPT ![sp][p] = u'[sp][p]]
             /\ \/ u'[sp][p] \notin {k[v] : v \in KernelPages}
                                      \cup UNION {{u[t][w] : w \in UserPages} : t \in DOMAIN u}
                \/ \E t \in DOMAIN u \ {sp} : u'[sp][p] \in {u[t][p], 0}
<1>6. ASSUME NEW sp \in DOMAIN root, NEW p \in UserPages, NEW f, OneMapped(sp, p, f),
             Unseen(Now, root, f), \A v \in KernelPages : Leaf(Now, KRoot, v) # f
      PROVE  MapStep(sp, p)
  <2>1. root' = root /\ UserMapped(Now', Now, root, root[sp], p, f)
    BY <1>6 DEF OneMapped
  <2>2. u' = [u EXCEPT ![sp][p] = f] /\ u'[sp][p] = f
    BY <1>1, <1>2, <1>3, <2>1, MapsMap
  <2>3. /\ f \notin {k[v] : v \in KernelPages}
        /\ \A t \in DOMAIN u, w \in UserPages : u[t][w] # f
    BY <1>1, <1>6, UnseenUnmapped
  <2>4. f \notin UNION {{u[t][w] : w \in UserPages} : t \in DOMAIN u}
    BY <2>3
  <2> QED BY <2>2, <2>3, <2>4
<1>7. ASSUME NEW sp \in DOMAIN root, NEW t \in DOMAIN root \ {sp}, NEW p \in UserPages,
             OneMapped(t, p, VirtToPhy(root[sp], p))
      PROVE  MapStep(t, p)
  <2>1. PICK f : f = VirtToPhy(root[sp], p)
    OBVIOUS
  <2>2. root' = root /\ UserMapped(Now', Now, root, root[t], p, f)
    BY <1>7, <2>1 DEF OneMapped
  <2>3. u' = [u EXCEPT ![t][p] = f] /\ u'[t][p] = f
    BY <1>1, <1>2, <1>3, <2>2, MapsMap
  <2>4. f \in {Leaf(Now, root[sp], p), 0}
    BY <2>1, VirtToPhyIs
  <2>5. u[sp][p] = Leaf(Now, root[sp], p)
    BY <1>1 DEF UserMap
  <2>6. sp \in DOMAIN u \ {t}
    BY <1>1
  <2> QED BY <2>3, <2>4, <2>5, <2>6
<1> DEFINE Done ==
             /\ \A p \in KernelPages : k'[p] # k[p] => k[p] = Absent
             /\ \/ u' = u
                \/ \E sp \in Spaces :
                     /\ sp \notin DOMAIN u
                     /\ u' = Created(u, sp)
                \/ \E sp \in DOMAIN u :
                     \/ u' = Ended(u, sp)
                     \/ \E p \in UserPages : MapStep(sp, p)
<1>8. Done => Maps!MapsNext
  BY DEF k, u, Created, Ended, Maps!MapsNext, Maps!KernelGrows, Maps!Create, Maps!End, Maps!Map, Maps!Mapped,
         Maps!InUse, Maps!NoPages
<1> HIDE DEF MapStep
<1>9. CASE Kmalloc
  <2>1. root' = root /\ KernelKept(Now', Now) /\ UserKept(Now', Now, root)
    BY <1>9, KmallocGood
  <2> QED BY <1>4, <1>5, <1>8, <2>1
<1>10. ASSUME NEW sp \in Spaces, EnvSetupVm(sp) PROVE Done
  <2>1. PICK rt2 : rt2 = root'
    OBVIOUS
  <2>2. /\ sp \notin DOMAIN root
        /\ rt2 = [t \in DOMAIN root \cup {sp} |-> IF t = sp THEN rt2[sp] ELSE root[t]]
        /\ \A p \in UserPages : Leaf(Now', rt2[sp], p) = Absent
        /\ KernelKept(Now', Now) /\ UserKept(Now', Now, root)
    BY <1>10, <2>1, EnvSetupVmGood
  <2>7. DOMAIN rt2 = DOMAIN root \cup {sp} /\ \A t \in DOMAIN root : rt2[t] = root[t]
    BY <2>2
  <2>3. UserMap(Now', rt2) = Created(UserMap(Now, root), sp)
    BY <2>2, <2>7, MapsCreate
  <2>4. u' = Created(u, sp)
    BY <1>1, <1>2, <2>1, <2>3
  <2>5. sp \notin DOMAIN u
    BY <1>1, <2>2
  <2>6. \A p \in KernelPages : k'[p] # k[p] => k[p] = Absent
    BY <1>4, <2>2
  <2> QED BY <2>4, <2>5, <2>6
<1>11. ASSUME NEW sp \in DOMAIN root, Switch(sp) PROVE Done
  <2>1. Now' = Now /\ root' = root
    BY <1>11, SwitchGood
  <2>2. KernelKept(Now', Now) /\ UserKept(Now', Now, root)
    BY <2>1 DEF KernelKept, UserKept
  <2> QED BY <1>4, <1>5, <2>1, <2>2
<1>12. ASSUME NEW sp \in DOMAIN root, EndSpace(sp) \/ LeaveSpace(sp) PROVE Done
  <2>1. PICK rt2 : rt2 = root'
    OBVIOUS
  <2>2. /\ rt2 = [t \in DOMAIN root \ {sp} |-> root[t]]
        /\ KernelKept(Now', Now) /\ UserKept(Now', Now, rt2)
    BY <1>12, <2>1, EndSpaceGood, LeaveSpaceGood
  <2>7. DOMAIN rt2 = DOMAIN root \ {sp} /\ \A t \in DOMAIN rt2 : rt2[t] = root[t]
    BY <2>2
  <2>3. UserMap(Now', rt2) = Ended(UserMap(Now, root), sp)
    BY <2>2, <2>7, MapsEnd
  <2>4. u' = Ended(u, sp)
    BY <1>1, <1>2, <2>1, <2>3
  <2>5. \A p \in KernelPages : k'[p] # k[p] => k[p] = Absent
    BY <1>4, <2>2
  <2>6. sp \in DOMAIN u
    BY <1>1
  <2> QED BY <2>4, <2>5, <2>6
<1>13. ASSUME NEW sp \in DOMAIN root, NEW p \in UserPages,
              LoadPage(sp, p) \/ HeapFault(sp, p) \/ StackFault(sp, p)
       PROVE  Done
  <2>1. OneMapped(sp, p, NextFree(Now)) /\ Unseen(Now, root, NextFree(Now))
        /\ \A v \in KernelPages : Leaf(Now, KRoot, v) # NextFree(Now)
    BY <1>13, LoadPageGood, HeapFaultGood, StackFaultGood
  <2>2. MapStep(sp, p)
    BY <1>6, <2>1
  <2>3. \A v \in KernelPages : k'[v] # k[v] => k[v] = Absent
    BY <1>4, <2>1 DEF OneMapped
  <2> QED BY <1>1, <2>2, <2>3
<1>14. ASSUME NEW sp \in DOMAIN root, NEW p \in UserPages, Store(sp, p) PROVE Done
  <2>1. root' = root /\ KernelKept(Now', Now) /\ UserKept(Now', Now, root)
    BY <1>14, StoreGood
  <2> QED BY <1>4, <1>5, <2>1
<1>15. ASSUME NEW sp \in DOMAIN root, NEW t \in DOMAIN root \ {sp}, NEW p \in UserPages,
              SharePage(sp, t, p)
       PROVE  Done
  <2>1. OneMapped(t, p, VirtToPhy(root[sp], p))
    BY <1>15, SharePageGood
  <2>2. MapStep(t, p)
    BY <1>7, <2>1
  <2>3. \A v \in KernelPages : k'[v] # k[v] => k[v] = Absent
    BY <1>4, <2>1 DEF OneMapped
  <2> QED BY <1>1, <2>2, <2>3
<1>16. ASSUME NEW sp \in DOMAIN root, NEW t \in DOMAIN root \ {sp}, NEW p \in UserPages,
              CopyPage(sp, t, p)
       PROVE  Done
  <2>1. OneMapped(t, p, NextFree(Now)) /\ Unseen(Now, root, NextFree(Now))
        /\ \A v \in KernelPages : Leaf(Now, KRoot, v) # NextFree(Now)
    BY <1>16, CopyPageGood
  <2>2. MapStep(t, p)
    BY <1>6, <2>1
  <2>3. \A v \in KernelPages : k'[v] # k[v] => k[v] = Absent
    BY <1>4, <2>1 DEF OneMapped
  <2> QED BY <1>1, <2>2, <2>3
<1> HIDE DEF Done
<1> QED BY <1>8, <1>9, <1>10, <1>11, <1>12, <1>13, <1>14, <1>15, <1>16 DEF PTNext

\* map_virt_to_phy, env_setup_vm, the copies of fork and the frames that exit gives
\* back do to the spaces what is meant: one mapping, or none, and none of the kernel's
\* is ever changed, as long as programs write no further than their vmas.
THEOREM TablesImplementMaps == ASSUME ~StrayStores PROVE PTSpec => ImplementsAddressMaps
<1>1. PTInit => Maps!MapsInit
  <2> SUFFICES ASSUME PTInit PROVE Maps!MapsInit
    OBVIOUS
  <2>1. root = NoSpaces
    BY InitGood
  <2>2. DOMAIN root = {}
    BY <2>1 DEF NoSpaces
  <2>3. [sp \in DOMAIN root |-> MapIn(root[sp], UserPages)]
          = [sp \in {} |-> [p \in UserPages |-> Absent]]
    BY <2>2
  <2> QED BY <2>3 DEF Maps!MapsInit, Maps!NoPages
<1>2. PInv /\ [PTNext]_ptvars => [Maps!MapsNext]_(Maps!avars)
  <2> SUFFICES ASSUME PInv, [PTNext]_ptvars PROVE [Maps!MapsNext]_(Maps!avars)
    OBVIOUS
  <2>1. CASE PTNext
    BY <2>1, StepMaps
  <2>2. CASE UNCHANGED ptvars
    <3>1. Now' = Now /\ root' = root
      BY <2>2 DEF ptvars, Now
    <3>2. /\ MapIn(KRoot, KernelPages)' = MapIn(KRoot, KernelPages)
          /\ [sp \in DOMAIN root |-> MapIn(root[sp], UserPages)]'
               = [sp \in DOMAIN root |-> MapIn(root[sp], UserPages)]
      BY <3>1, MapInIs, MapInNext
    <3> QED BY <3>2 DEF Maps!avars
  <2> QED BY <2>1, <2>2
<1> QED BY <1>1, <1>2, TablesGood, PTL DEF PTSpec, ImplementsAddressMaps, Maps!MapsSpec
=============================================================================
