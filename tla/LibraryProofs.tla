---------------------------- MODULE LibraryProofs ----------------------------
(***************************************************************************)
(* Theorems about the heap and the file system as programs use them, for   *)
(* every archive, every number of programs and every size they ask for.    *)
(***************************************************************************)
EXTENDS Library, SequenceTheorems, WellFoundedInduction, TLAPS

\* A set of natural numbers has a least element: a search from the front of a
\* list finds something if there is something to find.
LEMMA LeastOf ==
  ASSUME NEW I, I \subseteq Nat, I # {}
  PROVE  \E i \in I : \A j \in I : i <= j
<1>1. PICK i \in I : \A j \in I : <<j, i>> \notin OpToRel(<, Nat)
  BY NatLessThanWellFounded, WFMin
<1>2. \A j \in I : ~(j < i)
  BY <1>1 DEF OpToRel
<1> QED BY <1>2

-----------------------------------------------------------------------------
(* The heap: blocks follow one another from HeapStart to brk. *)

MemBlocks == [addr : Nat, size : Nat, free : BOOLEAN]

\* The blocks lie in the order of the list, without overlap, and most is room
\* enough for each that can still be added below the end of the address space.
Laid(most) ==
  /\ blocks \in Seq(MemBlocks) /\ Len(blocks) <= MaxBlocks
  /\ brk \in Nat /\ brk + (MaxBlocks - Len(blocks)) * most < Modulus
  /\ HeapStart <= brk
  /\ \A i \in DOMAIN blocks :
       /\ HeapStart <= blocks[i].addr
       /\ blocks[i].addr + Header + blocks[i].size <= brk
  /\ \A i, j \in DOMAIN blocks :
       i < j => blocks[i].addr + Header + blocks[i].size <= blocks[j].addr

\* p is the pointer to a block in use that has room for n bytes.
Backed(p, n) ==
  \E i \in DOMAIN blocks :
    Pointer(blocks[i]) = p /\ ~blocks[i].free /\ n <= blocks[i].size

\* A pointer tells its block.
LEMMA PointersDiffer ==
  ASSUME NEW most \in Nat, Laid(most), NEW i \in DOMAIN blocks,
         NEW j \in DOMAIN blocks, Pointer(blocks[i]) = Pointer(blocks[j])
  PROVE  i = j
<1>1. i \in Nat /\ j \in Nat /\ blocks[i] \in MemBlocks /\ blocks[j] \in MemBlocks
  BY DEF Laid
<1>2. /\ i < j => blocks[i].addr + Header + blocks[i].size <= blocks[j].addr
      /\ j < i => blocks[j].addr + Header + blocks[j].size <= blocks[i].addr
  BY DEF Laid
<1>3. blocks[i].addr = blocks[j].addr
  BY <1>1, MallocAssumption DEF Pointer, MemBlocks
<1> QED BY <1>1, <1>2, <1>3, MallocAssumption DEF MemBlocks

\* What takes or gives back a block does not move any.
LEMMA LaidKept ==
  ASSUME NEW most \in Nat, Laid(most),
         blocks' \in Seq(MemBlocks), Len(blocks') = Len(blocks),
         DOMAIN blocks' = DOMAIN blocks, brk' = brk,
         \A k \in DOMAIN blocks : /\ blocks'[k].addr = blocks[k].addr
                                  /\ blocks'[k].size = blocks[k].size
  PROVE  Laid(most)'
BY DEF Laid

\* malloc leaves everybody's block alone and returns none of theirs: the list
\* stays laid out, and what is returned has the room that was asked for.
LEMMA AllocateEffect ==
  ASSUME NEW most \in Nat, Laid(most), NEW size \in Nat, size # 0,
         size + Header <= most, Len(blocks) < MaxBlocks, Allocate(size),
         NEW new, new = Allocated(size)
  PROVE  /\ Laid(most)' /\ Backed(new, size)'
         /\ new \in Nat /\ new < Modulus
         /\ \A p, n : Backed(p, n) => p # new /\ Backed(p, n)'
<1> USE MallocAssumption, LibraryAssumption
<1> DEFINE i == FindFreeMemBlock(size)
           I == {k \in DOMAIN blocks : Fits(blocks[k], size)}
<1>1. /\ blocks \in Seq(MemBlocks) /\ brk \in Nat /\ Len(blocks) \in Nat
      /\ \A k \in DOMAIN blocks : k \in Nat \ {0} /\ blocks[k] \in MemBlocks
  BY DEF Laid
<1>2. CASE i # 0
  <2>1. i \in I
    <3>1. I # {} /\ i = CHOOSE k \in I : \A j \in I : k <= j
      BY <1>2 DEF FindFreeMemBlock
    <3>2. \E k \in I : \A j \in I : k <= j
      BY <3>1, <1>1, LeastOf
    <3> QED BY <3>1, <3>2
  <2>2. /\ i \in DOMAIN blocks /\ blocks[i].free /\ size <= blocks[i].size
        /\ new = Pointer(blocks[i])
        /\ blocks' = [blocks EXCEPT ![i].free = FALSE] /\ brk' = brk
    BY <1>1, <1>2, <2>1 DEF Fits, Allocate, Allocated, MemBlocks
  <2> HIDE DEF i, I
  <2>3. /\ blocks' \in Seq(MemBlocks) /\ Len(blocks') = Len(blocks)
        /\ DOMAIN blocks' = DOMAIN blocks
        /\ \A k \in DOMAIN blocks : /\ blocks'[k].addr = blocks[k].addr
                                    /\ blocks'[k].size = blocks[k].size
        /\ \A k \in DOMAIN blocks : k # i => blocks'[k] = blocks[k]
        /\ ~blocks'[i].free
    <3>1. blocks' = [blocks EXCEPT ![i] = [blocks[i] EXCEPT !.free = FALSE]]
      BY <2>2
    <3>2. [blocks[i] EXCEPT !.free = FALSE] \in MemBlocks
      BY <1>1, <2>2 DEF MemBlocks
    <3>3. blocks' \in Seq(MemBlocks) /\ Len(blocks') = Len(blocks)
      BY <1>1, <2>2, <3>1, <3>2, ExceptSeq
    <3>4. \A k \in DOMAIN blocks :
            blocks'[k] = IF k = i THEN [blocks[k] EXCEPT !.free = FALSE]
                         ELSE blocks[k]
      BY <1>1, <2>2, <3>1
    <3>5. \A k \in DOMAIN blocks : /\ blocks'[k].addr = blocks[k].addr
                                   /\ blocks'[k].size = blocks[k].size
      BY <1>1, <3>4 DEF MemBlocks
    <3>6. ~blocks'[i].free
      BY <1>1, <2>2, <3>4 DEF MemBlocks
    <3>7. \A k \in DOMAIN blocks : k # i => blocks'[k] = blocks[k]
      BY <3>4
    <3>8. DOMAIN blocks' = DOMAIN blocks
      BY <3>1
    <3> QED BY <3>3, <3>5, <3>6, <3>7, <3>8
  <2>4. Laid(most)'
    BY <2>2, <2>3, LaidKept
  <2>5. Backed(new, size)'
    BY <2>2, <2>3 DEF Backed, Pointer
  <2>6. new \in Nat /\ new < Modulus
    <3> DEFINE rest == MaxBlocks - Len(blocks)
    <3>1. rest \in Nat /\ brk + rest * most < Modulus
      BY <1>1 DEF Laid
    <3>2. rest * most \in Nat
      BY <3>1
    <3>3. blocks[i].addr + Header + blocks[i].size <= brk
      BY <2>2 DEF Laid
    <3>4. blocks[i].addr \in Nat /\ blocks[i].size \in Nat
      BY <1>1, <2>2 DEF MemBlocks
    <3> HIDE DEF rest
    <3>5. brk < Modulus /\ brk \in Nat
      BY <1>1, <3>1, <3>2
    <3>6. new = blocks[i].addr + Header /\ Header \in Nat /\ Modulus \in Nat
      BY <2>2, MallocAssumption DEF Pointer
    <3> HIDE MallocAssumption, LibraryAssumption
    <3> QED BY SMTT(30), <3>3, <3>4, <3>5, <3>6
  <2>7. ASSUME NEW p, NEW n, Backed(p, n) PROVE p # new /\ Backed(p, n)'
    <3>1. PICK k \in DOMAIN blocks :
            Pointer(blocks[k]) = p /\ ~blocks[k].free /\ n <= blocks[k].size
      BY <2>7 DEF Backed
    <3>2. k # i
      BY <2>2, <3>1
    <3>3. p # new
      BY <2>2, <3>1, <3>2, PointersDiffer
    <3> QED BY <2>3, <3>1, <3>2, <3>3 DEF Backed
  <2> QED BY <2>4, <2>5, <2>6, <2>7
<1>3. CASE i = 0
  <2> DEFINE b == [addr |-> brk, size |-> size, free |-> FALSE]
             rest == MaxBlocks - Len(blocks)
  <2>1. rest \in Nat /\ rest >= 1 /\ brk + rest * most < Modulus
    BY <1>1 DEF Laid
  <2>2. rest * most = (rest - 1) * most + most /\ (rest - 1) * most \in Nat
    BY <2>1
  <2>3. blocks' = Append(blocks, b) /\ brk' = brk + (size + Header)
        /\ new = brk + Header
    <3>1. size + Header < Modulus /\ brk + (size + Header) < Modulus
      BY <1>1, <2>1, <2>2
    <3>2. /\ (size + Header) % Modulus = size + Header
          /\ (brk + (size + Header)) % Modulus = brk + (size + Header)
      BY SMTT(30), <1>1, <3>1
    <3>3. /\ blocks' = Append(blocks, b)
          /\ brk' = (brk + ((size + Header) % Modulus)) % Modulus
          /\ new = brk + Header
      BY <1>3 DEF Allocate, Allocated, Sbrk
    <3>4. brk' = brk + (size + Header)
      BY <3>2, <3>3
    <3> QED BY <3>3, <3>4
  <2>4. b \in MemBlocks
    BY <1>1 DEF MemBlocks
  <2> HIDE DEF i, I, b
  <2>5. /\ blocks' \in Seq(MemBlocks) /\ Len(blocks') = Len(blocks) + 1
        /\ DOMAIN blocks' = DOMAIN blocks \cup {Len(blocks) + 1}
        /\ \A k \in DOMAIN blocks : blocks'[k] = blocks[k]
        /\ blocks'[Len(blocks) + 1] = b
        /\ DOMAIN blocks = 1 .. Len(blocks)
    BY <1>1, <2>3, <2>4, AppendProperties
  <2>6. b.addr = brk /\ b.size = size /\ ~b.free
    BY DEF b
  <2>7. Laid(most)'
    <3>1. brk' + (MaxBlocks - Len(blocks')) * most < Modulus
      <4>1. MaxBlocks - Len(blocks') = rest - 1
        BY <1>1, <2>5
      <4> QED BY <1>1, <2>1, <2>2, <2>3, <4>1
    <3>2. ASSUME NEW k \in DOMAIN blocks'
          PROVE  /\ HeapStart <= blocks'[k].addr
                 /\ blocks'[k].addr + Header + blocks'[k].size <= brk'
      <4>1. CASE k \in DOMAIN blocks
        <5>1. /\ HeapStart <= blocks[k].addr
              /\ blocks[k].addr + Header + blocks[k].size <= brk
          BY <4>1 DEF Laid
        <5>2. blocks[k].addr \in Nat /\ blocks[k].size \in Nat
          BY <1>1, <4>1 DEF MemBlocks
        <5> QED BY SMTT(30), <1>1, <2>3, <2>5, <4>1, <5>1, <5>2
      <4>2. CASE k = Len(blocks) + 1
        <5>1. HeapStart <= brk
          BY DEF Laid
        <5> QED BY <1>1, <2>3, <2>5, <2>6, <4>2, <5>1
      <4> QED BY <2>5, <4>1, <4>2
    <3>3. ASSUME NEW k \in DOMAIN blocks', NEW j \in DOMAIN blocks', k < j
          PROVE  blocks'[k].addr + Header + blocks'[k].size <= blocks'[j].addr
      <4>1. k \in DOMAIN blocks
        BY <1>1, <2>5, <3>3
      <4> QED BY <1>1, <2>5, <2>6, <3>3, <4>1 DEF Laid
    <3> QED BY <1>1, <2>3, <2>5, <3>1, <3>2, <3>3 DEF Laid
  <2>8. Backed(new, size)'
    BY <1>1, <2>3, <2>5, <2>6 DEF Backed, Pointer
  <2>9. new \in Nat /\ new < Modulus
    BY <1>1, <2>1, <2>2, <2>3
  <2>10. ASSUME NEW p, NEW n, Backed(p, n) PROVE p # new /\ Backed(p, n)'
    <3>1. PICK k \in DOMAIN blocks :
            Pointer(blocks[k]) = p /\ ~blocks[k].free /\ n <= blocks[k].size
      BY <2>10 DEF Backed
    <3>2. blocks[k].addr + Header + blocks[k].size <= brk
      BY DEF Laid
    <3>3. p # new
      BY <1>1, <2>3, <3>1, <3>2 DEF Pointer, MemBlocks
    <3> QED BY <2>5, <3>1, <3>3 DEF Backed
  <2> QED BY <2>7, <2>8, <2>9, <2>10
<1> QED BY <1>2, <1>3

\* free leaves everybody else's block alone.
LEMMA FreeEffect ==
  ASSUME NEW most \in Nat, Laid(most), NEW ptr, Free(ptr)
  PROVE  /\ Laid(most)'
         /\ \A p, n : Backed(p, n) /\ p # ptr => Backed(p, n)'
<1>1. /\ blocks \in Seq(MemBlocks) /\ Len(blocks) \in Nat
      /\ DOMAIN blocks = 1 .. Len(blocks)
      /\ \A k \in DOMAIN blocks : blocks[k] \in MemBlocks
  BY DEF Laid
<1>2. /\ DOMAIN blocks' = DOMAIN blocks /\ brk' = brk
      /\ \A k \in DOMAIN blocks :
           blocks'[k] = IF Pointer(blocks[k]) = ptr
                        THEN [blocks[k] EXCEPT !.free = TRUE] ELSE blocks[k]
  BY DEF Free
<1>3. \A k \in DOMAIN blocks : /\ blocks'[k] \in MemBlocks
                               /\ blocks'[k].addr = blocks[k].addr
                               /\ blocks'[k].size = blocks[k].size
  BY <1>1, <1>2 DEF MemBlocks
<1>4. blocks' \in Seq(MemBlocks) /\ Len(blocks') = Len(blocks)
  <2>1. blocks' = [k \in 1 .. Len(blocks) |-> blocks'[k]]
    BY <1>1 DEF Free
  <2> QED BY <1>1, <1>2, <1>3, <2>1
<1>5. Laid(most)'
  BY <1>2, <1>3, <1>4, LaidKept
<1>6. ASSUME NEW p, NEW n, Backed(p, n), p # ptr PROVE Backed(p, n)'
  <2>1. PICK k \in DOMAIN blocks :
          Pointer(blocks[k]) = p /\ ~blocks[k].free /\ n <= blocks[k].size
    BY <1>6 DEF Backed
  <2>2. blocks'[k] = blocks[k]
    BY <1>2, <1>6, <2>1
  <2> QED BY <1>2, <2>1, <2>2 DEF Backed
<1> QED BY <1>5, <1>6

-----------------------------------------------------------------------------
(* The lister and its pointers. *)

\* Every pointer a program holds is backed by a block of its own.
Owned ==
  /\ held \subseteq [ptr : Nat, size : Nat]
  /\ \A h \in held : Backed(h.ptr, h.size)
  /\ \A p \in {dit, cursor} \ {Null} : p \in Nat /\ Backed(p, Dirent)
  /\ \A h, k \in held : h.ptr = k.ptr => h = k
  /\ \A h \in held : h.ptr \notin {dit, cursor}
  /\ dit = Null => cursor = Null

\* The blocks a program may ask for fit in its address space: malloc adds the
\* header to the size, and sbrk the sum to brk, without a test for overflow.
HeapFits ==
  \E most \in Nat : /\ \A size \in Sizes \cup {Dirent} : size + Header <= most
                    /\ HeapStart + MaxBlocks * most < Modulus

\* Pointers are addresses; in particular they are not null.
LEMMA BackedBelow ==
  ASSUME NEW most \in Nat, Laid(most), NEW p, NEW n, Backed(p, n)
  PROVE  p \in Nat /\ p < Modulus
<1> DEFINE rest == MaxBlocks - Len(blocks)
<1>1. /\ rest \in Nat /\ brk + rest * most < Modulus /\ brk \in Nat
      /\ \A k \in DOMAIN blocks : blocks[k] \in MemBlocks
  BY LibraryAssumption DEF Laid
<1>2. rest * most \in Nat
  BY <1>1
<1> HIDE DEF rest
<1>3. brk < Modulus
  BY <1>1, <1>2, MallocAssumption
<1>4. PICK i \in DOMAIN blocks : Pointer(blocks[i]) = p
  BY DEF Backed
<1>5. /\ blocks[i].addr \in Nat /\ blocks[i].size \in Nat
      /\ blocks[i].addr + Header + blocks[i].size <= brk
  BY <1>1 DEF Laid, MemBlocks
<1> QED BY <1>1, <1>3, <1>4, <1>5, MallocAssumption DEF Pointer

\* Steps that do not touch the heap.
LEMMA HeapKept ==
  ASSUME NEW most, Laid(most), Owned, UNCHANGED heap,
         UNCHANGED <<held, dit, cursor>>
  PROVE  Laid(most)' /\ Owned'
BY DEF heap, Laid, Owned, Backed

LEMMA OwnedByStep ==
  ASSUME NEW most \in Nat, \A size \in Sizes \cup {Dirent} : size + Header <= most,
         Laid(most), Owned, [LibraryNext]_lvars
  PROVE  Laid(most)' /\ Owned'
<1> USE MallocAssumption, LibraryAssumption
<1>1. CASE UNCHANGED heap /\ UNCHANGED <<held, dit, cursor>>
  BY <1>1, HeapKept
<1>2. CASE OpenDir
  <2>1. PICK new : new = Allocated(Dirent)
    OBVIOUS
  <2>2. /\ dit = Null /\ cursor = Null /\ dit' = new /\ cursor' = new
        /\ held' = held /\ Allocate(Dirent) /\ Len(blocks) < MaxBlocks
    BY <1>2, <2>1 DEF OpenDir, Owned
  <2>3. /\ Laid(most)' /\ Backed(new, Dirent)' /\ new \in Nat /\ new < Modulus
        /\ \A p, n : Backed(p, n) => p # new /\ Backed(p, n)'
    BY <2>1, <2>2, AllocateEffect
  <2>4. new # Null
    BY <2>3
  <2>5. \A h \in held : h.ptr # new /\ Backed(h.ptr, h.size)'
    BY <2>3 DEF Owned
  <2>6. held \subseteq [ptr : Nat, size : Nat]
        /\ \A h, k \in held : h.ptr = k.ptr => h = k
    BY DEF Owned
  <2> QED BY <2>2, <2>3, <2>4, <2>5, <2>6 DEF Owned
<1>3. CASE ReadDir
  <2>1. PICK new : new = Allocated(Dirent)
    OBVIOUS
  <2>2. /\ dit # Null /\ dit' = dit /\ cursor' \in {cursor, new}
        /\ held' = held /\ Allocate(Dirent) /\ Len(blocks) < MaxBlocks
    BY <1>3, <2>1 DEF ReadDir
  <2>3. /\ Laid(most)' /\ Backed(new, Dirent)' /\ new \in Nat /\ new < Modulus
        /\ \A p, n : Backed(p, n) => p # new /\ Backed(p, n)'
    BY <2>1, <2>2, AllocateEffect
  <2>4. \A h \in held : h.ptr # new /\ Backed(h.ptr, h.size)'
    BY <2>3 DEF Owned
  <2>5. \A p \in {dit, cursor} \ {Null} : p \in Nat /\ Backed(p, Dirent)'
    BY <2>3 DEF Owned
  <2>6. \A p \in {dit', cursor'} \ {Null} : p \in Nat /\ Backed(p, Dirent)'
    BY <2>2, <2>3, <2>5
  <2>7. /\ held \subseteq [ptr : Nat, size : Nat]
        /\ \A h, k \in held : h.ptr = k.ptr => h = k
        /\ \A h \in held : h.ptr \notin {dit, cursor}
    BY DEF Owned
  <2> QED BY <2>2, <2>3, <2>4, <2>6, <2>7 DEF Owned
<1>4. CASE CloseDir
  <2>1. PICK ptr : ptr = dit
    OBVIOUS
  <2>2. Free(ptr) /\ held' = held /\ dit' = Null /\ cursor' = Null
    BY <1>4, <2>1 DEF CloseDir
  <2>3. Laid(most)' /\ \A p, n : Backed(p, n) /\ p # ptr => Backed(p, n)'
    BY <2>2, FreeEffect
  <2>4. /\ held \subseteq [ptr : Nat, size : Nat]
        /\ \A h, k \in held : h.ptr = k.ptr => h = k
        /\ \A h \in held : h.ptr # ptr /\ Backed(h.ptr, h.size)
    BY <2>1 DEF Owned
  <2>5. \A h \in held : h.ptr \in Nat /\ h.ptr # Null /\ Backed(h.ptr, h.size)'
    <3>1. ASSUME NEW h \in held PROVE h.ptr # Null
      <4>1. h.ptr \in Nat /\ Backed(h.ptr, h.size)
        BY <2>4
      <4>2. h.ptr < Modulus
        BY <4>1, BackedBelow
      <4> QED BY <4>1, <4>2
    <3> QED BY <2>3, <2>4, <3>1
  <2> QED BY <2>2, <2>3, <2>4, <2>5 DEF Owned
<1>5. ASSUME NEW size \in Sizes, Take(size) PROVE Laid(most)' /\ Owned'
  <2>1. CASE size = 0
    BY <1>5, <2>1, HeapKept DEF Take, Allocate
  <2>2. CASE size # 0
    <3>1. PICK new : new = Allocated(size)
      OBVIOUS
    <3>2. /\ size \in Nat /\ dit' = dit /\ cursor' = cursor
          /\ held' = held \cup {[ptr |-> new, size |-> size]}
          /\ Allocate(size) /\ Len(blocks) < MaxBlocks
      BY <1>5, <2>2, <3>1 DEF Take
    <3>3. /\ Laid(most)' /\ Backed(new, size)' /\ new \in Nat /\ new < Modulus
          /\ \A p, n : Backed(p, n) => p # new /\ Backed(p, n)'
      BY <2>2, <3>1, <3>2, AllocateEffect
    <3>4. /\ \A h \in held : h.ptr # new /\ Backed(h.ptr, h.size)'
          /\ \A p \in {dit, cursor} \ {Null} :
               p \in Nat /\ p # new /\ Backed(p, Dirent)'
      BY <3>3 DEF Owned
    <3>5. /\ held \subseteq [ptr : Nat, size : Nat]
          /\ \A h, k \in held : h.ptr = k.ptr => h = k
          /\ \A h \in held : h.ptr \notin {dit, cursor}
          /\ dit = Null => cursor = Null
      BY DEF Owned
    <3>6. new \notin {dit, cursor}
      BY <3>3, <3>4
    <3>7. held' \subseteq [ptr : Nat, size : Nat]
      BY <3>2, <3>3, <3>5
    <3>8. \A h \in held' : Backed(h.ptr, h.size)' /\ h.ptr \notin {dit, cursor}
      BY <3>2, <3>3, <3>4, <3>5, <3>6
    <3>9. \A h, k \in held' : h.ptr = k.ptr => h = k
      BY <3>2, <3>4, <3>5
    <3> QED BY <3>2, <3>3, <3>4, <3>5, <3>7, <3>8, <3>9 DEF Owned
  <2> QED BY <2>1, <2>2
<1>6. ASSUME NEW h \in held, Give(h) PROVE Laid(most)' /\ Owned'
  <2>1. Free(h.ptr) /\ held' = held \ {h} /\ dit' = dit /\ cursor' = cursor
    BY <1>6 DEF Give
  <2>2. PICK ptr : ptr = h.ptr
    OBVIOUS
  <2>3. Laid(most)' /\ \A p, n : Backed(p, n) /\ p # ptr => Backed(p, n)'
    BY <2>1, <2>2, FreeEffect
  <2>4. /\ held \subseteq [ptr : Nat, size : Nat]
        /\ \A g, k \in held : g.ptr = k.ptr => g = k
        /\ \A g \in held : g.ptr \notin {dit, cursor} /\ Backed(g.ptr, g.size)
        /\ \A p \in {dit, cursor} \ {Null} : p \in Nat /\ Backed(p, Dirent)
        /\ dit = Null => cursor = Null
    BY DEF Owned
  <2>5. \A g \in held \ {h} : Backed(g.ptr, g.size)'
    BY <2>2, <2>3, <2>4
  <2>6. \A p \in {dit, cursor} \ {Null} : p \in Nat /\ Backed(p, Dirent)'
    BY <2>2, <2>3, <2>4
  <2> QED BY <2>1, <2>3, <2>4, <2>5, <2>6 DEF Owned
<1> QED
  BY <1>1, <1>2, <1>3, <1>4, <1>5, <1>6
  DEF LibraryNext, ShowFiles, lvars, lister, Open, Read, Write, Seek, Close, Leave,
      ChangeDir

LEMMA OwnedDisjoint ==
  ASSUME NEW most \in Nat, Laid(most), Owned
  PROVE  BlocksDisjoint
<1> USE MallocAssumption, LibraryAssumption
<1>1. /\ brk \in Nat /\ \A k \in DOMAIN blocks : k \in Nat /\ blocks[k] \in MemBlocks
  BY DEF Laid
<1>2. \A h \in Rooms : h.ptr \in Nat /\ h.size \in Nat /\ Backed(h.ptr, h.size)
  BY DEF Rooms, Owned
<1>3. ASSUME NEW h \in Rooms, NEW k \in Rooms, h.ptr = k.ptr PROVE h = k
  BY <1>3 DEF Rooms, Owned
<1>4. ASSUME NEW h \in Rooms PROVE Room(h) \subseteq HeapStart .. brk - 1
  <2>1. PICK i \in DOMAIN blocks :
          Pointer(blocks[i]) = h.ptr /\ h.size <= blocks[i].size
    BY <1>2 DEF Backed
  <2>2. /\ blocks[i].addr \in Nat /\ blocks[i].size \in Nat
        /\ HeapStart <= blocks[i].addr
        /\ blocks[i].addr + Header + blocks[i].size <= brk
    BY <1>1 DEF Laid, MemBlocks
  <2> QED BY <1>1, <1>2, <2>1, <2>2 DEF Room, Pointer
<1>5. ASSUME NEW h \in Rooms, NEW k \in Rooms, h # k
      PROVE  Room(h) \cap Room(k) = {}
  <2>1. PICK i \in DOMAIN blocks :
          Pointer(blocks[i]) = h.ptr /\ h.size <= blocks[i].size
    BY <1>2 DEF Backed
  <2>2. PICK j \in DOMAIN blocks :
          Pointer(blocks[j]) = k.ptr /\ k.size <= blocks[j].size
    BY <1>2 DEF Backed
  <2>3. i # j /\ i \in Nat /\ j \in Nat
    BY <1>1, <1>3, <1>5, <2>1, <2>2
  <2>4. /\ blocks[i].addr \in Nat /\ blocks[i].size \in Nat
        /\ blocks[j].addr \in Nat /\ blocks[j].size \in Nat
    BY <1>1 DEF MemBlocks
  <2>5. \/ blocks[i].addr + Header + blocks[i].size <= blocks[j].addr
        \/ blocks[j].addr + Header + blocks[j].size <= blocks[i].addr
    BY <2>3 DEF Laid
  <2> QED BY <1>2, <2>1, <2>2, <2>4, <2>5 DEF Room, Pointer
<1> QED BY <1>4, <1>5 DEF BlocksDisjoint

\* Every block a program holds has the room that was asked for, and shares none of
\* it: blocks are given out again only after a free, and only to requests they are
\* large enough for (malloc, find_free_mem_block, free; readdir and closedir, who
\* hold dirents).  Requests near 2^64 would break it, for their sums wrap.
THEOREM HeapBlocksDisjoint == ASSUME HeapFits PROVE LibrarySpec => []BlocksDisjoint
<1>1. PICK most \in Nat : /\ \A size \in Sizes \cup {Dirent} : size + Header <= most
                         /\ HeapStart + MaxBlocks * most < Modulus
  BY DEF HeapFits
<1>2. LibraryInit => Laid(most) /\ Owned
  <2> SUFFICES ASSUME LibraryInit PROVE Laid(most) /\ Owned
    OBVIOUS
  <2>1. /\ blocks = <<>> /\ brk = HeapStart
        /\ dit = Null /\ cursor = Null /\ held = {}
    BY DEF LibraryInit, MallocInit
  <2>2. Len(blocks) = 0 /\ DOMAIN blocks = {} /\ blocks \in Seq(MemBlocks)
    BY <2>1
  <2>3. MaxBlocks - Len(blocks) = MaxBlocks
    BY <2>2, LibraryAssumption
  <2> QED BY <1>1, <2>1, <2>2, <2>3, MallocAssumption, LibraryAssumption DEF Laid, Owned
<1>3. Laid(most) /\ Owned /\ [LibraryNext]_lvars => (Laid(most) /\ Owned)'
  BY <1>1, OwnedByStep
<1>4. Laid(most) /\ Owned => BlocksDisjoint
  BY OwnedDisjoint
<1> QED BY <1>2, <1>3, <1>4, PTL DEF LibrarySpec

-----------------------------------------------------------------------------
(* The one offset of every file. *)

FilesTyped ==
  /\ offset \in [Files -> Int]
  /\ handle \in [Readers -> (Known \ {Root}) \cup {Nothing}]
  /\ DOMAIN archive = 0 .. ArchiveEnd + Block - 1

Rewound == FilesTyped /\ ClosedAtStart

LEMMA RewoundByStep ==
  ASSUME Rewound, [LibraryNext]_lvars
  PROVE  Rewound'
<1> USE LibraryAssumption, TarfsAssumption
<1>1. /\ offset \in [Files -> Int]
      /\ handle \in [Readers -> (Known \ {Root}) \cup {Nothing}]
      /\ DOMAIN archive = 0 .. ArchiveEnd + Block - 1
      /\ Known \subseteq Files /\ Nothing \notin Files
      /\ \A f \in Known \ left : offset[f] = 0 \/ \E r \in Readers : handle[r] = f
  BY DEF Rewound, FilesTyped, ClosedAtStart, Known
<1>2. ASSUME NEW r \in Readers, handle[r] # Nothing, NEW new \in Int,
             offset' = [offset EXCEPT ![handle[r]] = new],
             handle' = handle, left' = left, DOMAIN archive' = DOMAIN archive
      PROVE  Rewound'
  BY <1>1, <1>2 DEF Rewound, FilesTyped, ClosedAtStart
<1>3. ASSUME NEW r \in Readers, NEW f \in Files, Open(r, f) PROVE Rewound'
  <2>1. /\ handle[r] = Nothing /\ handle' = [handle EXCEPT ![r] = Fopen(f)]
        /\ offset' = offset /\ left' = left /\ archive' = archive
        /\ f # Root
    BY <1>3 DEF Open, tarfs
  <2>2. Fopen(f) \in (Known \ {Root}) \cup {Nothing}
    BY <2>1 DEF Fopen
  <2>3. \A q \in Readers : handle[q] # Nothing => handle'[q] = handle[q]
    BY <1>1, <2>1
  <2> QED BY SMTT(30), <1>1, <2>1, <2>2, <2>3 DEF Rewound, FilesTyped, ClosedAtStart
<1>4. ASSUME NEW r \in Readers, NEW n \in Counts, Read(r, n) PROVE Rewound'
  <2>1. handle[r] # Nothing /\ handle[r] \in Files /\ handle' = handle /\ left' = left
        /\ archive' = archive
    BY <1>1, <1>4 DEF Read, Fread
  <2>2. offset' = [offset EXCEPT ![handle[r]] =
                     offset[handle[r]] + Granted(handle[r], n)]
    BY <1>4 DEF Read, Fread
  <2>3. PICK f \in Files : f = handle[r]
    BY <2>1
  <2>4. offset[f] \in Int /\ Size[f] \in Nat /\ n \in Nat
    BY <1>1
  <2>5. Granted(f, n) \in Int
    BY <2>4 DEF Granted
  <2>6. PICK g \in Int : g = Granted(f, n)
    BY <2>5
  <2>7. offset[f] + g \in Int
    BY <2>4
  <2> QED BY <1>2, <2>1, <2>2, <2>3, <2>6, <2>7
<1>5. ASSUME NEW r \in Readers, NEW n \in Counts, NEW c,
             Write(r, [k \in 1 .. n |-> c])
      PROVE  Rewound'
  <2>1. handle[r] # Nothing /\ handle[r] \in Files /\ handle' = handle /\ left' = left
        /\ DOMAIN archive' = DOMAIN archive
    BY <1>1, <1>5 DEF Write, Fwrite
  <2>2. offset' = [offset EXCEPT ![handle[r]] = offset[handle[r]] + n]
    <3>1. Len([k \in 1 .. n |-> c]) = n
      OBVIOUS
    <3>2. offset' = [offset EXCEPT ![handle[r]] =
                       offset[handle[r]] + Len([k \in 1 .. n |-> c])]
      BY <1>5 DEF Write, Fwrite
    <3> QED BY <3>1, <3>2
  <2>3. offset[handle[r]] \in Int /\ n \in Nat
    BY <1>1, <2>1
  <2>4. offset[handle[r]] + n \in Int
    BY <2>3
  <2> QED BY <1>2, <2>1, <2>2, <2>4
<1>6. ASSUME NEW r \in Readers, NEW n \in Counts, NEW whence \in Whences,
             Seek(r, n, whence)
      PROVE  Rewound'
  <2>1. handle[r] # Nothing /\ handle[r] \in Files /\ handle' = handle /\ left' = left
        /\ archive' = archive
    BY <1>1, <1>6 DEF Seek, Fseek
  <2>2. \E new \in Int : offset' = [offset EXCEPT ![handle[r]] = new]
    <3>1. n \in Nat /\ offset[handle[r]] \in Int /\ Size[handle[r]] \in Nat
      BY <1>1, <2>1
    <3> DEFINE new == CASE whence = 0 -> n
                        [] whence = 1 -> offset[handle[r]] + n
                        [] whence = 2 -> Size[handle[r]] + n
                        [] OTHER -> -1
    <3>2. offset' = [offset EXCEPT ![handle[r]] = new]
      BY <1>6 DEF Seek, Fseek
    <3>3. new \in Int
      <4>1. offset[handle[r]] + n \in Int /\ Size[handle[r]] + n \in Int
        BY <3>1
      <4> QED BY <3>1, <4>1
    <3> QED BY <3>2, <3>3
  <2> QED BY <1>2, <2>1, <2>2
<1>7. ASSUME NEW r \in Readers, Close(r) PROVE Rewound'
  <2>1. /\ handle[r] \in Known /\ handle' = [handle EXCEPT ![r] = Nothing]
        /\ offset' = [offset EXCEPT ![handle[r]] = 0] /\ left' = left \ {handle[r]}
        /\ archive' = archive
    BY <1>1, <1>7 DEF Close, Fclose, Ended
  <2>2. \A q \in Readers : handle[q] # handle[r] => handle'[q] = handle[q]
    BY <1>1, <2>1
  <2> QED BY <1>1, <2>1, <2>2 DEF Rewound, FilesTyped, ClosedAtStart
<1>8. ASSUME NEW r \in Readers, Leave(r) PROVE Rewound'
  <2>1. /\ handle' = [handle EXCEPT ![r] = Nothing] /\ left' = left \cup {handle[r]}
        /\ offset' = offset /\ archive' = archive
    BY <1>8 DEF Leave, tarfs
  <2>2. \A q \in Readers : handle[q] # handle[r] => handle'[q] = handle[q]
    BY <1>1, <2>1
  <2> QED BY <1>1, <2>1, <2>2 DEF Rewound, FilesTyped, ClosedAtStart
<1>9. CASE UNCHANGED <<offset, handle, left, archive>>
  BY <1>9 DEF Rewound, FilesTyped, ClosedAtStart
<1>10. CASE CloseDir
  <2>1. CASE entry[dit] = Nothing
    BY <1>9, <1>10, <2>1 DEF CloseDir, tarfs
  <2>2. CASE entry[dit] # Nothing
    <3>1. /\ handle' = handle /\ left' = left \ {entry[dit]} /\ archive' = archive
          /\ offset' = IF entry[dit] \in Known
                       THEN [offset EXCEPT ![entry[dit]] = 0] ELSE offset
      BY <1>10, <2>2 DEF CloseDir, Fclose, Ended
    <3>2. offset' \in [Files -> Int]
      <4>1. offset \in [Files -> Int]
        BY <1>1
      <4>2. ASSUME NEW f, NEW new \in Int PROVE [offset EXCEPT ![f] = new] \in [Files -> Int]
        BY <4>1
      <4>3. [offset EXCEPT ![entry[dit]] = 0] \in [Files -> Int]
        BY <4>2
      <4> QED BY <3>1, <4>1, <4>3
    <3>3. ASSUME NEW f \in Known \ left'
          PROVE  offset'[f] = 0 \/ \E r \in Readers : handle'[r] = f
      <4>1. CASE f = entry[dit]
        BY <1>1, <3>1, <4>1
      <4>2. CASE f # entry[dit]
        <5>1. f \in Known \ left /\ offset'[f] = offset[f]
          BY <1>1, <3>1, <4>2
        <5> QED BY <1>1, <3>1, <5>1
      <4> QED BY <4>1, <4>2
    <3> QED BY <1>1, <3>1, <3>2, <3>3 DEF Rewound, FilesTyped, ClosedAtStart
  <2> QED BY <2>1, <2>2
<1> QED
  BY ZenonT(40), <1>3, <1>4, <1>5, <1>6, <1>7, <1>8, <1>9, <1>10
  DEF LibraryNext, ShowFiles, lvars, lister, readers, tarfs, OpenDir, ReadDir,
      ChangeDir, Chdir, Take, Give

LEMMA InitRewound == LibraryInit => Rewound
BY TarfsAssumption
DEF LibraryInit, TarfsInit, Archive, Rewound, FilesTyped, ClosedAtStart, Known

\* open does not rewind and need not, as far as programs close what they open: the
\* offset that all tasks share is 0 in every file that nobody has open, but for those
\* that a program left open as it ended and no other closed since (fopen, fclose, the
\* fclose of closedir, exit).
THEOREM FilesRewound == LibrarySpec => []ClosedAtStart
<1>1. Rewound => ClosedAtStart
  BY DEF Rewound
<1>2. Rewound /\ [LibraryNext]_lvars => Rewound'
  BY RewoundByStep
<1> QED BY <1>1, <1>2, InitRewound, PTL DEF LibrarySpec

-----------------------------------------------------------------------------
(* The archive: every file where find_offset_for_file looks for it. *)

\* What the file at place i of the list takes in the archive.
Gap(i) == Block + Aligned(Size[Order[i]])

LEMMA AlignedUp ==
  ASSUME NEW size \in Nat
  PROVE  Aligned(size) \in Nat /\ Aligned(size) >= size
<1>1. size % Block \in 0 .. Block - 1
  BY TarfsAssumption
<1> QED BY <1>1, TarfsAssumption DEF Aligned

LEMMA OrderFacts ==
  /\ Len(Order) \in Nat /\ Len(Order) > 1 /\ DOMAIN Order = 1 .. Len(Order)
  /\ \A i \in 1 .. Len(Order) : Order[i] \in Files /\ Position(Order[i]) = i
  /\ \A f \in Files : Position(f) \in 1 .. Len(Order) /\ Order[Position(f)] = f
  /\ Root = Order[1] /\ Final = Order[Len(Order)]
  /\ \A i \in 1 .. Len(Order) : Gap(i) \in Nat /\ Gap(i) >= Block + Size[Order[i]]
<1> USE TarfsAssumption
<1>1. Order \in Seq(Files)
  OBVIOUS
<1>2. /\ Len(Order) \in Nat /\ Len(Order) > 1 /\ DOMAIN Order = 1 .. Len(Order)
      /\ \A i \in 1 .. Len(Order) : Order[i] \in Files
  BY <1>1, LenProperties
<1>3. \A i, j \in 1 .. Len(Order) : Order[i] = Order[j] => i = j
  BY <1>2 DEF IsInjective
<1>4. \A f \in Files : \E i \in 1 .. Len(Order) : Order[i] = f
  BY <1>2 DEF Files, Range
<1>5. \A f \in Files : Position(f) \in 1 .. Len(Order) /\ Order[Position(f)] = f
  BY <1>2, <1>4 DEF Position
<1>6. \A i \in 1 .. Len(Order) : Position(Order[i]) = i
  BY <1>2, <1>3, <1>5
<1>7. Root = Order[1] /\ Final = Order[Len(Order)]
  BY DEF Root, Final, Last
<1>8. ASSUME NEW i \in 1 .. Len(Order)
      PROVE  Gap(i) \in Nat /\ Gap(i) >= Block + Size[Order[i]]
  <2>1. Size[Order[i]] \in Nat
    BY <1>2
  <2> DEFINE s == Size[Order[i]]
  <2>2. s \in Nat
    BY <2>1
  <2>3. Block \in Nat
    OBVIOUS
  <2> HIDE DEF s
  <2>4. Aligned(s) \in Nat /\ Aligned(s) >= s
    BY <2>2, AlignedUp
  <2>5. Block + Aligned(s) \in Nat /\ Block + Aligned(s) >= Block + s
    BY <2>2, <2>3, <2>4
  <2> QED BY <2>5 DEF Gap, s
<1> QED BY <1>2, <1>5, <1>6, <1>7, <1>8

\* The recursion from header to header has a solution, built up one file after
\* the other.
LEMMA AddressesExist ==
  \E at : at = [i \in 2 .. Len(Order) |->
                 IF i = 2 THEN 0 ELSE at[i - 1] + Block + Aligned(Size[Order[i - 1]])]
<1> DEFINE N == Len(Order)
           Upto(n) == \E at : at = [i \in 2 .. n |->
                                     IF i = 2 THEN 0 ELSE at[i - 1] + Block + Aligned(Size[Order[i - 1]])]
           Bad == {n \in 1 .. N : ~Upto(n)}
<1>1. N \in Nat /\ N > 1
  BY OrderFacts
<1>2. Bad = {}
  <2> SUFFICES ASSUME Bad # {} PROVE FALSE
    OBVIOUS
  <2>1. Bad \subseteq Nat
    BY <1>1
  <2> HIDE DEF Bad
  <2>2. PICK n \in Bad : \A m \in Bad : n <= m
    BY <2>1, LeastOf
  <2> USE DEF Bad
  <2>3. n \in 1 .. N /\ ~Upto(n)
    BY <2>2
  <2>4. n # 1
    <3>1. CASE n = 1
      <4> DEFINE h == [i \in {} |-> 0]
      <4>1. 2 .. 1 = {}
        OBVIOUS
      <4>2. h = [i \in 2 .. 1 |-> IF i = 2 THEN 0 ELSE h[i - 1] + Block + Aligned(Size[Order[i - 1]])]
        BY <4>1
      <4>3. Upto(1)
        BY <4>2
      <4> QED BY <2>3, <3>1, <4>3
    <3> QED BY <3>1
  <2>5. n - 1 \in 1 .. N /\ n - 1 \notin Bad
    <3>1. n \in 1 .. N /\ n # 1
      BY <2>3, <2>4
    <3> HIDE DEF Bad, Upto
    <3>2. n - 1 \in 1 .. N /\ ~(n <= n - 1)
      BY <1>1, <3>1
    <3> QED BY <2>2, <3>2
  <2>6. PICK g : g = [i \in 2 .. n - 1 |->
                        IF i = 2 THEN 0 ELSE g[i - 1] + Block + Aligned(Size[Order[i - 1]])]
    BY <2>5
  <2> DEFINE h == [i \in 2 .. n |->
                     IF i < n THEN g[i] ELSE IF i = 2 THEN 0 ELSE g[i - 1] + Block + Aligned(Size[Order[i - 1]])]
  <2>7. ASSUME NEW i \in 2 .. n
        PROVE  h[i] = IF i = 2 THEN 0 ELSE h[i - 1] + Block + Aligned(Size[Order[i - 1]])
    <3>1. i # 2 => h[i - 1] = g[i - 1]
      BY <2>3
    <3>2. i < n => g[i] = IF i = 2 THEN 0 ELSE g[i - 1] + Block + Aligned(Size[Order[i - 1]])
      BY <2>3, <2>6
    <3> QED BY <2>3, <3>1, <3>2
  <2>8. h = [i \in 2 .. n |-> IF i = 2 THEN 0 ELSE h[i - 1] + Block + Aligned(Size[Order[i - 1]])]
    BY <2>7
  <2> HIDE DEF h
  <2>9. Upto(n)
    BY <2>8
  <2> QED BY <2>3, <2>9
<1>3. Upto(N)
  BY <1>1, <1>2
<1> QED BY <1>3

LEMMA AddressSteps ==
  /\ addr = [f \in Files \ {Root} |-> addr[f]]
  /\ addr[Order[2]] = 0
  /\ \A i \in 3 .. Len(Order) :
       addr[Order[i]] = addr[Order[i - 1]] + Block + Aligned(Size[Order[i - 1]])
<1> DEFINE at == CHOOSE g : g = [i \in 2 .. Len(Order) |->
                                  IF i = 2 THEN 0
                                  ELSE g[i - 1] + Block + Aligned(Size[Order[i - 1]])]
<1>1. addr = [f \in Files \ {Root} |-> at[Position(f)]]
  BY DEF addr
<1>2. at = [i \in 2 .. Len(Order) |->
             IF i = 2 THEN 0 ELSE at[i - 1] + Block + Aligned(Size[Order[i - 1]])]
  BY AddressesExist
<1> HIDE DEF at
<1>3. \A i \in 2 .. Len(Order) : addr[Order[i]] = at[i]
  BY <1>1, OrderFacts
<1>4. addr[Order[2]] = 0
  BY <1>2, <1>3, OrderFacts
<1>5. \A i \in 3 .. Len(Order) :
        addr[Order[i]] = addr[Order[i - 1]] + Block + Aligned(Size[Order[i - 1]])
  BY <1>2, <1>3, OrderFacts
<1> QED BY <1>1, <1>4, <1>5

\* Headers follow one another with at least the contents of the file between.
LEMMA HeadersApart ==
  /\ addr \in [Files \ {Root} -> Nat]
  /\ \A i \in 2 .. Len(Order) : \A j \in 2 .. i - 1 :
       addr[Order[j]] + Gap(j) <= addr[Order[i]]
<1> DEFINE N == Len(Order)
           Placed(i) == /\ addr[Order[i]] \in Nat
                        /\ \A j \in 2 .. i - 1 : addr[Order[j]] + Gap(j) <= addr[Order[i]]
           Bad == {i \in 2 .. N : ~Placed(i)}
<1>1. N \in Nat /\ N > 1 /\ \A i \in 1 .. N : Gap(i) \in Nat
  BY OrderFacts
<1>2. Bad = {}
  <2> SUFFICES ASSUME Bad # {} PROVE FALSE
    OBVIOUS
  <2>1. Bad \subseteq Nat
    BY <1>1
  <2> HIDE DEF Bad
  <2>2. PICK i \in Bad : \A m \in Bad : i <= m
    BY <2>1, LeastOf
  <2> USE DEF Bad
  <2>3. i \in 2 .. N /\ ~Placed(i)
    BY <2>2
  <2>4. CASE i = 2
    BY <2>3, <2>4, AddressSteps
  <2>5. CASE i # 2
    <3>1. i \in 3 .. N /\ i - 1 \in 2 .. N /\ i - 1 \notin Bad
      BY <1>1, <2>2, <2>3, <2>5
    <3>2. Placed(i - 1)
      BY <3>1
    <3>3. addr[Order[i]] = addr[Order[i - 1]] + Gap(i - 1)
      <4>1. addr[Order[i]] = addr[Order[i - 1]] + Block + Aligned(Size[Order[i - 1]])
        BY <3>1, AddressSteps
      <4>2. Aligned(Size[Order[i - 1]]) \in Nat /\ Block \in Nat
        <5>1. Size[Order[i - 1]] \in Nat /\ Block \in Nat
          BY <3>1, OrderFacts, TarfsAssumption
        <5> QED BY <5>1, AlignedUp
      <4>3. addr[Order[i - 1]] \in Nat
        BY <3>2
      <4> QED BY <4>1, <4>2, <4>3, SMTT(30) DEF Gap
    <3>4. Gap(i - 1) \in Nat /\ addr[Order[i]] \in Nat
      BY <1>1, <3>1, <3>2, <3>3
    <3>5. ASSUME NEW j \in 2 .. i - 1 PROVE addr[Order[j]] + Gap(j) <= addr[Order[i]]
      <4>1. CASE j = i - 1
        BY <3>3, <3>4, <4>1
      <4>2. CASE j # i - 1
        <5>1. j \in 2 .. (i - 1) - 1 /\ j \in 2 .. N /\ j < i
          BY <1>1, <3>1, <4>2
        <5>2. addr[Order[j]] + Gap(j) <= addr[Order[i - 1]]
          BY <3>2, <5>1
        <5>3. j \notin Bad
          <6>1. ~(i <= j)
            BY <3>1, <5>1
          <6> HIDE DEF Bad
          <6> QED BY <2>2, <6>1
        <5>4. addr[Order[j]] \in Nat /\ Gap(j) \in Nat /\ addr[Order[i - 1]] \in Nat
          BY <1>1, <3>2, <5>1, <5>3
        <5> QED BY SMTT(30), <3>3, <3>4, <5>2, <5>4
      <4> QED BY <4>1, <4>2
    <3> QED BY <2>3, <3>4, <3>5
  <2> QED BY <2>4, <2>5
<1>3. ASSUME NEW f \in Files \ {Root} PROVE addr[f] \in Nat
  <2>1. Position(f) \in 2 .. N /\ Order[Position(f)] = f
    BY OrderFacts
  <2> QED BY <1>2, <2>1
<1> QED BY <1>1, <1>2, <1>3, AddressSteps

\* A file's header and contents share no cell with those of another.
LEMMA FilesApart ==
  ASSUME NEW f \in Files \ {Root}, NEW g \in Files \ {Root},
         NEW d \in 0 .. Block + Size[f] - 1, NEW e \in 0 .. Block + Size[g] - 1,
         addr[f] + d = addr[g] + e
  PROVE  f = g /\ d = e
<1>1. /\ Position(f) \in 2 .. Len(Order) /\ Order[Position(f)] = f
      /\ Position(g) \in 2 .. Len(Order) /\ Order[Position(g)] = g
      /\ Len(Order) \in Nat
  BY OrderFacts
<1>2. /\ addr[f] \in Nat /\ addr[g] \in Nat
      /\ Block \in Nat /\ Size[f] \in Nat /\ Size[g] \in Nat
  BY HeadersApart, TarfsAssumption
<1>3. /\ Gap(Position(f)) \in Nat /\ Gap(Position(f)) >= Block + Size[f]
      /\ Gap(Position(g)) \in Nat /\ Gap(Position(g)) >= Block + Size[g]
  BY <1>1, OrderFacts
<1>4. CASE Position(f) < Position(g)
  <2>1. addr[f] + Gap(Position(f)) <= addr[g]
    BY <1>1, <1>4, HeadersApart
  <2>2. addr[f] + (Block + Size[f]) <= addr[g]
    BY <1>2, <1>3, <2>1
  <2> QED BY <1>2, <2>2
<1>5. CASE Position(g) < Position(f)
  <2>1. addr[g] + Gap(Position(g)) <= addr[f]
    BY <1>1, <1>5, HeadersApart
  <2>2. addr[g] + (Block + Size[g]) <= addr[f]
    BY <1>2, <1>3, <2>1
  <2> QED BY <1>2, <2>2
<1>6. CASE Position(f) = Position(g)
  BY SMTT(30), <1>1, <1>2, <1>6
<1> QED BY <1>1, <1>4, <1>5, <1>6

LEMMA WithinArchive ==
  ASSUME NEW f \in Files \ {Root}, NEW d \in 0 .. Block + Size[f] - 1
  PROVE  addr[f] + d \in 0 .. ArchiveEnd + Block - 1 /\ ArchiveEnd \in Nat
<1>1. /\ Position(f) \in 2 .. Len(Order) /\ Order[Position(f)] = f
      /\ Len(Order) \in Nat /\ Len(Order) > 1 /\ Final = Order[Len(Order)]
      /\ Final \in Files /\ Final # Root
  BY OrderFacts
<1>2. /\ addr[f] \in Nat /\ addr[Final] \in Nat
      /\ Block \in Nat /\ Size[f] \in Nat /\ Size[Final] \in Nat
  BY <1>1, HeadersApart, TarfsAssumption
<1>3. /\ Gap(Position(f)) \in Nat /\ Gap(Position(f)) >= Block + Size[f]
  BY <1>1, OrderFacts
<1>4. Aligned(Size[Final]) \in Nat /\ Aligned(Size[Final]) >= Size[Final]
  BY <1>2, AlignedUp
<1>5. ArchiveEnd = addr[Final] + Block + Aligned(Size[Final])
  BY DEF ArchiveEnd, DataFrom
<1>6. CASE f = Final
  BY <1>2, <1>4, <1>5, <1>6
<1>7. CASE f # Final
  <2>1. Position(f) \in 2 .. Len(Order) - 1
    BY <1>1, <1>7
  <2>2. addr[f] + Gap(Position(f)) <= addr[Final]
    BY <1>1, <2>1, HeadersApart
  <2> QED BY <1>2, <1>3, <1>4, <1>5, <2>2
<1> QED BY <1>6, <1>7

\* The hypothesis under which fwrite, which counts its offset from the header, stays
\* in its file: it starts a block too early, so a block is what it may be too long.
WritesFit == Counts \subseteq 1 .. Block

\* No write changes a header or a byte of a file other than its own (fwrite).
THEOREM WritesStayInFile == ASSUME WritesFit PROVE LibrarySpec => OthersUntouched
<1>1. ASSUME Rewound, [LibraryNext]_lvars, NEW a \in DOMAIN archive,
             archive'[a] # archive[a]
      PROVE  \E r \in Readers :
               /\ handle[r] # Nothing
               /\ offset[handle[r]] \in 0 .. Size[handle[r]] =>
                    a \in addr[handle[r]] .. DataFrom(handle[r]) + Size[handle[r]] - 1
  <2>1. PICK r \in Readers, n \in Counts, c \in {Text, Zero} :
          Write(r, [k \in 1 .. n |-> c])
    BY <1>1 DEF LibraryNext, ShowFiles, lvars, lister, readers, tarfs, heap, OpenDir,
         ReadDir, CloseDir, ChangeDir, Chdir, Take, Give, Open, Read, Fread, Seek,
         Fseek, Close, Fclose, Leave
  <2> DEFINE f == handle[r]
             cells == [k \in 1 .. n |-> c]
  <2>2. /\ f # Nothing /\ f \in Files \ {Root}
        /\ offset[f] \in Int /\ a \in Int
    <3>1. f # Nothing
      BY <2>1 DEF Write
    <3>2. f \in Files \ {Root}
      BY <1>1, <3>1 DEF Rewound, FilesTyped, Known
    <3>3. offset[f] \in Int /\ a \in Int
      BY <1>1, <3>2 DEF Rewound, FilesTyped
    <3> QED BY <3>1, <3>2, <3>3
  <2>3. n \in 1 .. Block /\ Len(cells) = n /\ Block \in Nat
    BY TarfsAssumption DEF WritesFit
  <2>4. a - FwriteAt(f) \in 0 .. Len(cells) - 1
    BY <1>1, <2>1 DEF Write, Fwrite
  <2> HIDE DEF f, cells
  <2>5. addr[f] \in Nat /\ Size[f] \in Nat
    BY <2>2, HeadersApart, TarfsAssumption
  <2>6. offset[f] \in 0 .. Size[f] => a \in addr[f] .. DataFrom(f) + Size[f] - 1
    BY SMTT(30), <2>2, <2>3, <2>4, <2>5 DEF FwriteAt, DataFrom
  <2> QED BY <2>2, <2>6 DEF f
<1>2. Rewound /\ [LibraryNext]_lvars =>
        [\A a \in DOMAIN archive :
           archive'[a] # archive[a] =>
             \E r \in Readers :
               /\ handle[r] # Nothing
               /\ offset[handle[r]] \in 0 .. Size[handle[r]] =>
                    a \in addr[handle[r]] .. DataFrom(handle[r]) + Size[handle[r]] - 1]_lvars
  BY <1>1
<1>3. Rewound /\ [LibraryNext]_lvars => Rewound'
  BY RewoundByStep
<1> QED BY <1>2, <1>3, InitRewound, PTL DEF LibrarySpec, OthersUntouched

-----------------------------------------------------------------------------
(* Reading the archive as it was at boot. *)

\* What a cell of the archive may hold, so that a walk by sizes always goes on.
LEMMA BootCells ==
  /\ \A f \in Files \ {Root} :
       /\ BootCell(addr[f]) = Name(f) /\ BootCell(addr[f] + 1) = <<"size", f>>
       /\ \A k \in 1 .. Size[f] : BootCell(DataFrom(f) + k - 1) = <<"data", f, k>>
  /\ \A a \in Nat :
       \/ BootCell(a) = Zero
       \/ \E f \in Files : \/ BootCell(a) = Name(f) \/ BootCell(a) = <<"size", f>>
                          \/ \E k : BootCell(a) = <<"data", f, k>>
<1> DEFINE F == Files \ {Root}
           IsName(a) == \E f \in F : a = addr[f]
           IsSize(a) == \E f \in F : a = addr[f] + 1
           IsData(a) == \E f \in F : a - DataFrom(f) \in 0 .. Size[f] - 1
<1>1. \A f \in F : addr[f] \in Nat /\ Size[f] \in Nat /\ Block \in Nat /\ Block > 1
  BY HeadersApart, TarfsAssumption
<1>2. ASSUME NEW f \in F, NEW g \in F, addr[f] = addr[g] PROVE f = g
  <2>1. 0 \in 0 .. Block + Size[f] - 1 /\ 0 \in 0 .. Block + Size[g] - 1
        /\ addr[f] + 0 = addr[g] + 0
    BY <1>1, <1>2
  <2> QED BY <2>1, FilesApart
<1>3. ASSUME NEW f \in F, NEW g \in F PROVE addr[f] # addr[g] + 1
  <2>1. 0 \in 0 .. Block + Size[f] - 1 /\ 1 \in 0 .. Block + Size[g] - 1
        /\ addr[f] + 0 = addr[f]
    BY <1>1
  <2> QED BY <2>1, FilesApart
<1>4. ASSUME NEW f \in F, NEW g \in F, NEW k \in 1 .. Size[g]
      PROVE  DataFrom(g) + k - 1 # addr[f] /\ DataFrom(g) + k - 1 # addr[f] + 1
  <2>1. 0 \in 0 .. Block + Size[f] - 1 /\ 1 \in 0 .. Block + Size[f] - 1
        /\ Block + k - 1 \in 0 .. Block + Size[g] - 1
        /\ Block + k - 1 # 0 /\ Block + k - 1 # 1
        /\ DataFrom(g) + k - 1 = addr[g] + (Block + k - 1)
        /\ addr[f] + 0 = addr[f]
    BY <1>1 DEF DataFrom
  <2> QED BY <2>1, FilesApart
<1>5. ASSUME NEW f \in F, NEW g \in F, NEW k \in 1 .. Size[f],
             DataFrom(f) + k - 1 - DataFrom(g) \in 0 .. Size[g] - 1
      PROVE  f = g /\ DataFrom(f) + k - 1 - DataFrom(g) + 1 = k
  <2> DEFINE e == DataFrom(f) + k - 1 - DataFrom(g)
  <2>1. /\ Block + k - 1 \in 0 .. Block + Size[f] - 1
        /\ Block + e \in 0 .. Block + Size[g] - 1
        /\ addr[f] + (Block + k - 1) = addr[g] + (Block + e)
    BY <1>1, <1>5 DEF DataFrom
  <2>2. f = g
    BY <2>1, FilesApart
  <2> QED BY <1>1, <2>2 DEF DataFrom
<1>6. ASSUME NEW f \in F PROVE BootCell(addr[f]) = Name(f)
  <2>1. IsName(addr[f]) /\ (CHOOSE g \in F : addr[f] = addr[g]) = f
    BY <1>2
  <2>2. ~IsSize(addr[f])
    BY <1>3
  <2>3. ~IsData(addr[f])
    <3> SUFFICES ASSUME NEW g \in F, addr[f] - DataFrom(g) \in 0 .. Size[g] - 1
                 PROVE  FALSE
      OBVIOUS
    <3> DEFINE k == addr[f] - DataFrom(g) + 1
    <3>1. k \in 1 .. Size[g] /\ DataFrom(g) + k - 1 = addr[f]
      BY <1>1 DEF DataFrom
    <3> QED BY <1>4, <3>1
  <2> QED BY <2>1, <2>2, <2>3 DEF BootCell
<1>7. ASSUME NEW f \in F PROVE BootCell(addr[f] + 1) = <<"size", f>>
  <2>1. IsSize(addr[f] + 1) /\ (CHOOSE g \in F : addr[f] + 1 = addr[g] + 1) = f
    <3>1. \A g \in F : addr[f] + 1 = addr[g] + 1 => addr[f] = addr[g]
      BY <1>1
    <3> QED BY <1>2, <3>1
  <2>2. ~IsName(addr[f] + 1)
    BY <1>3
  <2>3. ASSUME NEW g \in F, (addr[f] + 1) - DataFrom(g) \in 0 .. Size[g] - 1
        PROVE  FALSE
    <3> DEFINE k == (addr[f] + 1) - DataFrom(g) + 1
    <3>1. k \in 1 .. Size[g] /\ DataFrom(g) + k - 1 = addr[f] + 1
      BY <1>1, <2>3 DEF DataFrom
    <3> QED BY <1>4, <3>1
  <2>4. ~IsData(addr[f] + 1)
    BY <2>3
  <2> QED BY <2>1, <2>2, <2>4 DEF BootCell
<1>8. ASSUME NEW f \in F, NEW k \in 1 .. Size[f]
      PROVE  BootCell(DataFrom(f) + k - 1) = <<"data", f, k>>
  <2> DEFINE a == DataFrom(f) + k - 1
  <2>1. ~IsName(a) /\ ~IsSize(a)
    BY <1>4
  <2>2. a - DataFrom(f) \in 0 .. Size[f] - 1 /\ a - DataFrom(f) + 1 = k
    BY <1>1 DEF DataFrom
  <2>3. (CHOOSE g \in F : a - DataFrom(g) \in 0 .. Size[g] - 1) = f
    BY <1>5, <2>2
  <2> QED BY <2>1, <2>2, <2>3 DEF BootCell
<1>9. ASSUME NEW a \in Nat
      PROVE  \/ BootCell(a) = Zero
             \/ \E f \in Files : \/ BootCell(a) = Name(f) \/ BootCell(a) = <<"size", f>>
                                \/ \E k : BootCell(a) = <<"data", f, k>>
  <2>1. CASE IsName(a)
    BY <1>6, <2>1
  <2>2. CASE IsSize(a)
    BY <1>7, <2>2
  <2>3. CASE IsData(a)
    <3>1. PICK f \in F : a - DataFrom(f) \in 0 .. Size[f] - 1
      BY <2>3
    <3>2. a - DataFrom(f) + 1 \in 1 .. Size[f]
          /\ a = DataFrom(f) + (a - DataFrom(f) + 1) - 1
      BY <1>1, <3>1 DEF DataFrom
    <3>3. BootCell(a) = <<"data", f, a - DataFrom(f) + 1>>
      BY <1>8, <3>2
    <3> QED BY <3>3
  <2>4. CASE ~IsName(a) /\ ~IsSize(a) /\ ~IsData(a)
    BY <2>4 DEF BootCell
  <2> QED BY <2>1, <2>2, <2>3, <2>4
<1> QED BY <1>6, <1>7, <1>8, <1>9

LEMMA BootWalkGoesOn ==
  ASSUME archive = Archive, NEW a \in Nat
  PROVE  SizeAt(a) \in Nat /\ a + Block + Aligned(SizeAt(a + 1)) \in Nat
         /\ a + Block + Aligned(SizeAt(a + 1)) > a
<1>1. ASSUME NEW b \in Nat PROVE SizeAt(b) \in Nat
  <2>1. CellAt(b) = Zero \/ CellAt(b) = BootCell(b)
    BY DEF CellAt, Archive
  <2>2. CASE CellAt(b) = Zero
    BY <2>2 DEF SizeAt
  <2>3. CASE CellAt(b) # Zero /\ CellAt(b)[1] # "size"
    BY <2>3, TarfsAssumption DEF SizeAt
  <2>4. CASE CellAt(b) # Zero /\ CellAt(b)[1] = "size"
    <3>1. PICK f \in Files : \/ CellAt(b) = Name(f) \/ CellAt(b) = <<"size", f>>
                            \/ \E k : CellAt(b) = <<"data", f, k>>
      BY <2>1, <2>4, BootCells
    <3>2. CellAt(b) = <<"size", f>>
      BY <2>4, <3>1 DEF Name
    <3>3. SizeAt(b) = Size[f]
      BY <2>4, <3>2 DEF SizeAt
    <3> QED BY <3>3, TarfsAssumption
  <2> QED BY <2>2, <2>3, <2>4
<1>2. SizeAt(a + 1) \in Nat /\ SizeAt(a) \in Nat
  BY <1>1
<1>3. Aligned(SizeAt(a + 1)) \in Nat
  BY <1>2, AlignedUp
<1> QED BY <1>2, <1>3, TarfsAssumption

\* The loop of find_offset_for_file comes to an end on the archive as tar wrote it,
\* for there are zeros behind it: the recursion has a solution, built from the end.
LEMMA WalkExists ==
  ASSUME archive = Archive, NEW f \in Files \ {Root}
  PROVE  \E walk : walk = [a \in Nat |->
                            IF CellAt(a) = Zero THEN 0
                            ELSE IF CellAt(a) = Name(f) THEN a + Block
                            ELSE walk[a + Block + Aligned(SizeAt(a + 1))]]
<1> DEFINE Next1(a) == a + Block + Aligned(SizeAt(a + 1))
           Result(w, a) == IF CellAt(a) = Zero THEN 0
                           ELSE IF CellAt(a) = Name(f) THEN a + Block
                           ELSE w[Next1(a)]
           From(n) == \E w : /\ w = [a \in Nat |-> w[a]]
                             /\ \A a \in Nat : a >= n => w[a] = Result(w, a)
           Good == {n \in Nat : From(n)}
<1>1. \A a \in Nat : Next1(a) \in Nat /\ Next1(a) > a
  BY BootWalkGoesOn
<1>2. Good # {}
  <2> DEFINE w == [a \in Nat |-> 0]
             last == ArchiveEnd + Block
  <2>1. last \in Nat /\ ArchiveEnd \in Nat /\ Block \in Nat
    <3>1. 0 \in 0 .. Block + Size[f] - 1 /\ Block \in Nat
      BY TarfsAssumption
    <3> QED BY <3>1, WithinArchive
  <2> HIDE DEF last
  <2>2. \A a \in Nat : a >= last => CellAt(a) = Zero
    BY <2>1 DEF CellAt, Archive, last
  <2>3. From(last)
    <3>1. w = [a \in Nat |-> w[a]]
      OBVIOUS
    <3>2. \A a \in Nat : a >= last => w[a] = Result(w, a)
      BY <2>2
    <3> HIDE DEF w, Result
    <3> QED BY <3>1, <3>2
  <2> QED BY <2>1, <2>3
<1>3. PICK n \in Good : \A m \in Good : n <= m
  <2>1. Good \subseteq Nat
    OBVIOUS
  <2> HIDE DEF Good
  <2> QED BY <1>2, <2>1, LeastOf
<1>4. n = 0
  <2> SUFFICES ASSUME n # 0 PROVE FALSE
    OBVIOUS
  <2>1. n \in Nat /\ n - 1 \in Nat /\ From(n)
    BY <1>3
  <2>2. PICK w : /\ w = [a \in Nat |-> w[a]]
                 /\ \A a \in Nat : a >= n => w[a] = Result(w, a)
    BY <2>1
  <2> DEFINE v == [a \in Nat |-> IF a = n - 1 THEN Result(w, a) ELSE w[a]]
  <2>3. \A a \in Nat : a >= n => v[a] = w[a]
    BY <2>1
  <2>4. \A a \in Nat : a >= n - 1 => v[Next1(a)] = w[Next1(a)]
    <3>1. \A a \in Nat : a >= n - 1 => Next1(a) >= n /\ Next1(a) \in Nat
      <4> HIDE DEF Next1
      <4> QED BY <1>1, <2>1
    <3> HIDE DEF v, Next1
    <3> QED BY <2>3, <3>1
  <2>5. \A a \in Nat : a >= n - 1 => v[a] = Result(w, a)
    <3>1. v[n - 1] = Result(w, n - 1)
      BY <2>1
    <3>2. \A a \in Nat : a >= n - 1 => a = n - 1 \/ a >= n
      BY <2>1
    <3> HIDE DEF v, Result
    <3> QED BY <2>2, <2>3, <3>1, <3>2
  <2>6. \A a \in Nat : a >= n - 1 => v[a] = Result(v, a)
    <3>1. \A a \in Nat : a >= n - 1 => Result(v, a) = Result(w, a)
      <4> HIDE DEF v, Next1
      <4> QED BY <2>4
    <3> HIDE DEF v, Result
    <3> QED BY <2>5, <3>1
  <2>7. v = [a \in Nat |-> v[a]]
    OBVIOUS
  <2> HIDE DEF v, Result
  <2>8. From(n - 1)
    BY <2>6, <2>7
  <2>9. n - 1 \in Good
    <3> HIDE DEF From
    <3> QED BY <2>1, <2>8
  <2> HIDE DEF Good
  <2> QED BY <1>3, <2>1, <2>9
<1>5. PICK w : w = [a \in Nat |-> w[a]] /\ \A a \in Nat : a >= 0 => w[a] = Result(w, a)
  BY <1>3, <1>4
<1>6. w = [a \in Nat |-> Result(w, a)]
  BY <1>5
<1> QED BY <1>6

\* find_offset_for_file finds every file of the archive as tar wrote it.
LEMMA FoundAtBoot ==
  ASSUME archive = Archive, NEW f \in Files \ {Root}
  PROVE  FindOffsetForFile(f) = DataFrom(f)
<1> DEFINE walk == CHOOSE w : w = [a \in Nat |->
                     IF CellAt(a) = Zero THEN 0
                     ELSE IF CellAt(a) = Name(f) THEN a + Block
                     ELSE w[a + Block + Aligned(SizeAt(a + 1))]]
           P == Position(f)
           Bad == {i \in 2 .. P : walk[0] # walk[addr[Order[i]]]}
<1>1. walk = [a \in Nat |-> IF CellAt(a) = Zero THEN 0
                            ELSE IF CellAt(a) = Name(f) THEN a + Block
                            ELSE walk[a + Block + Aligned(SizeAt(a + 1))]]
  BY WalkExists
<1>2. FindOffsetForFile(f) = walk[0]
  BY DEF FindOffsetForFile
<1> HIDE DEF walk
<1>3. /\ P \in 2 .. Len(Order) /\ Order[P] = f /\ Len(Order) \in Nat
      /\ \A i \in 2 .. P : Order[i] \in Files \ {Root} /\ (Order[i] = f => i = P)
  BY OrderFacts
<1> HIDE DEF P
<1>4. ASSUME NEW g \in Files \ {Root}
      PROVE  CellAt(addr[g]) = Name(g) /\ SizeAt(addr[g] + 1) = Size[g] /\ addr[g] \in Nat
  <2>1. addr[g] \in Nat /\ Block \in Nat /\ Block > 1 /\ Size[g] \in Nat
    BY HeadersApart, TarfsAssumption
  <2>2. 0 \in 0 .. Block + Size[g] - 1 /\ 1 \in 0 .. Block + Size[g] - 1
        /\ addr[g] + 0 = addr[g]
    BY <2>1
  <2>3. /\ addr[g] \in 0 .. ArchiveEnd + Block - 1
        /\ addr[g] + 1 \in 0 .. ArchiveEnd + Block - 1
    BY <2>2, WithinArchive
  <2>4. CellAt(addr[g]) = BootCell(addr[g]) /\ CellAt(addr[g] + 1) = BootCell(addr[g] + 1)
    BY <2>3 DEF CellAt, Archive
  <2>5. CellAt(addr[g]) = Name(g) /\ CellAt(addr[g] + 1) = <<"size", g>>
    BY <2>4, BootCells
  <2>6. <<"size", g>> # Zero
    BY DEF Zero
  <2> QED BY <2>1, <2>5, <2>6 DEF SizeAt
<1>5. Bad = {}
  <2> SUFFICES ASSUME Bad # {} PROVE FALSE
    OBVIOUS
  <2>1. Bad \subseteq Nat
    BY <1>3
  <2> HIDE DEF Bad
  <2>2. PICK i \in Bad : \A j \in Bad : i <= j
    BY <2>1, LeastOf
  <2>3. i \in 2 .. P /\ walk[0] # walk[addr[Order[i]]]
    BY DEF Bad
  <2>4. i # 2
    BY <2>3, AddressSteps
  <2>5. i - 1 \in 2 .. P /\ i \in 3 .. Len(Order) /\ i - 1 # P /\ ~(i <= i - 1)
    BY <1>3, <2>3, <2>4
  <2>6. walk[0] = walk[addr[Order[i - 1]]]
    BY <2>2, <2>5 DEF Bad
  <2>7. PICK g : g = Order[i - 1]
    OBVIOUS
  <2>8. g \in Files \ {Root} /\ g # f
    BY <1>3, <2>5, <2>7
  <2>9. CellAt(addr[g]) # Zero /\ CellAt(addr[g]) # Name(f)
    BY <1>4, <2>8 DEF Zero, Name
  <2>10. walk[addr[g]] = walk[addr[g] + Block + Aligned(SizeAt(addr[g] + 1))]
    BY <1>1, <1>4, <2>8, <2>9
  <2>11. addr[g] + Block + Aligned(SizeAt(addr[g] + 1)) = addr[Order[i]]
    BY <1>4, <2>5, <2>7, <2>8, AddressSteps
  <2> QED BY <2>3, <2>6, <2>7, <2>10, <2>11
<1>6. walk[0] = walk[addr[f]]
  BY <1>3, <1>5
<1>7. CellAt(addr[f]) # Zero
  BY <1>4 DEF Zero, Name
<1>8. walk[addr[f]] = addr[f] + Block
  BY <1>1, <1>4, <1>7
<1> QED BY <1>2, <1>6, <1>8 DEF DataFrom

\* What fread copies before any write.
LEMMA FetchedAtBoot ==
  ASSUME Rewound, archive = Archive, NEW f \in Files \ {Root}, NEW n \in Nat,
         offset[f] \in 0 .. Size[f]
  PROVE  /\ Granted(f, n) \in Nat /\ offset[f] + Granted(f, n) <= Size[f]
         /\ Fetched(f, n) = [k \in 1 .. Granted(f, n) |-> <<"data", f, offset[f] + k>>]
<1>1. /\ offset[f] \in Nat /\ Size[f] \in Nat /\ Block \in Nat /\ addr[f] \in Nat
  BY HeadersApart, TarfsAssumption DEF Rewound, FilesTyped
<1>2. Granted(f, n) \in Nat /\ offset[f] + Granted(f, n) <= Size[f]
  BY <1>1 DEF Granted
<1>3. ASSUME NEW k \in 1 .. Granted(f, n)
      PROVE  CellAt(FindOffsetForFile(f) + offset[f] + k - 1) = <<"data", f, offset[f] + k>>
  <2>1. offset[f] + k \in 1 .. Size[f]
    BY <1>1, <1>2
  <2>2. /\ Block + (offset[f] + k) - 1 \in 0 .. Block + Size[f] - 1
        /\ FindOffsetForFile(f) + offset[f] + k - 1 = DataFrom(f) + (offset[f] + k) - 1
        /\ DataFrom(f) + (offset[f] + k) - 1 = addr[f] + (Block + (offset[f] + k) - 1)
    BY <1>1, <2>1, FoundAtBoot DEF DataFrom
  <2>3. DataFrom(f) + (offset[f] + k) - 1 \in 0 .. ArchiveEnd + Block - 1
    BY <2>2, WithinArchive
  <2>4. CellAt(DataFrom(f) + (offset[f] + k) - 1) = BootCell(DataFrom(f) + (offset[f] + k) - 1)
    BY <2>3 DEF CellAt, Archive
  <2> QED BY <2>1, <2>2, <2>4, BootCells
<1> QED BY <1>2, <1>3 DEF Fetched

\* While nothing was written, each stream is the file as far as its offset, but where
\* a seek has led outside of it.
Part(f, n) == [k \in 1 .. n |-> <<"data", f, k>>]
Streams ==
  /\ written \in Nat
  /\ written = 0 =>
       /\ archive = Archive
       /\ stream = [f \in Files |-> stream[f]]
       /\ \A f \in Known \ astray :
            offset[f] \in 0 .. Size[f] /\ stream[f] = Part(f, offset[f])

LEMMA PartsJoin ==
  ASSUME NEW f, NEW m \in Nat, NEW n \in Nat
  PROVE  Part(f, m) \o [k \in 1 .. n |-> <<"data", f, m + k>>] = Part(f, m + n)
<1> DEFINE s == Part(f, m)
           t == [k \in 1 .. n |-> <<"data", f, m + k>>]
           S == {<<"data", f, k>> : k \in Nat}
<1>1. s \in Seq(S) /\ Len(s) = m /\ \A k \in 1 .. m : s[k] = <<"data", f, k>>
  BY DEF Part
<1>2. t \in Seq(S) /\ Len(t) = n /\ \A k \in 1 .. n : t[k] = <<"data", f, m + k>>
  OBVIOUS
<1>3. Part(f, m + n) \in Seq(S) /\ Len(Part(f, m + n)) = m + n
      /\ \A k \in 1 .. m + n : Part(f, m + n)[k] = <<"data", f, k>>
  BY DEF Part
<1> HIDE DEF s, t, S
<1>4. /\ s \o t \in Seq(S) /\ Len(s \o t) = m + n
      /\ \A k \in 1 .. m + n : (s \o t)[k] = IF k <= m THEN s[k] ELSE t[k - m]
  BY <1>1, <1>2, ConcatProperties
<1>5. ASSUME NEW k \in 1 .. m + n PROVE (s \o t)[k] = Part(f, m + n)[k]
  <2>1. CASE k <= m
    <3>1. k \in 1 .. m
      BY <2>1
    <3> QED BY <1>1, <1>3, <1>4, <2>1, <3>1
  <2>2. CASE ~(k <= m)
    <3>1. k - m \in 1 .. n /\ m + (k - m) = k
      BY <2>2
    <3> QED BY <1>2, <1>3, <1>4, <2>2, <3>1
  <2> QED BY <2>1, <2>2
<1>6. s \o t = Part(f, m + n)
  BY <1>3, <1>4, <1>5, SeqEqual
<1> QED BY <1>6 DEF s, t

LEMMA PartOfData ==
  ASSUME NEW f, Size[f] \in Nat, NEW m \in Nat, m <= Size[f]
  PROVE  SubSeq(Data(f), 1, m) = Part(f, m)
<1> DEFINE n == Size[f]
           s == Data(f)
           S == {<<"data", f, k>> : k \in Nat}
<1>1. s \in Seq(S) /\ Len(s) = n /\ \A k \in 1 .. n : s[k] = <<"data", f, k>>
  BY DEF Data
<1>2. \A k \in 1 .. m : k \in 1 .. n
  OBVIOUS
<1> HIDE DEF s, S
<1>3. /\ SubSeq(s, 1, m) \in Seq(S) /\ Len(SubSeq(s, 1, m)) = m
      /\ \A k \in 1 .. m : SubSeq(s, 1, m)[k] = s[k]
  BY <1>1, SubSeqProperties
<1>4. SubSeq(s, 1, m) = [k \in 1 .. m |-> SubSeq(s, 1, m)[k]]
  BY <1>3
<1> QED BY <1>1, <1>2, <1>3, <1>4 DEF Part, s

LEMMA StreamsByStep ==
  ASSUME Rewound, Streams, [LibraryNext]_lvars
  PROVE  Streams'
<1> USE LibraryAssumption, TarfsAssumption
<1>1. /\ offset \in [Files -> Int] /\ written \in Nat
      /\ handle \in [Readers -> (Known \ {Root}) \cup {Nothing}]
      /\ Known \subseteq Files
      /\ written = 0 =>
           /\ archive = Archive
           /\ stream = [f \in Files |-> stream[f]]
           /\ \A f \in Known \ astray :
                offset[f] \in 0 .. Size[f] /\ stream[f] = Part(f, offset[f])
  BY DEF Rewound, FilesTyped, Streams, Known
\* A step that sets one offset, and the stream with it or lets the file go astray.
<1>2. ASSUME NEW f \in Known, NEW new \in Int, NEW text,
             written' = written, archive' = archive,
             offset' = [offset EXCEPT ![f] = new],
             written = 0 =>
               /\ stream' = [stream EXCEPT ![f] = text] /\ astray \ {f} \subseteq astray'
               /\ f \notin astray' => new \in 0 .. Size[f] /\ text = Part(f, new)
      PROVE  Streams'
  <2> SUFFICES ASSUME written = 0
               PROVE  /\ stream' = [g \in Files |-> stream'[g]]
                      /\ \A g \in Known \ astray' :
                           offset'[g] \in 0 .. Size[g] /\ stream'[g] = Part(g, offset'[g])
    BY <1>1, <1>2 DEF Streams
  <2>1. /\ stream' = [stream EXCEPT ![f] = text] /\ astray \ {f} \subseteq astray'
        /\ f \notin astray' => new \in 0 .. Size[f] /\ text = Part(f, new)
    BY <1>2
  <2>2. stream' = [g \in Files |-> stream'[g]]
    BY <1>1, <2>1
  <2>3. ASSUME NEW g \in Known \ astray'
        PROVE  offset'[g] \in 0 .. Size[g] /\ stream'[g] = Part(g, offset'[g])
    <3>1. CASE g = f
      BY <1>1, <1>2, <2>1, <3>1
    <3>2. CASE g # f
      <4>1. g \in Known \ astray
        BY <2>1, <3>2
      <4>2. offset'[g] = offset[g] /\ stream'[g] = stream[g]
        BY <1>1, <1>2, <2>1, <3>2
      <4> QED BY <1>1, <4>1, <4>2
    <3> QED BY <3>1, <3>2
  <2> QED BY <2>2, <2>3
<1>3. CASE UNCHANGED <<offset, stream, astray, written, archive>>
  BY <1>3 DEF Streams
<1>4. ASSUME NEW r \in Readers, NEW n \in Counts, Read(r, n) PROVE Streams'
  <2>1. PICK f : f = handle[r]
    OBVIOUS
  <2>2. /\ f \in Known \ {Root} /\ f \in Files \ {Root} /\ n \in Nat
        /\ offset' = [offset EXCEPT ![f] = offset[f] + Granted(f, n)]
        /\ written' = written /\ archive' = archive /\ astray' = astray
        /\ written = 0 =>
             stream' = IF f \in astray THEN stream
                       ELSE [stream EXCEPT ![f] = stream[f] \o Fetched(f, n)]
    <3>1. f \in Known \ {Root} /\ f \in Files \ {Root} /\ n \in Nat
      BY <1>1, <1>4, <2>1 DEF Read
    <3>2. /\ offset' = [offset EXCEPT ![f] = offset[f] + Granted(f, n)]
          /\ written' = written /\ archive' = archive /\ astray' = astray
      BY <1>4, <2>1 DEF Read, Fread
    <3>3. stream' = IF written > 0 \/ f \in astray THEN stream
                    ELSE [stream EXCEPT ![f] = stream[f] \o Fetched(f, n)]
      BY <1>4, <2>1 DEF Read
    <3>4. written = 0 => ~(written > 0)
      OBVIOUS
    <3> QED BY <3>1, <3>2, <3>3, <3>4
  <2>3. Granted(f, n) \in Int /\ offset[f] \in Int
    <3>1. offset[f] \in Int /\ Size[f] \in Nat /\ n \in Nat
      BY <1>1, <2>2
    <3> QED BY <3>1 DEF Granted
  <2>4. offset[f] + Granted(f, n) \in Int
    BY <2>3
  <2>5. CASE f \in astray
    <3>1. written = 0 => stream' = [stream EXCEPT ![f] = stream[f]]
      BY <1>1, <2>2, <2>5
    <3> QED BY <1>2, <2>2, <2>4, <2>5, <3>1
  <2>6. ASSUME written = 0, f \notin astray
        PROVE  /\ offset[f] + Granted(f, n) \in 0 .. Size[f]
               /\ stream[f] \o Fetched(f, n) = Part(f, offset[f] + Granted(f, n))
    <3>1. offset[f] \in 0 .. Size[f] /\ stream[f] = Part(f, offset[f])
      BY <1>1, <2>2, <2>6
    <3>2. /\ Granted(f, n) \in Nat /\ offset[f] + Granted(f, n) <= Size[f]
          /\ Fetched(f, n) = [k \in 1 .. Granted(f, n) |-> <<"data", f, offset[f] + k>>]
      BY <1>1, <2>2, <2>6, <3>1, FetchedAtBoot
    <3>3. PICK m \in Nat, g \in Nat : m = offset[f] /\ g = Granted(f, n)
      BY <3>1, <3>2
    <3>4. stream[f] \o Fetched(f, n) = Part(f, m) \o [k \in 1 .. g |-> <<"data", f, m + k>>]
      BY <3>1, <3>2, <3>3
    <3>5. stream[f] \o Fetched(f, n) = Part(f, m + g)
      BY <3>4, PartsJoin
    <3>6. m + g \in 0 .. Size[f]
      BY <2>2, <3>2, <3>3
    <3> QED BY <3>3, <3>5, <3>6
  <2>7. CASE f \notin astray
    BY <1>2, <2>2, <2>4, <2>6, <2>7
  <2> QED BY <2>5, <2>7
<1>5. ASSUME NEW r \in Readers, NEW n \in Counts, NEW c,
             Write(r, [k \in 1 .. n |-> c])
      PROVE  Streams'
  <2>1. written' = written + 1
    BY <1>5 DEF Write
  <2>2. \A w \in Nat : w + 1 \in Nat /\ w + 1 # 0
    OBVIOUS
  <2>3. written \in Nat
    BY <1>1
  <2>4. written' \in Nat /\ written' # 0
    BY <2>1, <2>2, <2>3
  <2> QED BY <2>4 DEF Streams
<1>6. ASSUME NEW r \in Readers, NEW n \in Counts, NEW whence \in Whences,
             Seek(r, n, whence)
      PROVE  Streams'
  <2>1. PICK f : f = handle[r]
    OBVIOUS
  <2>2. f \in Known /\ f \in Files
    BY <1>1, <1>6, <2>1 DEF Seek
  <2>3. PICK m \in Int : m = offset'[f]
    BY <2>2, RewoundByStep DEF Rewound, FilesTyped
  <2>4. offset' = [offset EXCEPT ![f] = m] /\ archive' = archive
    <3>1. PICK new : new = CASE whence = 0 -> n
                             [] whence = 1 -> offset[f] + n
                             [] whence = 2 -> Size[f] + n
                             [] OTHER -> -1
      OBVIOUS
    <3>2. offset' = [offset EXCEPT ![f] = new] /\ archive' = archive
      BY <1>6, <2>1, <3>1 DEF Seek, Fseek
    <3>3. new = m
      BY <1>1, <2>2, <2>3, <3>2
    <3> QED BY <3>2, <3>3
  <2> DEFINE within == m \in 0 .. Size[f]
             text   == IF within THEN SubSeq(Data(f), 1, m) ELSE <<>>
  <2>5. /\ written' = written
        /\ written = 0 =>
             /\ stream' = [stream EXCEPT ![f] = text]
             /\ astray' = IF within THEN astray \ {f} ELSE astray \cup {f}
    BY <1>6, <2>1, <2>3 DEF Seek
  <2>6. within => text = Part(f, m)
    BY <2>2, PartOfData
  <2> HIDE DEF within, text
  <2>7. written = 0 =>
          /\ stream' = [stream EXCEPT ![f] = text] /\ astray \ {f} \subseteq astray'
          /\ f \notin astray' => within /\ text = Part(f, m)
    BY <2>5, <2>6
  <2> QED BY <1>2, <2>2, <2>4, <2>5, <2>7 DEF within
<1>7. ASSUME NEW f, Fclose(f), Ended(f), written' = written
      PROVE  Streams'
  <2>1. CASE f \in Known
    <3>1. Part(f, 0) = <<>>
      BY DEF Part
    <3>2. /\ offset' = [offset EXCEPT ![f] = 0] /\ archive' = archive
          /\ stream' = [stream EXCEPT ![f] = Part(f, 0)] /\ astray' = astray \ {f}
      BY <1>7, <2>1, <3>1 DEF Fclose, Ended
    <3>3. 0 \in 0 .. Size[f] /\ 0 \in Int
      BY <1>1, <2>1
    <3> QED BY <1>2, <1>7, <2>1, <3>2, <3>3
  <2>2. CASE f \notin Known
    <3>1. UNCHANGED <<offset, stream, archive>> /\ astray' = astray \ {f}
      BY <1>7, <2>2 DEF Fclose, Ended
    <3>2. Known \ astray' = Known \ astray
      BY <2>2, <3>1
    <3> QED BY <1>7, <3>1, <3>2 DEF Streams
  <2> QED BY <2>1, <2>2
<1>8. ASSUME NEW r \in Readers, Close(r) PROVE Streams'
  BY <1>7, <1>8 DEF Close
<1>9. CASE CloseDir
  BY <1>3, <1>7, <1>9 DEF CloseDir, tarfs
<1>10. ASSUME NEW r \in Readers, NEW f, Open(r, f) \/ Leave(r) PROVE Streams'
  BY <1>3, <1>10 DEF Open, Leave, tarfs
<1>11. ASSUME NEW f, ChangeDir(f) PROVE Streams'
  BY <1>3, <1>11 DEF ChangeDir, Chdir, readers
<1>12. CASE OpenDir \/ ReadDir
  BY <1>3, <1>12 DEF OpenDir, ReadDir, tarfs, readers
<1>13. ASSUME NEW x, Take(x) \/ Give(x) PROVE Streams'
  BY <1>3, <1>13 DEF Take, Give, tarfs, readers
<1>14. CASE UNCHANGED lvars
  BY <1>3, <1>14 DEF lvars, tarfs, readers
<1> QED
  BY ZenonT(40), <1>4, <1>5, <1>6, <1>8, <1>9, <1>10, <1>11, <1>12, <1>13, <1>14
  DEF LibraryNext, ShowFiles

\* Programs that read one file in turn, through the one offset of its entry, get its
\* bytes once and in order, whatever the archive and the counts, until somebody writes;
\* a seek outside of the file spoils it only until the next seek inside or the next
\* close (fread, fseek, fclose, find_offset_for_file).
THEOREM StreamsInOrder == LibrarySpec => []StreamInOrder
<1>1. LibraryInit => Streams
  <2> SUFFICES ASSUME LibraryInit PROVE Streams
    OBVIOUS
  <2>1. /\ written = 0 /\ archive = Archive
        /\ stream = [f \in Files |-> <<>>] /\ offset = [f \in Files |-> 0]
    BY DEF LibraryInit, TarfsInit
  <2>2. \A f \in Known : f \in Files /\ 0 <= Size[f]
    BY TarfsAssumption DEF Known
  <2>3. \A f : Part(f, 0) = <<>>
    BY DEF Part
  <2> QED BY <2>1, <2>2, <2>3 DEF Streams
<1>2. Rewound /\ Streams /\ [LibraryNext]_lvars => (Rewound /\ Streams)'
  BY RewoundByStep, StreamsByStep
<1>3. Streams => StreamInOrder
  BY DEF Streams, StreamInOrder, Part
<1> QED BY <1>1, <1>2, <1>3, InitRewound, PTL DEF LibrarySpec

=============================================================================
