------------------------- MODULE AddressSpaceProofs -------------------------
(***************************************************************************)
(* Theorems about AddressSpace, for every number of frames, heap pages and *)
(* stack pages.  First who maps which frame; then the vm_area_structs:     *)
(* that they are lists, what each operation makes of them, and so what     *)
(* areas the live tasks have.  What the first part needs of                *)
(* free_task_mm_struct is only that it gives back frames of its own task,  *)
(* and those of a child's stack only.                                      *)
(***************************************************************************)
EXTENDS ProcessProofs, AddressSpace, FiniteSetTheorems

-----------------------------------------------------------------------------
(* Counting. *)

LEMMA CountableSubset ==
  ASSUME NEW n \in Nat, NEW S \in SUBSET (1 .. n)
  PROVE  S \subseteq Nat /\ IsFiniteSet(S) /\ Cardinality(S) \in Nat
<1>1. IsFiniteSet(1 .. n)
  BY FS_Interval
<1>2. IsFiniteSet(S)
  BY <1>1, FS_Subset
<1> QED BY <1>2, FS_CardinalityType

\* The n-th element of a finite set of numbers: the frame that n calls of
\* mm_phy_alloc_page come to, the place of a page among those of the stack.
LEMMA RankIsBijective ==
  ASSUME NEW S, S \subseteq Nat, IsFiniteSet(S)
  PROVE  LET rank == [f \in S |-> Cardinality({g \in S : g < f})]
         IN  /\ rank \in Injection(S, 0 .. Cardinality(S) - 1)
             /\ rank \in Surjection(S, 0 .. Cardinality(S) - 1)
<1> DEFINE below(f) == {g \in S : g < f}
           rank == [f \in S |-> Cardinality(below(f))]
           N == Cardinality(S)
<1>1. N \in Nat
  BY FS_CardinalityType
<1>2. \A f \in S : /\ IsFiniteSet(below(f))
                   /\ Cardinality(below(f)) \in Nat
                   /\ Cardinality(below(f)) < N
  <2> SUFFICES ASSUME NEW f \in S
               PROVE  /\ IsFiniteSet(below(f))
                      /\ Cardinality(below(f)) \in Nat
                      /\ Cardinality(below(f)) < N
    OBVIOUS
  <2>1. below(f) \in SUBSET S /\ f \notin below(f)
    OBVIOUS
  <2> HIDE DEF below
  <2>2. /\ IsFiniteSet(below(f))
        /\ Cardinality(below(f)) <= N
        /\ N = Cardinality(below(f)) => S = below(f)
    BY <2>1, FS_Subset
  <2>3. Cardinality(below(f)) \in Nat
    BY <2>2, FS_CardinalityType
  <2> QED BY <1>1, <2>1, <2>2, <2>3
<1>3. ASSUME NEW f \in S, NEW g \in S, f < g
      PROVE  Cardinality(below(f)) < Cardinality(below(g))
  <2>0. f \in Nat /\ g \in Nat /\ \A h \in S : h \in Nat
    OBVIOUS
  <2>1. below(f) \in SUBSET below(g) /\ f \in below(g) /\ f \notin below(f)
    <3>1. \A h \in S : h < f => h < g
      BY <1>3, <2>0
    <3>2. ~(f < f)
      BY <2>0
    <3> QED BY <1>3, <3>1, <3>2
  <2>2. IsFiniteSet(below(g)) /\ Cardinality(below(g)) \in Nat
        /\ Cardinality(below(f)) \in Nat
    BY <1>2
  <2> HIDE DEF below
  <2>3. /\ Cardinality(below(f)) <= Cardinality(below(g))
        /\ Cardinality(below(g)) = Cardinality(below(f)) => below(g) = below(f)
    BY <2>1, <2>2, FS_Subset
  <2> QED BY <2>1, <2>2, <2>3
<1>4. rank \in [S -> 0 .. N - 1]
  BY <1>1, <1>2
<1>5. ASSUME NEW f \in S, NEW g \in S, rank[f] = rank[g]
      PROVE  f = g
  <2>1. Cardinality(below(f)) = Cardinality(below(g))
        /\ Cardinality(below(f)) \in Nat
    BY <1>2, <1>5
  <2>2. f \in Nat /\ g \in Nat
    OBVIOUS
  <2> HIDE DEF below
  <2>3. ~(f < g) /\ ~(g < f)
    BY <1>3, <2>1
  <2> QED BY <2>2, <2>3
<1> HIDE DEF rank
<1>6. rank \in Injection(S, 0 .. N - 1)
  BY <1>4, <1>5 DEF Injection, IsInjective
<1>7. IsFiniteSet(0 .. N - 1) /\ Cardinality(0 .. N - 1) = N
  <2> DEFINE b == N - 1
  <2>1. 0 \in Int /\ b \in Int
    BY <1>1
  <2> HIDE DEF b
  <2>2. IsFiniteSet(0 .. b) /\ Cardinality(0 .. b) = IF 0 > b THEN 0 ELSE b - 0 + 1
    BY <2>1, FS_Interval
  <2> QED BY <1>1, <2>2 DEF b
<1>8. rank \in Surjection(S, 0 .. N - 1)
  BY <1>6, <1>7, FS_Injection
<1> QED BY <1>6, <1>8 DEF rank

\* The frames that n calls of the allocator return are n free frames.
LEMMA NthFree ==
  ASSUME free \subseteq 1 .. Frames
  PROVE  /\ IsFiniteSet(free) /\ Cardinality(free) \in Nat
         /\ \A n \in 1 .. Cardinality(free) : Nth(n) \in free
         /\ \A n, m \in 1 .. Cardinality(free) : Nth(n) = Nth(m) => n = m
<1> DEFINE N == Cardinality(free)
           rank == [f \in free |-> Cardinality({g \in free : g < f})]
<1>1. free \subseteq Nat /\ IsFiniteSet(free) /\ N \in Nat
  BY AddressSpaceAssumption, CountableSubset
<1>2. N \in Nat
  BY <1>1
<1>3. rank \in Surjection(free, 0 .. N - 1)
  BY <1>1, RankIsBijective
<1>4. ASSUME NEW n \in 1 .. N
      PROVE  Nth(n) \in free /\ rank[Nth(n)] = n - 1
  <2>1. n - 1 \in 0 .. N - 1
    BY <1>2
  <2>2. \E f \in free : rank[f] = n - 1
    BY <1>3, <2>1 DEF Surjection
  <2>3. \E f \in free : Cardinality({g \in free : g < f}) = n - 1
    BY <2>2
  <2>4. Nth(n) \in free /\ Cardinality({g \in free : g < Nth(n)}) = n - 1
    BY <2>3 DEF Nth
  <2> QED BY <2>4
<1> HIDE DEF rank
<1>5. ASSUME NEW n \in 1 .. N, NEW m \in 1 .. N, Nth(n) = Nth(m)
      PROVE  n = m
  <2>1. n - 1 = m - 1
    BY <1>4, <1>5
  <2> QED BY <1>2, <2>1
<1> QED BY <1>1, <1>2, <1>4, <1>5

\* The pages of the stack that fork copies are numbered without a gap.
LEMMA StackRank ==
  ASSUME NEW t
  PROVE  LET place(i) == Cardinality({j \in InStack(t) : j <= i})
         IN  /\ IsFiniteSet(InStack(t)) /\ Cardinality(InStack(t)) \in Nat
             /\ \A i \in InStack(t) : place(i) \in 1 .. Cardinality(InStack(t))
             /\ \A i, j \in InStack(t) : place(i) = place(j) => i = j
<1> DEFINE S == InStack(t)
           N == Cardinality(S)
           place(i) == Cardinality({j \in S : j <= i})
           rank == [f \in S |-> Cardinality({g \in S : g < f})]
<1>1. S \subseteq Nat /\ IsFiniteSet(S) /\ N \in Nat
  <2>1. S \in SUBSET (1 .. StackPages)
    BY DEF InStack
  <2> HIDE DEF S
  <2> QED BY <2>1, AddressSpaceAssumption, CountableSubset
<1>2. N \in Nat
  BY <1>1
<1> HIDE DEF S
<1>3. rank \in Injection(S, 0 .. N - 1)
  BY <1>1, RankIsBijective
<1>4. ASSUME NEW i \in S PROVE place(i) = rank[i] + 1 /\ rank[i] \in 0 .. N - 1
  <2> DEFINE below == {j \in S : j < i}
  <2>1. i \in Nat /\ \A j \in S : j <= i <=> j < i \/ j = i
    BY <1>1
  <2>2. {j \in S : j <= i} = below \cup {i} /\ i \notin below
    <3>1. ~(i < i)
      BY <2>1
    <3>2. i \notin below
      BY <3>1
    <3>3. \A j : j \in S /\ j <= i <=> j \in below \cup {i}
      BY <2>1
    <3> HIDE DEF below
    <3> QED BY <3>2, <3>3
  <2>3. IsFiniteSet(below)
    BY <1>1, FS_Subset
  <2>4. rank[i] = Cardinality(below)
    OBVIOUS
  <2>5. rank[i] \in 0 .. N - 1
    BY <1>3 DEF Injection
  <2> HIDE DEF below
  <2> QED BY <2>2, <2>3, <2>4, <2>5, FS_AddElement
<1>5. ASSUME NEW i \in S, NEW j \in S, place(i) = place(j) PROVE i = j
  <2>1. rank[i] = rank[j]
    <3> DEFINE a == rank[i]  b == rank[j]
    <3>1. place(i) = a + 1 /\ place(j) = b + 1 /\ a \in Nat /\ b \in Nat
      BY <1>2, <1>4
    <3>2. a + 1 = b + 1
      BY <1>5, <3>1
    <3> HIDE DEF a, b
    <3>3. a = b
      BY <3>1, <3>2
    <3> QED BY <3>3 DEF a, b
  <2> QED BY <1>3, <2>1 DEF Injection, IsInjective
<1>6. ASSUME NEW i \in S PROVE place(i) \in 1 .. N
  <2> DEFINE a == rank[i]
  <2>1. place(i) = a + 1 /\ a \in 0 .. N - 1
    BY <1>4
  <2> HIDE DEF a
  <2>2. a + 1 \in 1 .. N
    BY <1>2, <2>1
  <2> QED BY <2>1, <2>2
<1> QED BY <1>1, <1>2, <1>5, <1>6 DEF S

\* The task list is finite, and so is every selection from it.
LEMMA SomeListed ==
  ASSUME taskList \in Seq(Tasks), NEW S \in SUBSET Listed
  PROVE  IsFiniteSet(S) /\ Cardinality(S) \in Nat
<1>1. Len(taskList) \in Nat /\ DOMAIN taskList = 1 .. Len(taskList)
  BY LenProperties
<1>2. taskList \in Surjection(1 .. Len(taskList), Listed)
  <2>1. taskList \in [1 .. Len(taskList) -> Listed]
    BY <1>1, LenProperties DEF Listed, Range
  <2> QED BY <1>1, <2>1 DEF Surjection, Listed, Range
<1>3. IsFiniteSet(1 .. Len(taskList))
  BY <1>1, FS_Interval
<1>4. IsFiniteSet(Listed)
  BY <1>2, <1>3, FS_Surjection
<1> QED BY <1>4, FS_Subset, FS_CardinalityType

-----------------------------------------------------------------------------
(* The inductive invariant of the memory. *)

MemoryTyped ==
  /\ map \in [Tasks -> [Page -> -1 .. Frames]]
  /\ free \subseteq 1 .. Frames
  /\ count \in [1 .. Frames -> Nat]
  /\ image \in [Tasks -> Nat]

\* SharedByForkOnly, and no task maps a frame at two pages.
SharedByCopy ==
  \A t, u \in Listed : \A p, q \in Page :
    map[t][p] = map[u][q] /\ map[t][p] \notin {Absent, 0}
      => p = q /\ (t = u \/ (p \notin Stack /\ image[t] = image[u]))

MInv ==
  /\ MemoryTyped
  /\ SharedByCopy
  /\ NotFreedWhileMapped
  /\ CountCoversTasks

\* The caller of kill, which the kernel's page table makes fault, is not the
\* shell of the boot: its fault gives back its stack only.
FaulterHasParent ==
  current \in Listed /\ cr3 = NULL => parent[current] # NULL

AInv == IInv /\ MInv /\ FaulterHasParent

Mappers(f) == {t \in Listed : f \in FramesOf(t)}

LEMMA InFramesOf ==
  ASSUME NEW t \in Tasks, MemoryTyped, NEW f
  PROVE  f \in FramesOf(t) <=> f \notin {Absent, 0} /\ \E p \in Page : map[t][p] = f
BY DEF FramesOf, Range, MemoryTyped

LEMMA CountTyped ==
  MemoryTyped => \A f \in 1 .. Frames : count[f] \in Nat /\ count[f] + 1 \in Nat
<1> SUFFICES ASSUME MemoryTyped, NEW f \in 1 .. Frames
             PROVE  count[f] \in Nat /\ count[f] + 1 \in Nat
  OBVIOUS
<1>1. count[f] \in Nat
  BY DEF MemoryTyped
<1> QED BY <1>1

LEMMA CountGrows ==
  ASSUME taskList \in Seq(Tasks), CountCoversTasks, MemoryTyped,
         NEW f \in 1 .. Frames, NEW x, NEW S,
         \/ S \in SUBSET Mappers(f)
         \/ S = Mappers(f) \cup {x} /\ count'[f] = count[f] + 1,
         count'[f] \in {count[f], count[f] + 1}
  PROVE  Cardinality(S) <= count'[f]
<1>1. Mappers(f) \in SUBSET Listed
  BY DEF Mappers
<1>2. IsFiniteSet(Mappers(f)) /\ Cardinality(Mappers(f)) \in Nat
  BY <1>1, SomeListed
<1>3. Cardinality(Mappers(f)) <= count[f] /\ count[f] \in Nat
  BY DEF CountCoversTasks, Mappers, MemoryTyped
<1>4. CASE S \in SUBSET Mappers(f)
  <2>1. Cardinality(S) <= Cardinality(Mappers(f)) /\ Cardinality(S) \in Nat
    BY <1>2, <1>4, FS_Subset, FS_CardinalityType
  <2> QED BY <1>2, <1>3, <2>1
<1>5. CASE S = Mappers(f) \cup {x} /\ count'[f] = count[f] + 1
  <2>1. Cardinality(S) \in {Cardinality(Mappers(f)), Cardinality(Mappers(f)) + 1}
    BY <1>2, <1>5, FS_AddElement
  <2> QED BY <1>2, <1>3, <1>5, <2>1
<1> QED BY <1>4, <1>5

\* The types after a step that maps a whole address space anew.
LEMMA CreatedTyped ==
  ASSUME MemoryTyped, NEW x \in Tasks, NEW pages \in [Page -> -1 .. Frames],
         NEW loaded \in Nat, NEW new, NEW counted,
         map' = [map EXCEPT ![x] = pages],
         free' = free \ new,
         count' = [f \in 1 .. Frames |->
                     IF f \in counted THEN count[f] + 1 ELSE count[f]],
         image' = [image EXCEPT ![x] = loaded]
  PROVE  /\ MemoryTyped'
         /\ map'[x] = pages /\ image'[x] = loaded
         /\ \A u \in Tasks \ {x} : map'[u] = map[u] /\ image'[u] = image[u]
         /\ \A f \in 1 .. Frames :
              count'[f] = IF f \in counted THEN count[f] + 1 ELSE count[f]
<1>1. map' \in [Tasks -> [Page -> -1 .. Frames]]
  BY DEF MemoryTyped
<1>2. free' \subseteq 1 .. Frames
  BY DEF MemoryTyped
<1>3. count' \in [1 .. Frames -> Nat]
  BY CountTyped
<1>4. image' \in [Tasks -> Nat]
  BY DEF MemoryTyped
<1>5. MemoryTyped'
  BY <1>1, <1>2, <1>3, <1>4 DEF MemoryTyped
<1>6. /\ map'[x] = pages /\ image'[x] = loaded
      /\ \A u \in Tasks \ {x} : map'[u] = map[u] /\ image'[u] = image[u]
  BY DEF MemoryTyped
<1> QED BY <1>5, <1>6

\* A step that touches none of it.
LEMMA SameMemory ==
  ASSUME MInv, Listed' = Listed, UNCHANGED <<map, free, count, image>>
  PROVE  MInv'
BY DEF MInv, MemoryTyped, SharedByCopy, NotFreedWhileMapped, CountCoversTasks,
       FramesOf

LEMMA SameFrame ==
  ASSUME SharedByCopy, NEW t \in Listed, NEW u \in Listed,
         NEW p \in Page, NEW q \in Page,
         map[t][p] = map[u][q], map[t][p] \notin {Absent, 0}
  PROVE  p = q /\ (t = u \/ (p \notin Stack /\ image[t] = image[u]))
BY DEF SharedByCopy

\* fork and execve: the task x appears, with frames that were free, each at one
\* page, and frames of t at the pages where t has them, off the stack.
Appears(t, x, new, shared, pages) ==
  /\ new \subseteq free
  /\ pages \in [Page -> -1 .. Frames]
  /\ \A p \in Page :
       \/ pages[p] \in {Absent, 0} \cup new
       \/ /\ p \notin Stack /\ pages[p] = map[t][p]
          /\ pages[p] \in shared /\ image'[x] = image[t]
  /\ \A p, q \in Page : pages[p] = pages[q] /\ pages[p] \in new => p = q
  /\ map'[x] = pages /\ \A u \in Listed : map'[u] = map[u]
  /\ free' = free \ new
  /\ \A f \in 1 .. Frames :
       count'[f] = IF f \in new \cup shared THEN count[f] + 1 ELSE count[f]
  /\ \A u \in Listed : image'[u] = image[u]

LEMMA CreatedMemory ==
  ASSUME MInv, MemoryTyped', taskList \in Seq(Tasks),
         NEW t \in Listed, NEW x \in Tasks, x \notin Listed,
         Listed' = Listed \cup {x},
         NEW new, NEW shared, NEW pages, Appears(t, x, new, shared, pages)
  PROVE  MInv'
<1> USE DEF Appears
<1> USE DEF MInv
<1>1. Listed \subseteq Tasks
  BY InRange DEF Listed
<1>2. /\ map'[x] = pages
      /\ \A u \in Listed : map'[u] = map[u] /\ FramesOf(u)' = FramesOf(u)
  BY DEF FramesOf
<1>3. 0 \notin new /\ Absent \notin new /\ new \subseteq 1 .. Frames
  BY DEF MemoryTyped, NotFreedWhileMapped, Absent
<1>4. ASSUME NEW u \in Listed, NEW p \in Page PROVE map[u][p] \notin new
  <2> SUFFICES ASSUME map[u][p] \in new PROVE FALSE
    OBVIOUS
  <2>0. free \subseteq 1 .. Frames /\ new \subseteq free
    BY DEF MemoryTyped
  <2>1. map[u][p] \notin {Absent, 0} /\ map[u][p] \in free
    BY <1>3, <2>0
  <2>2. map[u][p] \in FramesOf(u)
    BY <1>1, <2>1, InFramesOf
  <2> QED BY <2>1, <2>2 DEF NotFreedWhileMapped
<1>5. MemoryTyped'
  OBVIOUS
<1>6. SharedByCopy'
  <2>1. ASSUME NEW u \in Listed, NEW p \in Page, NEW q \in Page,
               pages[p] = map[u][q], pages[p] \notin {Absent, 0}
        PROVE  p = q /\ p \notin Stack /\ image'[x] = image'[u]
    <3>1. pages[p] \notin new
      BY <1>4, <2>1
    <3>2. p \notin Stack /\ pages[p] = map[t][p] /\ image'[x] = image[t]
      BY <2>1, <3>1
    <3>3. map[t][p] = map[u][q] /\ map[t][p] \notin {Absent, 0}
      BY <2>1, <3>2
    <3>4. p = q /\ (t = u \/ image[t] = image[u])
      BY <3>3, SameFrame
    <3> QED BY <3>2, <3>4
  <2>2. ASSUME NEW p \in Page, NEW q \in Page,
               pages[p] = pages[q], pages[p] \notin {Absent, 0}
        PROVE  p = q
    <3>1. CASE pages[p] \in new
      BY <2>2, <3>1
    <3>2. CASE pages[p] \notin new
      <4>1. pages[p] = map[t][p] /\ pages[q] = map[t][q]
        BY <2>2, <3>2
      <4>2. map[t][p] = map[t][q] /\ map[t][p] \notin {Absent, 0}
        BY <2>2, <4>1
      <4> QED BY <4>2, SameFrame
    <3> QED BY <3>1, <3>2
  <2>3. ASSUME NEW u \in Listed', NEW v \in Listed', NEW p \in Page, NEW q \in Page,
               map'[u][p] = map'[v][q], map'[u][p] \notin {Absent, 0}
        PROVE  p = q /\ (u = v \/ (p \notin Stack /\ image'[u] = image'[v]))
    <3>1. CASE u = x /\ v = x
      BY <1>2, <2>2, <2>3, <3>1
    <3>2. CASE u = x /\ v \in Listed
      BY <1>2, <2>1, <2>3, <3>2
    <3>3. CASE u \in Listed /\ v = x
      <4>1. pages[q] = map[u][p] /\ pages[q] \notin {Absent, 0}
        BY <1>2, <2>3, <3>3
      <4> QED BY <2>1, <3>3, <4>1
    <3>4. CASE u \in Listed /\ v \in Listed
      <4>1. map[u][p] = map[v][q] /\ map[u][p] \notin {Absent, 0}
        BY <1>2, <2>3, <3>4
      <4> QED BY <3>4, <4>1 DEF SharedByCopy
    <3> QED BY <3>1, <3>2, <3>3, <3>4
  <2> QED BY <2>3 DEF SharedByCopy
<1>7. ASSUME NEW f \in FramesOf(x)'
      PROVE  /\ f \notin {Absent, 0} /\ f \in 1 .. Frames
             /\ f \in new \/ (f \in shared /\ f \in FramesOf(t))
  <2>1. f \notin {Absent, 0} /\ \E p \in Page : pages[p] = f
    BY <1>2 DEF FramesOf, Range
  <2>2. PICK p \in Page : pages[p] = f
    BY <2>1
  <2>3. f \in 1 .. Frames
    BY <2>1, <2>2, AddressSpaceAssumption DEF Absent
  <2>4. f \in new \/ (f \in shared /\ map[t][p] = f)
    BY <2>1, <2>2
  <2> QED BY <1>1, <2>1, <2>3, <2>4, InFramesOf
<1>8. NotFreedWhileMapped'
  <2>1. FramesOf(x)' \cap free' = {}
    BY <1>7 DEF NotFreedWhileMapped
  <2> QED BY <1>2, <2>1 DEF NotFreedWhileMapped
<1>9. CountCoversTasks'
  <2> SUFFICES ASSUME NEW f \in 1 .. Frames
               PROVE  Cardinality({u \in Listed' : f \in FramesOf(u)'}) <= count'[f]
    BY DEF CountCoversTasks
  <2> DEFINE S == {u \in Listed' : f \in FramesOf(u)'}
  <2>1. count[f] \in Nat
    BY DEF MemoryTyped
  <2>2. count'[f] \in {count[f], count[f] + 1}
    OBVIOUS
  <2>3. CASE f \in FramesOf(x)'
    <3>1. S = Mappers(f) \cup {x}
      BY <1>2, <2>3 DEF Mappers
    <3>2. f \in new \cup shared
      BY <1>7, <2>3
    <3>3. count'[f] = count[f] + 1
      BY <3>2
    <3> HIDE DEF S
    <3> QED BY <2>2, <3>1, <3>3, CountGrows DEF S
  <2>4. CASE f \notin FramesOf(x)'
    <3>1. S \in SUBSET Mappers(f)
      BY <1>2, <2>4 DEF Mappers
    <3> HIDE DEF S
    <3> QED BY <2>2, <3>1, CountGrows DEF S
  <2> QED BY <2>3, <2>4
<1> QED BY <1>5, <1>6, <1>8, <1>9

\* A page fault: the page p of t gets a frame that was free.
LEMMA FaultMemory ==
  ASSUME MInv, taskList \in Seq(Tasks),
         NEW t \in Listed, NEW p \in Page, NEW f \in free,
         Listed' = Listed,
         map' = [map EXCEPT ![t][p] = f],
         free' = free \ {f},
         count' = [g \in 1 .. Frames |-> IF g \in {f} THEN count[g] + 1 ELSE count[g]],
         image' = image
  PROVE  MInv'
<1> USE DEF MInv
<1>1. Listed \subseteq Tasks
  BY InRange DEF Listed
<1>2. /\ f \in 1 .. Frames /\ f \notin {Absent, 0}
      /\ \A u \in Listed : \A q \in Page : map[u][q] # f
  <2>1. f \in 1 .. Frames /\ f # 0
    BY DEF MemoryTyped, NotFreedWhileMapped
  <2>2. f # Absent
    BY <2>1, AddressSpaceAssumption DEF Absent
  <2> QED BY <1>1, <2>1, <2>2, InFramesOf DEF NotFreedWhileMapped
<1>3. \A u \in Listed : \A q \in Page :
        map'[u][q] = IF u = t /\ q = p THEN f ELSE map[u][q]
  BY <1>1 DEF MemoryTyped
<1>4. MemoryTyped'
  <2>1. map' \in [Tasks -> [Page -> -1 .. Frames]]
    BY <1>1, <1>2 DEF MemoryTyped
  <2>2. free' \subseteq 1 .. Frames
    BY DEF MemoryTyped
  <2>3. count' \in [1 .. Frames -> Nat]
    BY CountTyped
  <2> QED BY <2>1, <2>2, <2>3 DEF MemoryTyped
<1>5. SharedByCopy'
  <2>1. ASSUME NEW u \in Listed, NEW v \in Listed, NEW q \in Page, NEW r \in Page,
               map'[u][q] = map'[v][r], map'[u][q] \notin {Absent, 0}
        PROVE  q = r /\ (u = v \/ (q \notin Stack /\ image[u] = image[v]))
    <3>1. CASE u = t /\ q = p
      BY <1>2, <1>3, <2>1, <3>1
    <3>2. CASE ~(u = t /\ q = p)
      <4>1. map[u][q] = map[v][r] /\ map[u][q] \notin {Absent, 0}
        BY <1>2, <1>3, <2>1, <3>2
      <4> QED BY <4>1, SameFrame
    <3> QED BY <3>1, <3>2
  <2> QED BY <2>1 DEF SharedByCopy
<1>6. ASSUME NEW u \in Listed, NEW g \in FramesOf(u)'
      PROVE  \/ g = f /\ u = t
             \/ g # f /\ g \in FramesOf(u)
  <2>1. g \notin {Absent, 0} /\ \E q \in Page : map'[u][q] = g
    BY <1>1, <1>4 DEF FramesOf, Range, MemoryTyped
  <2>2. PICK q \in Page : map'[u][q] = g
    BY <2>1
  <2>3. CASE u = t /\ q = p
    BY <1>3, <2>2, <2>3
  <2>4. CASE ~(u = t /\ q = p)
    <3>1. map[u][q] = g /\ g # f
      BY <1>2, <1>3, <2>2, <2>4
    <3> QED BY <1>1, <2>1, <3>1, InFramesOf
  <2> QED BY <2>3, <2>4
<1>7. NotFreedWhileMapped'
  BY <1>6 DEF NotFreedWhileMapped
<1>8. CountCoversTasks'
  <2> SUFFICES ASSUME NEW g \in 1 .. Frames
               PROVE  Cardinality({u \in Listed' : g \in FramesOf(u)'}) <= count'[g]
    BY DEF CountCoversTasks
  <2> DEFINE S == {u \in Listed' : g \in FramesOf(u)'}
  <2>1. count'[g] \in {count[g], count[g] + 1}
    OBVIOUS
  <2>2. CASE g = f
    <3>1. count'[g] = count[g] + 1
      BY <2>2
    <3>2. Mappers(g) = {}
      BY <1>1, <1>2, <2>2, InFramesOf DEF Mappers
    <3>3. S \in SUBSET Mappers(g) \/ S = Mappers(g) \cup {t}
      BY <1>6, <2>2, <3>2
    <3> HIDE DEF S
    <3> QED BY <2>1, <3>1, <3>3, CountGrows DEF S
  <2>3. CASE g # f
    <3>1. S \in SUBSET Mappers(g)
      BY <1>6, <2>3 DEF Mappers
    <3> HIDE DEF S
    <3> QED BY <2>1, <3>1, CountGrows DEF S
  <2> QED BY <2>2, <2>3
<1> QED BY <1>4, <1>5, <1>7, <1>8

\* The end of a task: back are the frames it gives back, which no task that
\* stays has mapped.
LEMMA EndedMemory ==
  ASSUME MInv, taskList \in Seq(Tasks),
         NEW t \in Listed, NEW back, back \subseteq 1 .. Frames,
         \A u \in Listed \ {t} : FramesOf(u) \cap back = {},
         Listed' = Listed \ {t},
         map' = [map EXCEPT ![t] = NoPages],
         free' = free \cup back,
         count' = [f \in 1 .. Frames |-> IF f \in back THEN 0 ELSE count[f]],
         image' = image
  PROVE  MInv'
<1> USE DEF MInv
<1>1. Listed \subseteq Tasks
  BY InRange DEF Listed
<1>2. \A u \in Listed \ {t} : map'[u] = map[u] /\ FramesOf(u)' = FramesOf(u)
  BY <1>1 DEF MemoryTyped, FramesOf
<1>3. MemoryTyped'
  <2>1. NoPages \in [Page -> -1 .. Frames]
    BY AddressSpaceAssumption DEF NoPages, Absent
  <2>2. map' \in [Tasks -> [Page -> -1 .. Frames]]
    BY <2>1 DEF MemoryTyped
  <2>3. free' \subseteq 1 .. Frames
    BY DEF MemoryTyped
  <2>4. count' \in [1 .. Frames -> Nat]
    BY CountTyped
  <2> QED BY <2>2, <2>3, <2>4 DEF MemoryTyped
<1>4. SharedByCopy'
  BY <1>2 DEF SharedByCopy
<1>5. NotFreedWhileMapped'
  <2>1. 0 \notin back
    BY AddressSpaceAssumption
  <2> QED BY <1>2, <2>1 DEF NotFreedWhileMapped
<1>6. CountCoversTasks'
  <2> SUFFICES ASSUME NEW f \in 1 .. Frames
               PROVE  Cardinality({u \in Listed' : f \in FramesOf(u)'}) <= count'[f]
    BY DEF CountCoversTasks
  <2> DEFINE S == {u \in Listed' : f \in FramesOf(u)'}
  <2>1. CASE f \in back
    <3>1. S = {}
      BY <1>2, <2>1
    <3>2. Cardinality(S) = 0
      BY <3>1, FS_EmptySet
    <3>3. count'[f] = 0
      BY <2>1
    <3> QED BY <3>2, <3>3
  <2>2. CASE f \notin back
    <3>1. count'[f] = count[f]
      BY <2>2
    <3>2. S \in SUBSET Mappers(f)
      BY <1>2 DEF Mappers
    <3> HIDE DEF S
    <3> QED BY <3>1, <3>2, CountGrows DEF S
  <2> QED BY <2>1, <2>2
<1> QED BY <1>3, <1>4, <1>5, <1>6

-----------------------------------------------------------------------------
(* What the system calls do to the memory. *)

\* create_new_task puts the new struct at the end of the task list.
LEMMA CreatedIsNew ==
  ASSUME IInv, NEW x \in FreeTask, NEW newPid \in Nat \ {0}, NEW ppids,
         NEW newParent, CreateTask(x, newPid, ppids, newParent)
  PROVE  /\ x \in Tasks /\ x \notin Listed
         /\ Listed' = Listed \cup {x}
         /\ Created = x
<1>1. x \in Tasks /\ x \notin Listed /\ Listed' = Listed \cup {x}
  BY CreateTaskEffect DEF IInv, TypeOK, ListsTyped
<1>2. taskList' = Append(taskList, x) /\ taskList \in Seq(Tasks)
  BY DEF CreateTask, IInv, TypeOK
<1>3. Len(Append(taskList, x)) = Len(taskList) + 1
      /\ Append(taskList, x)[Len(taskList) + 1] = x
  BY <1>1, <1>2, AppendProperties
<1> QED BY <1>1, <1>2, <1>3 DEF Created

\* The pages of a child: fresh frames in the stack, in the other areas frames
\* that setup_memory counts once more.
LEMMA CopiedPages ==
  ASSUME MInv, taskList \in Seq(Tasks), NEW t \in Listed,
         Cardinality(free) >= Cardinality(InStack(t))
  PROVE  LET new == {Nth(i) : i \in 1 .. Cardinality(InStack(t))}
         IN  /\ new \subseteq free
             /\ Copied(t) \in [Page -> -1 .. Frames]
             /\ \A p \in Page :
                  \/ Copied(t)[p] \in {Absent, 0} \cup new
                  \/ /\ p \notin Stack /\ Copied(t)[p] = map[t][p]
                     /\ Copied(t)[p] \in Shared(t)
             /\ \A p, q \in Page :
                  Copied(t)[p] = Copied(t)[q] /\ Copied(t)[p] \in new => p = q
<1> USE DEF MInv
<1> DEFINE N == Cardinality(InStack(t))
           new == {Nth(i) : i \in 1 .. N}
           place(i) == Cardinality({j \in InStack(t) : j <= i})
<1>1. /\ N \in Nat
      /\ \A i \in InStack(t) : place(i) \in 1 .. N
      /\ \A i, j \in InStack(t) : place(i) = place(j) => i = j
  BY StackRank
<1>2. /\ free \subseteq 1 .. Frames /\ Cardinality(free) \in Nat
      /\ \A n \in 1 .. Cardinality(free) : Nth(n) \in free
      /\ \A n, m \in 1 .. Cardinality(free) : Nth(n) = Nth(m) => n = m
  BY NthFree DEF MemoryTyped
<1>3. 1 .. N \subseteq 1 .. Cardinality(free)
  BY <1>1, <1>2
<1>4. new \subseteq free
  BY <1>2, <1>3
<1>5. t \in Tasks /\ \A p \in Page : map[t][p] \in -1 .. Frames
  BY InRange DEF Listed, MemoryTyped
<1>6. 0 \notin new /\ Absent \notin new /\ \A p \in Page : map[t][p] \notin new
  <2>1. 0 \notin free
    BY DEF NotFreedWhileMapped
  <2>2. Absent \notin free
    BY <1>2, AddressSpaceAssumption DEF Absent
  <2>3. \A p \in Page : map[t][p] \notin {0, Absent} => map[t][p] \notin free
    BY <1>5, InFramesOf DEF NotFreedWhileMapped
  <2> QED BY <1>4, <2>1, <2>2, <2>3
<1>7. ASSUME NEW p \in Stack
      PROVE  /\ Copied(t)[p] = IF p[2] \in InStack(t) THEN Nth(place(p[2])) ELSE Absent
             /\ p = <<"stack", p[2]>>
  BY DEF Copied, Page, Stack
<1>8. ASSUME NEW p \in Page, p \notin Stack
      PROVE  \/ Copied(t)[p] \in {Absent, 0}
             \/ Copied(t)[p] = map[t][p] /\ Copied(t)[p] \in Shared(t)
  <2>1. CASE p \in Heap \ Reached(t)
    BY <1>8, <2>1 DEF Copied
  <2>2. CASE p \notin Heap \ Reached(t)
    <3>1. Copied(t)[p] = VirtToPhy(t, p)
      BY <1>8, <2>2 DEF Copied
    <3>2. p \in {Text, Data} \cup Reached(t)
      BY <1>8, <2>2 DEF Page
    <3>3. VirtToPhy(t, p) \in Shared(t)
      BY <3>2 DEF Shared
    <3>4. VirtToPhy(t, p) = 0 \/ VirtToPhy(t, p) = map[t][p]
      BY DEF VirtToPhy
    <3> QED BY <3>1, <3>3, <3>4
  <2> QED BY <2>1, <2>2
<1>9. ASSUME NEW p \in Stack PROVE Copied(t)[p] = Absent \/ Copied(t)[p] \in new
  BY <1>1, <1>7
<1> HIDE DEF new, place
<1>10. ASSUME NEW p \in Page, NEW q \in Page,
              Copied(t)[p] = Copied(t)[q], Copied(t)[p] \in new
       PROVE  p = q
  <2>1. p \in Stack /\ q \in Stack
    BY <1>6, <1>8, <1>10
  <2>2. p[2] \in InStack(t) /\ q[2] \in InStack(t)
    BY <1>6, <1>7, <1>10, <2>1
  <2>3. Nth(place(p[2])) = Nth(place(q[2]))
    BY <1>7, <1>10, <2>1, <2>2
  <2>4. place(p[2]) \in 1 .. Cardinality(free) /\ place(q[2]) \in 1 .. Cardinality(free)
    BY <1>1, <1>3, <2>2
  <2>5. place(p[2]) = place(q[2])
    BY <1>2, <2>3, <2>4
  <2>6. p[2] = q[2]
    BY <1>1, <2>2, <2>5
  <2> QED BY <1>7, <2>1, <2>6
<1>11. \A p \in Page :
         \/ Copied(t)[p] \in {Absent, 0} \cup new
         \/ /\ p \notin Stack /\ Copied(t)[p] = map[t][p]
            /\ Copied(t)[p] \in Shared(t)
  BY <1>8, <1>9
<1>12. Copied(t) \in [Page -> -1 .. Frames]
  <2>1. Absent \in -1 .. Frames /\ 0 \in -1 .. Frames
    BY AddressSpaceAssumption DEF Absent
  <2>2. \A f \in 1 .. Frames : f \in -1 .. Frames
    BY AddressSpaceAssumption
  <2>3. \A p \in Page : Copied(t)[p] \in -1 .. Frames
    BY <1>2, <1>4, <1>5, <1>11, <2>1, <2>2
  <2>4. DOMAIN Copied(t) = Page /\ Copied(t) = [p \in Page |-> Copied(t)[p]]
    BY DEF Copied
  <2> QED BY <2>3, <2>4
<1> QED BY <1>4, <1>10, <1>11, <1>12 DEF new

LEMMA ForkMemory ==
  ASSUME IInv, MInv, NEW t \in Tasks, AFork(t)
  PROVE  MInv'
<1> DEFINE fresh == Cardinality(InStack(t))
           new == {Nth(i) : i \in 1 .. fresh}
<1>1. t \in Listed /\ taskList \in Seq(Tasks) /\ nextPid \in Nat \ {0}
  BY CallerListed DEF AFork, Fork, IInv, TypeOK, PidsGivenOut
<1>2. PICK x \in FreeTask :
        CreateTask(x, nextPid, [ppid EXCEPT ![x] = pid[t]], t)
  BY DEF AFork, Fork
<1>3. x \in Tasks /\ x \notin Listed /\ Listed' = Listed \cup {x} /\ Created = x
  BY <1>1, <1>2, CreatedIsNew
<1>4. /\ Cardinality(free) >= fresh
      /\ free' = free \ new
      /\ count' = [f \in 1 .. Frames |->
                     IF f \in new \cup Shared(t) THEN count[f] + 1 ELSE count[f]]
      /\ map' = [map EXCEPT ![x] = Copied(t)]
      /\ image' = [image EXCEPT ![x] = image[t]]
  BY <1>3 DEF AFork
<1>5. /\ new \subseteq free
      /\ Copied(t) \in [Page -> -1 .. Frames]
      /\ \A p \in Page :
           \/ Copied(t)[p] \in {Absent, 0} \cup new
           \/ /\ p \notin Stack /\ Copied(t)[p] = map[t][p]
              /\ Copied(t)[p] \in Shared(t)
      /\ \A p, q \in Page :
           Copied(t)[p] = Copied(t)[q] /\ Copied(t)[p] \in new => p = q
  BY <1>1, <1>4, CopiedPages
<1> DEFINE pages == Copied(t)  shared == Shared(t)  counted == new \cup shared
<1>6. /\ MemoryTyped'
      /\ map'[x] = pages /\ image'[x] = image[t]
      /\ \A u \in Tasks \ {x} : map'[u] = map[u] /\ image'[u] = image[u]
      /\ \A f \in 1 .. Frames :
           count'[f] = IF f \in counted THEN count[f] + 1 ELSE count[f]
  <2>1. image[t] \in Nat /\ pages \in [Page -> -1 .. Frames]
    BY <1>5 DEF MInv, MemoryTyped
  <2> HIDE DEF new, fresh, pages, counted
  <2>2. count' = [f \in 1 .. Frames |-> IF f \in counted THEN count[f] + 1 ELSE count[f]]
    BY <1>4 DEF counted
  <2>3. map' = [map EXCEPT ![x] = pages] /\ free' = free \ new
    BY <1>4 DEF pages
  <2>4. MemoryTyped /\ x \in Tasks /\ image' = [image EXCEPT ![x] = image[t]]
    BY <1>3, <1>4 DEF MInv
  <2> QED BY <2>1, <2>2, <2>3, <2>4, CreatedTyped
<1>7. \A u \in Listed : map'[u] = map[u] /\ image'[u] = image[u]
  <2>1. Listed \subseteq Tasks \ {x}
    BY <1>1, <1>3, InRange DEF Listed
  <2> QED BY <1>6, <2>1
<1> HIDE DEF new, fresh, pages, shared
<1>8. pages \in [Page -> -1 .. Frames] /\ new \subseteq free /\ free' = free \ new
  BY <1>4, <1>5 DEF pages
<1>9. \A p \in Page :
        \/ pages[p] \in {Absent, 0} \cup new
        \/ /\ p \notin Stack /\ pages[p] = map[t][p]
           /\ pages[p] \in shared /\ image'[x] = image[t]
  BY <1>5, <1>6 DEF pages, shared
<1>10. \A p, q \in Page : pages[p] = pages[q] /\ pages[p] \in new => p = q
  BY <1>5 DEF pages
<1>11. Appears(t, x, new, shared, pages)
  BY <1>6, <1>7, <1>8, <1>9, <1>10 DEF Appears
<1> QED BY <1>1, <1>3, <1>6, <1>11, CreatedMemory

LEMMA ExecveMemory ==
  ASSUME IInv, MInv, NEW t \in Tasks, AExecve(t)
  PROVE  MInv'
<1> DEFINE new == {Nth(i) : i \in 1 .. 3}
           pages == NewImage(Nth(1), Nth(2), Nth(3))
<1>1. /\ t \in Listed /\ taskList \in Seq(Tasks) /\ nextPid \in Nat
      /\ pid[t] \in Nat \ {0}
  BY CallerListed DEF AExecve, Execve, IInv, TypeOK, ListsPartition
<1>2. PICK x \in FreeTask :
        CreateTask(x, pid[t], [ppid EXCEPT ![x] = ppid[t], ![t] = 0], parent[t])
  BY DEF AExecve, Execve
<1>3. x \in Tasks /\ x \notin Listed /\ Listed' = Listed \cup {x} /\ Created = x
  BY <1>1, <1>2, CreatedIsNew
<1>4. /\ Cardinality(free) >= 3
      /\ free' = free \ new
      /\ count' = [f \in 1 .. Frames |->
                     IF f \in new \cup {} THEN count[f] + 1 ELSE count[f]]
      /\ map' = [map EXCEPT ![x] = pages]
      /\ image' = [image EXCEPT ![x] = nextPid]
  BY <1>3 DEF AExecve, Allocate
<1>5. /\ Nth(1) \in free /\ Nth(2) \in free /\ Nth(3) \in free
      /\ Nth(1) # Nth(2) /\ Nth(2) # Nth(3) /\ Nth(1) # Nth(3)
      /\ free \subseteq 1 .. Frames
  <2>1. Cardinality(free) \in Nat
    BY NthFree DEF MInv, MemoryTyped
  <2>2. \A n \in 1 .. 3 : n \in 1 .. Cardinality(free)
    BY <1>4, <2>1
  <2>3. 1 \in 1 .. 3 /\ 2 \in 1 .. 3 /\ 3 \in 1 .. 3
    OBVIOUS
  <2> QED BY <2>2, <2>3, NthFree DEF MInv, MemoryTyped
<1>6. new = {Nth(1), Nth(2), Nth(3)}
  <2>1. 1 .. 3 = {1, 2, 3}
    OBVIOUS
  <2> QED BY <2>1
<1>7. /\ Text \in Page /\ Data \in Page /\ Top \in Page
      /\ Text # Data /\ Data # Top /\ Text # Top
  BY AddressSpaceAssumption DEF Text, Data, Top, Page, Stack
<1>8. \A p \in Page : pages[p] = IF p = Top THEN Nth(3) ELSE IF p = Data THEN Nth(2)
                                 ELSE IF p = Text THEN Nth(1) ELSE Absent
  BY <1>7 DEF NewImage, NoPages
<1>9. pages \in [Page -> -1 .. Frames]
  <2>1. Absent \in -1 .. Frames
    BY AddressSpaceAssumption DEF Absent
  <2>2. \A f \in free : f \in -1 .. Frames
    BY <1>5, AddressSpaceAssumption
  <2>3. DOMAIN pages = Page /\ pages = [p \in Page |-> pages[p]]
    BY DEF NewImage, NoPages
  <2> HIDE DEF pages
  <2> QED BY <1>5, <1>8, <2>1, <2>2, <2>3
<1>10. Absent \notin new
  BY <1>5, <1>6, AddressSpaceAssumption DEF Absent
<1> HIDE DEF pages, new
<1>11. \A p \in Page : pages[p] \in {Absent, 0} \cup new
  BY <1>6, <1>8
<1>12. ASSUME NEW p \in Page, NEW q \in Page, pages[p] = pages[q], pages[p] \in new
       PROVE  p = q
  BY <1>5, <1>8, <1>10, <1>12
<1>13. /\ MemoryTyped'
       /\ map'[x] = pages
       /\ \A u \in Tasks \ {x} : map'[u] = map[u] /\ image'[u] = image[u]
       /\ \A f \in 1 .. Frames :
            count'[f] = IF f \in new \cup {} THEN count[f] + 1 ELSE count[f]
  <2> DEFINE counted == new \cup {}
  <2>1. count' = [f \in 1 .. Frames |-> IF f \in counted THEN count[f] + 1 ELSE count[f]]
    BY <1>4
  <2> DEFINE loaded == nextPid
  <2>3. /\ map' = [map EXCEPT ![x] = pages] /\ free' = free \ new
        /\ image' = [image EXCEPT ![x] = loaded]
        /\ loaded \in Nat /\ MemoryTyped
    BY <1>1, <1>4 DEF MInv
  <2> HIDE DEF counted, loaded
  <2>2. /\ MemoryTyped'
        /\ map'[x] = pages /\ image'[x] = loaded
        /\ \A u \in Tasks \ {x} : map'[u] = map[u] /\ image'[u] = image[u]
        /\ \A f \in 1 .. Frames :
             count'[f] = IF f \in counted THEN count[f] + 1 ELSE count[f]
    BY <1>3, <1>9, <2>1, <2>3, CreatedTyped
  <2> QED BY <2>2 DEF counted
<1>14. \A u \in Listed : map'[u] = map[u] /\ image'[u] = image[u]
  <2>1. Listed \subseteq Tasks \ {x}
    BY <1>1, <1>3, InRange DEF Listed
  <2> QED BY <1>13, <2>1
<1>15. new \subseteq free /\ free' = free \ new
  BY <1>4, <1>5, <1>6
<1> DEFINE shared == {}
<1>16. \A f \in 1 .. Frames :
            count'[f] = IF f \in new \cup shared THEN count[f] + 1 ELSE count[f]
  BY <1>13
<1>17. \A p \in Page :
        \/ pages[p] \in {Absent, 0} \cup new
        \/ /\ p \notin Stack /\ pages[p] = map[t][p]
           /\ pages[p] \in shared /\ image'[x] = image[t]
  BY <1>11
<1> HIDE DEF shared
<1>18. Appears(t, x, new, shared, pages)
  BY <1>9, <1>12, <1>13, <1>14, <1>15, <1>16, <1>17 DEF Appears
<1> QED BY <1>1, <1>3, <1>13, <1>18, CreatedMemory

LEMMA MapFreshMemory ==
  ASSUME MInv, taskList \in Seq(Tasks), NEW t \in Listed, NEW p \in Page,
         MapFresh(t, p)
  PROVE  MInv'
<1> DEFINE f == Nth(1)
<1>1. f \in free
  <2>1. /\ IsFiniteSet(free) /\ Cardinality(free) \in Nat
        /\ \A n \in 1 .. Cardinality(free) : Nth(n) \in free
    BY NthFree DEF MInv, MemoryTyped
  <2>2. Cardinality(free) # 0
    BY <2>1, FS_EmptySet DEF MapFresh
  <2>3. 1 \in 1 .. Cardinality(free)
    BY <2>1, <2>2
  <2> QED BY <2>1, <2>3
<1>2. /\ map' = [map EXCEPT ![t][p] = f]
      /\ free' = free \ {f}
      /\ count' = [g \in 1 .. Frames |-> IF g \in {f} THEN count[g] + 1 ELSE count[g]]
      /\ image' = image /\ Listed' = Listed
  BY DEF MapFresh, Allocate, vars, lists, Listed
<1> HIDE DEF f
<1> QED BY <1>1, <1>2, FaultMemory

\* What a task gives back, no other task maps: the stack is its own, and the
\* rest is given back by a task whose image nobody else runs.
LEMMA GivenBackOwn ==
  ASSUME MInv, taskList \in Seq(Tasks), NEW t \in Listed,
         parent[t] # NULL \/ \A u \in Listed \ {t} : image[u] # image[t]
  PROVE  /\ GivenBack(t) \subseteq 1 .. Frames
         /\ \A u \in Listed \ {t} : FramesOf(u) \cap GivenBack(t) = {}
<1> USE DEF MInv
<1>1. Listed \subseteq Tasks
  BY InRange DEF Listed
<1>2. ASSUME NEW f \in GivenBack(t)
      PROVE  /\ f \notin {Absent, 0}
             /\ \E q \in Page : map[t][q] = f /\ (parent[t] # NULL => q \in Stack)
  <2>1. PICK q \in Page :
          /\ map[t][q] = f
          /\ \E a \in Range(FreeVmas(areas, t).seen) :
               (a.start = "stack" \/ parent[t] = NULL) /\ a.start = q[1]
    BY DEF GivenBack
  <2>2. ASSUME q[1] = "stack" PROVE q \in Stack
    BY <2>2 DEF Page, Text, Data, Heap
  <2> QED BY <2>1, <2>2 DEF GivenBack
<1>3. GivenBack(t) \subseteq 1 .. Frames
  <2>1. \A q \in Page : map[t][q] \in -1 .. Frames
    BY <1>1 DEF MemoryTyped
  <2>2. \A f \in -1 .. Frames : f \notin {-1, 0} => f \in 1 .. Frames
    BY AddressSpaceAssumption
  <2> QED BY <1>2, <2>1, <2>2 DEF Absent
<1>4. ASSUME NEW u \in Listed \ {t}, NEW f \in GivenBack(t), f \in FramesOf(u)
      PROVE  FALSE
  <2>1. PICK q \in Page : map[t][q] = f /\ (parent[t] # NULL => q \in Stack)
    BY <1>2
  <2>2. PICK p \in Page : map[u][p] = f
    BY <1>1, <1>4, InFramesOf
  <2>3. map[t][q] = map[u][p] /\ map[t][q] \notin {Absent, 0}
    BY <1>2, <2>1, <2>2
  <2>4. q \notin Stack /\ image[t] = image[u]
    BY <2>3, SameFrame
  <2> QED BY <2>1, <2>4
<1> QED BY <1>3, <1>4

LEMMA FreeMemoryMInv ==
  ASSUME MInv, taskList \in Seq(Tasks), NEW t \in Listed,
         parent[t] # NULL \/ \A u \in Listed \ {t} : image[u] # image[t],
         Listed' = Listed \ {t}, FreeMemory(t)
  PROVE  MInv'
<1> DEFINE back == GivenBack(t)
<1>1. /\ back \subseteq 1 .. Frames
      /\ \A u \in Listed \ {t} : FramesOf(u) \cap back = {}
  BY GivenBackOwn
<1>2. /\ map' = [map EXCEPT ![t] = NoPages]
      /\ free' = free \cup back
      /\ count' = [f \in 1 .. Frames |-> IF f \in back THEN 0 ELSE count[f]]
      /\ image' = image
  BY DEF FreeMemory
<1> HIDE DEF back
<1> QED BY <1>1, <1>2, EndedMemory

-----------------------------------------------------------------------------
(* The caller of kill. *)

LEMMA TimerIRQFaulter ==
  ASSUME IInv, FaulterHasParent, TimerIRQ
  PROVE  FaulterHasParent'
<1>1. \/ current' = current /\ cr3' = cr3
      \/ current' \in Listed /\ cr3' = current'
  BY TimerEffect DEF TimerIRQ, IInv, TypeOK, Listed
<1>2. Listed' = Listed /\ parent' = parent /\ NULL \notin Listed
  BY InRange, ProcessAssumption DEF TimerIRQ, family, lists, Listed, IInv, TypeOK
<1> QED BY <1>1, <1>2 DEF FaulterHasParent

\* A call that gives the CPU away leaves a page table loaded, or nobody to use
\* it.
LEMMA RescheduledFaulter ==
  ASSUME IInv', cr3' # NULL \/ current' = NULL
  PROVE  FaulterHasParent'
<1>1. NULL \notin Listed'
  BY InRange, ProcessAssumption DEF IInv, TypeOK, Listed
<1> QED BY <1>1 DEF FaulterHasParent

LEMMA KillFaulter ==
  ASSUME IInv, EndsEarly = FALSE, NEW t \in Tasks, NEW p, AKill(t, p)
  PROVE  FaulterHasParent'
<1> DEFINE target == GetTask(p)
<1>1. /\ current = t /\ current' = current
      /\ parent[t] # NULL
      /\ FreeTaskStruct(target, childCount)
      /\ target # NULL
  BY DEF AKill, Kill, Calling
<1>2. target \in Listed
  BY <1>1, FirstFound DEF GetTask, IInv, TypeOK, Listed
<1> HIDE DEF target
<1>3. Listed' = Listed \ {target} /\ parent' = [parent EXCEPT ![target] = NULL]
  BY <1>1, <1>2, FreeTaskEffect DEF IInv, TypeOK, ListsTyped, FreeTaskStruct
<1>4. t # target => parent'[t] = parent[t]
  BY <1>3 DEF IInv, TypeOK
<1> QED BY <1>1, <1>3, <1>4 DEF FaulterHasParent

LEMMA ExitTaskFaulter ==
  ASSUME IInv, IInv', NEW t \in Listed, current = t, ExitTask(t)
  PROVE  FaulterHasParent'
<1> DEFINE st == [ParentState(t) EXCEPT ![t] = "STOPPED"]
           slp == [sleepTime EXCEPT ![t] = 0]
<1>1. /\ st \in [Tasks -> States] /\ slp \in [Tasks -> Counter]
  <2>1. 0 \in Counter
    BY ProcessAssumption DEF Counter
  <2>2. ParentState(t) \in [Tasks -> States]
    BY DEF IInv, TypeOK, States, ParentState, WakeWaiter
  <2>3. st \in [Tasks -> States]
    BY <2>2 DEF States
  <2> QED BY <2>1, <2>3 DEF IInv, TypeOK
<1>2. /\ ticks \in 0 .. TicksPerSecond - 1 /\ taskList' \in Seq(Tasks)
      /\ TimerInterrupt(taskList', st, slp, NULL, NULL)
  BY DEF ExitTask, IInv, TypeOK
<1> HIDE DEF st, slp
<1>3. current' = NULL \/ (current' \in Listed' /\ cr3' = current')
  BY <1>1, <1>2, TimerEffect DEF Listed
<1>4. NULL \notin Listed'
  BY <1>2, InRange, ProcessAssumption DEF Listed
<1> QED BY <1>3, <1>4 DEF FaulterHasParent

LEMMA ForkFaulter ==
  ASSUME IInv, IInv', NEW t \in Tasks, Fork(t)
  PROVE  FaulterHasParent'
<1>1. PICK child \in FreeTask :
        TimerInterrupt(taskList',
                       [state EXCEPT ![child] = "RUNNABLE", ![t] = "RUNNABLE"],
                       [sleepTime EXCEPT ![child] = 0], NULL, t)
  BY DEF Fork
<1> DEFINE st == [state EXCEPT ![child] = "RUNNABLE", ![t] = "RUNNABLE"]
           slp == [sleepTime EXCEPT ![child] = 0]
<1>2. st \in [Tasks -> States] /\ slp \in [Tasks -> Counter]
  <2>1. 0 \in Counter
    BY ProcessAssumption DEF Counter
  <2>2. st \in [Tasks -> States]
    BY DEF IInv, TypeOK, States
  <2> QED BY <2>1, <2>2 DEF IInv, TypeOK
<1>3. /\ ticks \in 0 .. TicksPerSecond - 1 /\ taskList' \in Seq(Tasks)
      /\ TimerInterrupt(taskList', st, slp, NULL, t)
  BY <1>1 DEF IInv, TypeOK
<1> HIDE DEF st, slp
<1>4. current' = NULL \/ (current' \in Listed' /\ cr3' = current')
  BY <1>2, <1>3, TimerEffect DEF Listed
<1>5. NULL \notin Listed'
  BY <1>3, InRange, ProcessAssumption DEF Listed
<1> QED BY <1>4, <1>5 DEF FaulterHasParent

-----------------------------------------------------------------------------
(* The steps. *)

\* Every step of the memory is a step of the process manager, or one that it
\* does not see.
LEMMA MemoryStep == ANext => [Next]_vars
<1> SUFFICES ASSUME ANext PROVE [Next]_vars
  OBVIOUS
<1>1. CASE TimerIRQ
  BY <1>1 DEF Next
<1>2. ASSUME NEW t \in Tasks,
             AFork(t) \/ AExecve(t) \/ AExit(t) \/ APageFault(t)
      PROVE  Next
  BY <1>2 DEF AFork, AExecve, AExit, APageFault, Next, Syscall
<1>3. ASSUME NEW t \in Tasks, Brk(t) \/ HeapFault(t) \/ StackFault(t)
      PROVE  UNCHANGED vars
  BY <1>3 DEF Brk, HeapFault, StackFault, MapFresh
<1>4. ASSUME NEW t \in Tasks, NEW p \in 1 .. nextPid - 1, AKill(t, p)
      PROVE  Next
  BY <1>4 DEF AKill, Next, Syscall
<1> QED BY <1>1, <1>2, <1>3, <1>4 DEF ANext

LEMMA FaulterStep ==
  ASSUME IInv, IInv', FaulterHasParent, EndsEarly = FALSE, [ANext]_avars
  PROVE  FaulterHasParent'
<1>1. CASE TimerIRQ
  BY <1>1, TimerIRQFaulter
<1>2. ASSUME NEW t \in Tasks, AFork(t) PROVE FaulterHasParent'
  BY <1>2, ForkFaulter DEF AFork
<1>3. ASSUME NEW t \in Tasks, AExecve(t) PROVE FaulterHasParent'
  <2>1. cr3' = t
    BY <1>3 DEF AExecve, Execve, Calling
  <2> QED BY <2>1, ProcessAssumption DEF FaulterHasParent
<1>4. ASSUME NEW t \in Tasks, AExit(t) PROVE FaulterHasParent'
  BY <1>4, CallerListed, ExitTaskFaulter DEF AExit, Exit
<1>5. ASSUME NEW t \in Tasks, NEW p, AKill(t, p) PROVE FaulterHasParent'
  BY <1>5, KillFaulter
<1>6. ASSUME UNCHANGED vars PROVE FaulterHasParent'
  BY <1>6 DEF FaulterHasParent, vars, family, lists, clock, Listed
<1>7. ASSUME NEW t \in Tasks, APageFault(t) PROVE FaulterHasParent'
  <2>1. CASE t \in Listed
    BY <1>7, <2>1, ExitTaskFaulter DEF APageFault, PageFault
  <2>2. CASE t \notin Listed
    BY <1>7, <2>2
       DEF APageFault, PageFault, FaulterHasParent, family, lists, clock, Listed
  <2> QED BY <2>1, <2>2
<1>8. ASSUME NEW t \in Tasks, Brk(t) \/ HeapFault(t) \/ StackFault(t)
      PROVE  UNCHANGED vars
  BY <1>8 DEF Brk, HeapFault, StackFault, MapFresh
<1>9. CASE UNCHANGED avars
  BY <1>6, <1>9 DEF avars
<1> QED BY <1>1, <1>2, <1>3, <1>4, <1>5, <1>6, <1>7, <1>8, <1>9 DEF ANext

\* Who ends without a parent is the only one to run its image.
LEMMA EndingMInv ==
  ASSUME IInv, MInv, NEW t \in Listed, NEW cc, FreeTaskStruct(t, cc),
         FreeMemory(t),
         parent[t] # NULL \/ \A u \in Listed \ {t} : image[u] # image[t]
  PROVE  MInv'
<1>1. taskList \in Seq(Tasks) /\ Listed' = Listed \ {t}
  BY FreeTaskEffect DEF IInv, TypeOK, ListsTyped
<1> QED BY <1>1, FreeMemoryMInv

LEMMA MemoryInvStep ==
  ASSUME IInv, MInv, FaulterHasParent, EndsEarly = FALSE, [ANext]_avars
  PROVE  MInv'
<1>typed. taskList \in Seq(Tasks) /\ Listed \subseteq Tasks
  BY InRange DEF IInv, TypeOK, Listed
<1>1. CASE TimerIRQ /\ UNCHANGED memory
  BY <1>1, SameMemory DEF TimerIRQ, memory, lists, Listed
<1>2. ASSUME NEW t \in Tasks, AFork(t) PROVE MInv'
  BY <1>2, ForkMemory
<1>3. ASSUME NEW t \in Tasks, AExecve(t) PROVE MInv'
  BY <1>3, ExecveMemory
<1>4. ASSUME NEW t \in Tasks, AExit(t) PROVE MInv'
  <2>1. t \in Listed
    BY <1>4, CallerListed DEF AExit, Exit
  <2>2. /\ FreeTaskStruct(t, ParentCount(t)) /\ FreeMemory(t)
        /\ parent[t] # NULL \/ \A u \in Listed \ {t} : image[u] # image[t]
    BY <1>4 DEF AExit, Exit, ExitTask, MayEnd
  <2> QED BY <2>1, <2>2, EndingMInv
<1>5. ASSUME NEW t \in Tasks, NEW p, AKill(t, p) PROVE MInv'
  <2> DEFINE target == GetTask(p)
  <2>1. /\ target # NULL /\ FreeTaskStruct(target, childCount)
        /\ FreeMemory(target) /\ parent[target] # NULL
    BY <1>5 DEF AKill, Kill
  <2>2. target \in Listed
    BY <2>1, <1>typed, FirstFound DEF GetTask, Listed
  <2> HIDE DEF target
  <2> QED BY <2>1, <2>2, EndingMInv
<1>6. ASSUME NEW t \in Tasks, APageFault(t) PROVE MInv'
  <2>1. CASE t \in Listed
    <3>1. current = t /\ cr3 = NULL /\ ExitTask(t) /\ FreeMemory(t)
      BY <1>6, <2>1 DEF APageFault, PageFault
    <3>2. FreeTaskStruct(t, ParentCount(t)) /\ parent[t] # NULL
      BY <2>1, <3>1 DEF ExitTask, FaulterHasParent
    <3> QED BY <2>1, <3>1, <3>2, EndingMInv
  <2>2. CASE t \notin Listed
    BY <1>6, <2>2, SameMemory DEF APageFault, PageFault, memory, lists, Listed
  <2> QED BY <2>1, <2>2
<1>7. ASSUME NEW t \in Tasks, Brk(t) PROVE MInv'
  BY <1>7, SameMemory DEF Brk, vars, lists, Listed
<1>8. ASSUME NEW t \in Tasks, Runs(t) PROVE t \in Listed
  BY <1>8, ProcessAssumption DEF Runs, IInv, CurrentListed
<1>9. ASSUME NEW t \in Tasks, HeapFault(t) PROVE MInv'
  <2>1. PICK h : <<"heap", h>> \in Heap /\ MapFresh(t, <<"heap", h>>)
    BY <1>9 DEF HeapFault
  <2>2. t \in Listed /\ <<"heap", h>> \in Page
    BY <1>8, <1>9, <2>1 DEF HeapFault, Page
  <2> QED BY <1>typed, <2>1, <2>2, MapFreshMemory
<1>10. ASSUME NEW t \in Tasks, StackFault(t) PROVE MInv'
  <2>1. PICK s \in 1 .. StackPages : MapFresh(t, <<"stack", s>>)
    <3>1. PICK s \in 2 .. StackPages :
            \/ MapFresh(t, <<"stack", s>>)
            \/ s < StackPages /\ MapFresh(t, <<"stack", s + 1>>)
      BY <1>10 DEF StackFault
    <3>2. s \in 1 .. StackPages /\ (s < StackPages => s + 1 \in 1 .. StackPages)
      BY AddressSpaceAssumption
    <3> QED BY <3>1, <3>2
  <2>2. t \in Listed /\ <<"stack", s>> \in Page
    BY <1>8, <1>10 DEF StackFault, Page, Stack
  <2> QED BY <1>typed, <2>1, <2>2, MapFreshMemory
<1>11. CASE UNCHANGED avars
  BY <1>11, SameMemory DEF avars, vars, memory, lists, Listed
<1> QED BY <1>1, <1>2, <1>3, <1>4, <1>5, <1>6, <1>7, <1>9, <1>10, <1>11 DEF ANext

-----------------------------------------------------------------------------
(* The two programs loaded at boot. *)

LEMMA ImagePages ==
  ASSUME NEW a \in 1 .. Frames, NEW b \in 1 .. Frames, NEW c \in 1 .. Frames
  PROVE  /\ NewImage(a, b, c) \in [Page -> -1 .. Frames]
         /\ \A p \in Page :
              NewImage(a, b, c)[p] = IF p = Text THEN a ELSE IF p = Data THEN b
                                     ELSE IF p = Top THEN c ELSE Absent
<1>1. /\ Text \in Page /\ Data \in Page /\ Top \in Page
      /\ Text # Data /\ Data # Top /\ Text # Top
  BY AddressSpaceAssumption DEF Text, Data, Top, Page, Stack
<1>2. \A p \in Page :
        NewImage(a, b, c)[p] = IF p = Text THEN a ELSE IF p = Data THEN b
                               ELSE IF p = Top THEN c ELSE Absent
  BY <1>1 DEF NewImage, NoPages
<1>3. DOMAIN NewImage(a, b, c) = Page
      /\ NewImage(a, b, c) = [p \in Page |-> NewImage(a, b, c)[p]]
  BY DEF NewImage, NoPages
<1>4. Absent \in -1 .. Frames /\ a \in -1 .. Frames /\ b \in -1 .. Frames
      /\ c \in -1 .. Frames
  BY AddressSpaceAssumption DEF Absent
<1> QED BY <1>2, <1>3, <1>4

LEMMA InitMemory == AInit => MInv
<1> SUFFICES ASSUME AInit PROVE MInv
  OBVIOUS
<1>1. /\ 1 \in 1 .. Frames /\ 2 \in 1 .. Frames /\ 3 \in 1 .. Frames
      /\ 4 \in 1 .. Frames /\ 5 \in 1 .. Frames /\ 6 \in 1 .. Frames
      /\ Frames \in Nat
  BY AddressSpaceAssumption
<1>2. Hello \in Tasks /\ Sbush \in Tasks /\ Hello # Sbush
  BY ProcessAssumption
<1>3. Listed = {Hello, Sbush} /\ taskList \in Seq(Tasks)
  <2>1. /\ taskList \in Seq(Tasks) /\ Len(taskList) = 2
        /\ taskList[1] = Hello /\ taskList[2] = Sbush
    BY <1>2 DEF AInit, Init
  <2>2. DOMAIN taskList = 1 .. 2
    BY <2>1, LenProperties
  <2> QED BY <2>1, <2>2 DEF Listed, Range
<1>4. map[Hello] = NewImage(1, 2, 3) /\ map[Sbush] = NewImage(4, 5, 6)
  BY <1>2 DEF AInit
<1>5. MemoryTyped
  <2>1. NoPages \in [Page -> -1 .. Frames]
    BY <1>1 DEF NoPages, Absent
  <2>2. /\ NewImage(1, 2, 3) \in [Page -> -1 .. Frames]
        /\ NewImage(4, 5, 6) \in [Page -> -1 .. Frames]
    <3>1. NewImage(1, 2, 3) \in [Page -> -1 .. Frames]
      BY <1>1, ImagePages
    <3>2. NewImage(4, 5, 6) \in [Page -> -1 .. Frames]
      BY <1>1, ImagePages
    <3> QED BY <3>1, <3>2
  <2>3. map \in [Tasks -> [Page -> -1 .. Frames]]
    BY <2>1, <2>2 DEF AInit
  <2>4. free \subseteq 1 .. Frames
    BY <1>1 DEF AInit
  <2>5. count \in [1 .. Frames -> Nat]
    BY DEF AInit
  <2>6. image \in [Tasks -> Nat]
    BY DEF AInit, Init, HelloPid
  <2> QED BY <2>3, <2>4, <2>5, <2>6 DEF MemoryTyped
<1>6. \A p \in Page :
        /\ map[Hello][p] = IF p = Text THEN 1 ELSE IF p = Data THEN 2
                           ELSE IF p = Top THEN 3 ELSE -1
        /\ map[Sbush][p] = IF p = Text THEN 4 ELSE IF p = Data THEN 5
                           ELSE IF p = Top THEN 6 ELSE -1
  <2>1. \A p \in Page :
          NewImage(1, 2, 3)[p] = IF p = Text THEN 1 ELSE IF p = Data THEN 2
                                 ELSE IF p = Top THEN 3 ELSE Absent
    <3>1. 1 \in 1 .. Frames /\ 2 \in 1 .. Frames /\ 3 \in 1 .. Frames
      BY <1>1
    <3> QED BY <3>1, ImagePages
  <2>2. \A p \in Page :
          NewImage(4, 5, 6)[p] = IF p = Text THEN 4 ELSE IF p = Data THEN 5
                                 ELSE IF p = Top THEN 6 ELSE Absent
    <3>1. 4 \in 1 .. Frames /\ 5 \in 1 .. Frames /\ 6 \in 1 .. Frames
      BY <1>1
    <3> QED BY <3>1, ImagePages
  <2> QED BY <1>4, <2>1, <2>2 DEF Absent
<1>7. SharedByCopy
  <2> SUFFICES ASSUME NEW t \in Listed, NEW u \in Listed,
                      NEW p \in Page, NEW q \in Page,
                      map[t][p] = map[u][q], map[t][p] # -1
               PROVE  p = q /\ t = u
    BY DEF SharedByCopy, Absent
  <2>1. CASE t = Hello /\ u = Hello
    BY <1>6, <2>1
  <2>2. CASE t = Hello /\ u = Sbush
    BY <1>6, <2>2
  <2>3. CASE t = Sbush /\ u = Hello
    BY <1>6, <2>3
  <2>4. CASE t = Sbush /\ u = Sbush
    BY <1>6, <2>4
  <2> QED BY <1>3, <2>1, <2>2, <2>3, <2>4
<1>8. /\ \A f \in FramesOf(Hello) : f \in 1 .. 3
      /\ \A f \in FramesOf(Sbush) : f \in 4 .. 6
  <2>1. ASSUME NEW f \in FramesOf(Hello) PROVE f \in 1 .. 3
    <3>1. PICK p \in Page : map[Hello][p] = f /\ f # -1
      BY <1>2, <1>5, InFramesOf DEF Absent
    <3> QED BY <1>6, <3>1
  <2>2. ASSUME NEW f \in FramesOf(Sbush) PROVE f \in 4 .. 6
    <3>1. PICK p \in Page : map[Sbush][p] = f /\ f # -1
      BY <1>2, <1>5, InFramesOf DEF Absent
    <3> QED BY <1>6, <3>1
  <2> QED BY <2>1, <2>2
<1>9. NotFreedWhileMapped
  <2>1. free = 7 .. Frames
    BY DEF AInit
  <2>2. \A f \in free : f \notin 1 .. 3 /\ f \notin 4 .. 6 /\ f # 0
    BY <1>1, <2>1
  <2> QED BY <1>3, <1>8, <2>2 DEF NotFreedWhileMapped
<1>10. CountCoversTasks
  <2> SUFFICES ASSUME NEW f \in 1 .. Frames
               PROVE  Cardinality({t \in Listed : f \in FramesOf(t)}) <= count[f]
    BY DEF CountCoversTasks
  <2> DEFINE S == {t \in Listed : f \in FramesOf(t)}
  <2>1. f \in 7 .. Frames \/ f \in 1 .. 3 \/ f \in 4 .. 6
    BY <1>1
  <2>2. CASE f \in 7 .. Frames
    <3>1. f \notin 1 .. 3 /\ f \notin 4 .. 6
      BY <2>2
    <3>2. S = {}
      BY <1>3, <1>8, <3>1
    <3>3. Cardinality(S) = 0
      BY <3>2, FS_EmptySet
    <3>4. count[f] \in Nat
      BY CountTyped, <1>5
    <3> QED BY <3>3, <3>4
  <2>3. CASE f \notin 7 .. Frames
    <3>1. count[f] = 1
      BY <2>3 DEF AInit
    <3>2. ~(f \in 1 .. 3 /\ f \in 4 .. 6)
      OBVIOUS
    <3>3. \E x : S \in SUBSET {x}
      BY <1>3, <1>8, <3>2
    <3>4. PICK x : S \in SUBSET {x}
      BY <3>3
    <3> HIDE DEF S
    <3>5. IsFiniteSet({x}) /\ Cardinality({x}) = 1
      BY FS_Singleton
    <3>6. Cardinality(S) <= 1
      BY <3>4, <3>5, FS_Subset
    <3> QED BY <3>1, <3>6 DEF S
  <2> QED BY <2>2, <2>3
<1> QED BY <1>5, <1>7, <1>9, <1>10 DEF MInv

-----------------------------------------------------------------------------
(* Induction. *)

LEMMA LeastOf ==
  ASSUME NEW I, I \subseteq Nat, I # {}
  PROVE  \E i \in I : \A j \in I : i <= j
<1>1. PICK i \in I : \A j \in I : <<j, i>> \notin OpToRel(<, Nat)
  BY NatLessThanWellFounded, WFMin
<1>2. \A j \in I : ~(j < i)
  BY <1>1 DEF OpToRel
<1> QED BY <1>2

LEMMA Upward ==
  ASSUME NEW N \in Nat, NEW P, 0 \in P, \A l \in 1 .. N : l - 1 \in P => l \in P
  PROVE  0 .. N \subseteq P
<1> DEFINE I == {l \in 0 .. N : l \notin P}
<1>1. CASE I = {}
  BY <1>1
<1>2. CASE I # {}
  <2>1. PICK l \in I : \A k \in I : l <= k
    <3>1. I \subseteq Nat
      OBVIOUS
    <3> HIDE DEF I
    <3> QED BY <1>2, <3>1, LeastOf
  <2>2. l \in 1 .. N
    BY <2>1
  <2>3. l - 1 \in 0 .. N /\ ~(l <= l - 1)
    BY <2>2
  <2>4. l - 1 \in P
    BY <2>1, <2>3
  <2> QED BY <2>1, <2>2, <2>4
<1> QED BY <1>1, <1>2

Starts == {"text", "data", "heap", "stack", "none"}
Struct == [start : Starts, pages : Nat, next : Nat]

\* The structs of a sequence, and that they are a list from v on.
In(s) == {s[i] : i \in 1 .. Len(s)}

Linked(vm, v, s) ==
  /\ s \in Seq(1 .. Len(vm))
  /\ \A i, j \in 1 .. Len(s) : s[i] = s[j] => i = j
  /\ v = IF s = <<>> THEN NoVma ELSE s[1]
  /\ \A i \in 1 .. Len(s) : vm[s[i]].next = IF i = Len(s) THEN NoVma ELSE s[i + 1]

\* No list is longer than there are structs.
LEMMA ListFits ==
  ASSUME NEW n \in Nat, NEW s \in Seq(1 .. n),
         \A i, j \in 1 .. Len(s) : s[i] = s[j] => i = j
  PROVE  Len(s) <= n
<1>1. Len(s) \in Nat /\ s \in [1 .. Len(s) -> 1 .. n]
  BY LenProperties
<1>2. s \in Injection(1 .. Len(s), 1 .. n)
  BY <1>1 DEF Injection, IsInjective
<1>3. /\ IsFiniteSet(1 .. n)
      /\ Cardinality(1 .. n) = n
      /\ Cardinality(1 .. Len(s)) = Len(s)
  <2>1. IsFiniteSet(1 .. n) /\ Cardinality(1 .. n) = IF 1 > n THEN 0 ELSE n - 1 + 1
    BY FS_Interval
  <2> DEFINE m == Len(s)
  <2>2. m \in Nat
    BY <1>1
  <2> HIDE DEF m
  <2>3. Cardinality(1 .. m) = IF 1 > m THEN 0 ELSE m - 1 + 1
    BY <2>2, FS_Interval
  <2>4. Cardinality(1 .. m) = m
    BY <2>2, <2>3
  <2> QED BY <2>1, <2>4 DEF m
<1>4. Cardinality(1 .. Len(s)) <= Cardinality(1 .. n)
  BY <1>2, <1>3, FS_Injection
<1> QED BY <1>3, <1>4

\* The first n structs of a list.
Leading(s, n) == SubSeq(s, 1, IF n <= Len(s) THEN n ELSE Len(s))

LEMMA LeadingShape ==
  ASSUME NEW S, NEW s \in Seq(S), NEW n \in Nat
  PROVE  /\ Leading(s, n) \in Seq(S)
         /\ Len(Leading(s, n)) = IF n <= Len(s) THEN n ELSE Len(s)
         /\ \A i \in 1 .. Len(Leading(s, n)) : Leading(s, n)[i] = s[i]
         /\ n >= Len(s) => Leading(s, n) = s
         /\ n = 0 => Leading(s, n) = <<>>
<1> DEFINE m == IF n <= Len(s) THEN n ELSE Len(s)
<1>1. Len(s) \in Nat /\ m \in Nat /\ m <= Len(s)
  BY LenProperties
<1>2. \A i \in 1 .. m : s[i] \in S
  BY <1>1, ElementOfSeq
<1> HIDE DEF m
<1>3. /\ SubSeq(s, 1, m) \in Seq(S)
      /\ Len(SubSeq(s, 1, m)) = IF 1 <= m THEN m - 1 + 1 ELSE 0
      /\ \A i \in 1 .. m - 1 + 1 : SubSeq(s, 1, m)[i] = s[1 + i - 1]
  BY <1>1, <1>2, SubSeqProperties
<1>4. Leading(s, n) = SubSeq(s, 1, m)
  BY DEF Leading, m
<1>5. Leading(s, n) \in Seq(S) /\ Len(Leading(s, n)) = m
  BY <1>1, <1>3, <1>4
<1>6. \A i \in 1 .. m : Leading(s, n)[i] = s[i]
  <2> TAKE i \in 1 .. m
  <2>1. i \in 1 .. m - 1 + 1 /\ 1 + i - 1 = i
    BY <1>1
  <2> QED BY <1>3, <1>4, <2>1
<1>7. n >= Len(s) => Leading(s, n) = s
  BY <1>1, <1>4, SubSeqFull DEF m
<1>8. n = 0 => Leading(s, n) = <<>>
  BY <1>1, <1>4, SubSeqEmpty DEF m
<1> QED BY <1>5, <1>6, <1>7, <1>8 DEF m

LEMMA LeadingAppend ==
  ASSUME NEW S, NEW s \in Seq(S), NEW n \in 1 .. Len(s)
  PROVE  Append(Leading(s, n - 1), s[n]) = Leading(s, n)
<1>1. Len(s) \in Nat /\ n \in Nat /\ n - 1 \in Nat /\ s[n] \in S /\ n <= Len(s) /\ n >= 1
  BY LenProperties, ElementOfSeq
<1>2. /\ Leading(s, n - 1) \in Seq(S) /\ Len(Leading(s, n - 1)) = n - 1
      /\ \A i \in 1 .. n - 1 : Leading(s, n - 1)[i] = s[i]
  BY <1>1, LeadingShape
<1>3. /\ Leading(s, n) \in Seq(S) /\ Len(Leading(s, n)) = n
      /\ \A i \in 1 .. n : Leading(s, n)[i] = s[i]
  BY <1>1, LeadingShape
<1> DEFINE a == Append(Leading(s, n - 1), s[n])
<1>4. /\ a \in Seq(S) /\ Len(a) = n
      /\ \A i \in 1 .. n : a[i] = s[i]
  <2>1. /\ a \in Seq(S) /\ Len(a) = Len(Leading(s, n - 1)) + 1
        /\ \A i \in 1 .. Len(Leading(s, n - 1)) : a[i] = Leading(s, n - 1)[i]
        /\ a[Len(Leading(s, n - 1)) + 1] = s[n]
    BY <1>1, <1>2, AppendProperties
  <2> HIDE DEF a
  <2> QED BY <1>1, <1>2, <2>1
<1> HIDE DEF a
<1> QED BY <1>3, <1>4, SeqEqual DEF a

\* What the loop over a list comes to is the list.
LEMMA ChainIs ==
  ASSUME NEW vm, Len(vm) \in Nat, NEW v, NEW s, Linked(vm, v, s)
  PROVE  Chain(vm, v) = s
<1> DEFINE N == Len(vm) + 1
           walk[n \in 0 .. N] ==
             IF n = 0 THEN <<>>
             ELSE LET seen == walk[n - 1]
                      u    == IF seen = <<>> THEN v ELSE vm[seen[Len(seen)]].next
                  IN  IF u = NoVma THEN seen ELSE Append(seen, u)
           after(seen) == IF seen = <<>> THEN v ELSE vm[seen[Len(seen)]].next
           Step(seen) == IF after(seen) = NoVma THEN seen ELSE Append(seen, after(seen))
           f == [n \in 0 .. N |-> Leading(s, n)]
<1>0. Chain(vm, v) = walk[N]
  BY DEF Chain
<1>1. /\ s \in Seq(1 .. Len(vm)) /\ Len(s) \in Nat /\ N \in Nat /\ Len(s) <= N
      /\ \A i \in 1 .. Len(s) : s[i] \in 1 .. Len(vm) /\ s[i] # NoVma
      /\ s = <<>> <=> Len(s) = 0
  <2>1. s \in Seq(1 .. Len(vm))
    BY DEF Linked
  <2>2. Len(s) <= Len(vm)
    BY <2>1, ListFits DEF Linked
  <2>3. Len(s) \in Nat /\ (s = <<>> <=> Len(s) = 0)
    BY <2>1, LenProperties, EmptySeq
  <2>4. \A i \in 1 .. Len(s) : s[i] \in 1 .. Len(vm)
    BY <2>1, ElementOfSeq
  <2> QED BY <2>1, <2>2, <2>3, <2>4 DEF NoVma
<1>2. ASSUME NEW n \in 1 .. N
      PROVE  Step(Leading(s, n - 1)) = Leading(s, n)
  <2>0. n - 1 \in Nat /\ n \in Nat /\ n >= 1
    BY <1>1
  <2>1. /\ Leading(s, n - 1) \in Seq(1 .. Len(vm))
        /\ Len(Leading(s, n - 1)) = IF n - 1 <= Len(s) THEN n - 1 ELSE Len(s)
        /\ \A i \in 1 .. Len(Leading(s, n - 1)) : Leading(s, n - 1)[i] = s[i]
        /\ n - 1 >= Len(s) => Leading(s, n - 1) = s
    BY <1>1, <2>0, LeadingShape
  <2>2. Leading(s, n - 1) = <<>> <=> Len(Leading(s, n - 1)) = 0
    BY <2>1, EmptySeq
  <2>3. CASE n <= Len(s)
    <3>1. after(Leading(s, n - 1)) = s[n]
      <4>1. CASE n = 1
        BY <1>1, <2>1, <2>2, <2>3, <4>1 DEF Linked
      <4>2. CASE n # 1
        <5>1. /\ Leading(s, n - 1) # <<>> /\ Len(Leading(s, n - 1)) = n - 1
              /\ Leading(s, n - 1)[n - 1] = s[n - 1]
              /\ n - 1 \in 1 .. Len(s) /\ n - 1 # Len(s) /\ n - 1 + 1 = n
          BY <1>1, <2>0, <2>1, <2>2, <2>3, <4>2
        <5>2. vm[s[n - 1]].next = s[n]
          BY <5>1 DEF Linked
        <5> QED BY <5>1, <5>2
      <4> QED BY <4>1, <4>2
    <3>2. s[n] # NoVma /\ n \in 1 .. Len(s)
      BY <1>1, <2>0, <2>3
    <3> HIDE DEF after
    <3> QED BY <1>1, <3>1, <3>2, LeadingAppend
  <2>4. CASE ~(n <= Len(s))
    <3>1. Leading(s, n - 1) = s /\ Leading(s, n) = s
      BY <1>1, <2>0, <2>1, <2>4, LeadingShape
    <3>2. after(s) = NoVma
      BY <1>1 DEF Linked
    <3> QED BY <3>1, <3>2
  <2> QED BY <2>3, <2>4
<1>3. Leading(s, 0) = <<>>
  BY <1>1, LeadingShape
<1>4. f = [n \in 0 .. N |-> IF n = 0 THEN <<>> ELSE Step(f[n - 1])]
  <2>1. ASSUME NEW n \in 0 .. N
        PROVE  f[n] = IF n = 0 THEN <<>> ELSE Step(f[n - 1])
    <3>1. CASE n = 0
      BY <1>3, <3>1
    <3>2. CASE n # 0
      <4>1. n \in 1 .. N /\ n - 1 \in 0 .. N
        BY <1>1, <3>2
      <4> HIDE DEF Step
      <4> QED BY <1>2, <3>2, <4>1
    <3> QED BY <3>1, <3>2
  <2> HIDE DEF Step
  <2> QED BY <2>1
<1>5. walk = [n \in 0 .. N |-> IF n = 0 THEN <<>> ELSE Step(walk[n - 1])]
  <2>1. \E w : w = [n \in 0 .. N |-> IF n = 0 THEN <<>> ELSE Step(w[n - 1])]
    <3> HIDE DEF f, Step
    <3> QED BY <1>4
  <2> HIDE DEF f
  <2> QED BY <2>1
<1> DEFINE P == {n \in 0 .. N : walk[n] = Leading(s, n)}
<1> HIDE DEF walk, Step, f
<1>6. 0 \in P
  BY <1>1, <1>3, <1>5
<1>7. \A n \in 1 .. N : n - 1 \in P => n \in P
  <2> SUFFICES ASSUME NEW n \in 1 .. N, n - 1 \in P PROVE n \in P
    OBVIOUS
  <2>1. n \in 0 .. N /\ n # 0
    BY <1>1
  <2>2. walk[n] = Step(walk[n - 1])
    BY <1>5, <2>1
  <2> QED BY <1>2, <2>1, <2>2
<1>8. N \in P
  <2>1. N \in Nat /\ N \in 0 .. N
    BY <1>1
  <2> HIDE DEF P, N
  <2>2. 0 .. N \subseteq P
    BY <1>6, <1>7, <2>1, Upward
  <2> QED BY <2>1, <2>2
<1>9. Leading(s, N) = s
  BY <1>1, LeadingShape
<1> QED BY <1>0, <1>8, <1>9

-----------------------------------------------------------------------------
(* Lists whose structs change. *)

LEMMA LinkedNone == ASSUME NEW vm PROVE Linked(vm, NoVma, <<>>) /\ In(<<>>) = {}
<1>1. <<>> \in Seq(1 .. Len(vm)) /\ Len(<<>>) = 0
  BY EmptySeq
<1> QED BY <1>1 DEF Linked, In

LEMMA LinkedParts ==
  ASSUME NEW vm, NEW v, NEW s, Linked(vm, v, s), Len(vm) \in Nat
  PROVE  /\ Len(s) \in Nat /\ s \in Seq(1 .. Len(vm))
         /\ In(s) \subseteq 1 .. Len(vm)
         /\ \A i \in 1 .. Len(s) : s[i] \in In(s)
         /\ s = <<>> <=> v = NoVma
         /\ s # <<>> => Len(s) >= 1 /\ v = s[1] /\ v \in In(s)
         /\ s = <<>> => Len(s) = 0 /\ In(s) = {}
<1>1. s \in Seq(1 .. Len(vm))
  BY DEF Linked
<1>2. Len(s) \in Nat /\ (s = <<>> <=> Len(s) = 0)
  BY <1>1, LenProperties, EmptySeq
<1>3. \A i \in 1 .. Len(s) : s[i] \in 1 .. Len(vm)
  BY <1>1, ElementOfSeq
<1>4. s # <<>> => v = s[1] /\ 1 \in 1 .. Len(s)
  BY <1>2 DEF Linked
<1>5. s = <<>> => v = NoVma
  BY DEF Linked
<1> QED BY <1>1, <1>2, <1>3, <1>4, <1>5 DEF In, NoVma

LEMMA LinkedSame ==
  ASSUME NEW vm, NEW wm, NEW v, NEW s, Linked(vm, v, s),
         Len(vm) \in Nat, Len(wm) \in Nat, Len(vm) <= Len(wm),
         \A u \in In(s) : wm[u].next = vm[u].next
  PROVE  Linked(wm, v, s)
<1>1. s \in Seq(1 .. Len(wm))
  <2>1. 1 .. Len(vm) \subseteq 1 .. Len(wm)
    OBVIOUS
  <2>2. s \in Seq(1 .. Len(vm))
    BY DEF Linked
  <2> QED BY <2>1, <2>2, SeqMonotonic
<1>2. \A i \in 1 .. Len(s) : wm[s[i]].next = vm[s[i]].next
  BY DEF In
<1> QED BY <1>1, <1>2 DEF Linked

LEMMA LinkedTail ==
  ASSUME NEW vm, NEW v, NEW s, Linked(vm, v, s), Len(vm) \in Nat, s # <<>>
  PROVE  Linked(vm, vm[v].next, Tail(s)) /\ In(Tail(s)) \subseteq In(s) \ {v}
<1> DEFINE r == Tail(s)
<1>1. /\ s \in Seq(1 .. Len(vm)) /\ Len(s) \in Nat /\ Len(s) >= 1 /\ v = s[1]
  BY LinkedParts
<1>2. /\ r \in Seq(1 .. Len(vm)) /\ Len(r) = Len(s) - 1
      /\ \A i \in 1 .. Len(r) : r[i] = s[i + 1]
      /\ r = <<>> <=> Len(r) = 0
  BY <1>1, HeadTailProperties, EmptySeq
<1> HIDE DEF r
<1>3. \A i \in 1 .. Len(r) : i + 1 \in 1 .. Len(s) /\ i + 1 # 1
  BY <1>1, <1>2
<1>4. \A i, j \in 1 .. Len(r) : r[i] = r[j] => i = j
  <2> SUFFICES ASSUME NEW i \in 1 .. Len(r), NEW j \in 1 .. Len(r), r[i] = r[j]
               PROVE  i = j
    OBVIOUS
  <2>1. i + 1 = j + 1
    BY <1>2, <1>3 DEF Linked
  <2> QED BY <2>1
<1>5. vm[v].next = IF r = <<>> THEN NoVma ELSE r[1]
  <2>0. 1 \in 1 .. Len(s)
    BY <1>1
  <2>1. vm[s[1]].next = IF 1 = Len(s) THEN NoVma ELSE s[1 + 1]
    BY <2>0 DEF Linked
  <2>2. r # <<>> => 1 \in 1 .. Len(r)
    BY <1>1, <1>2
  <2> QED BY <1>1, <1>2, <2>1, <2>2
<1>6. \A i \in 1 .. Len(r) : vm[r[i]].next = IF i = Len(r) THEN NoVma ELSE r[i + 1]
  <2> TAKE i \in 1 .. Len(r)
  <2>1. vm[s[i + 1]].next = IF i + 1 = Len(s) THEN NoVma ELSE s[i + 1 + 1]
    BY <1>3 DEF Linked
  <2>2. i # Len(r) => i + 1 \in 1 .. Len(r)
    BY <1>1, <1>2
  <2>3. (i + 1 = Len(s) <=> i = Len(r)) /\ r[i] = s[i + 1]
    BY <1>1, <1>2
  <2>4. i # Len(r) => r[i + 1] = s[i + 1 + 1]
    BY <1>2, <2>2
  <2> QED BY <2>1, <2>3, <2>4
<1>7. In(r) \subseteq In(s) \ {v}
  <2> SUFFICES ASSUME NEW i \in 1 .. Len(r) PROVE r[i] \in In(s) /\ r[i] # v
    BY DEF In
  <2>1. 1 \in 1 .. Len(s)
    BY <1>1
  <2>2. s[i + 1] # s[1]
    BY <1>3, <2>1 DEF Linked
  <2> QED BY <1>1, <1>2, <1>3, <2>2 DEF In
<1>8. Linked(vm, vm[v].next, r)
  BY <1>2, <1>4, <1>5, <1>6 DEF Linked
<1> QED BY <1>7, <1>8 DEF r

LEMMA LinkedAppend ==
  ASSUME NEW vm, NEW wm, NEW v, NEW s, NEW u \in 1 .. Len(vm), Linked(vm, v, s),
         Len(vm) \in Nat, Len(wm) = Len(vm),
         u \notin In(s), vm[u].next = NoVma,
         \A x \in 1 .. Len(vm) :
           wm[x].next = IF s # <<>> /\ x = s[Len(s)] THEN u ELSE vm[x].next
  PROVE  /\ Linked(wm, IF s = <<>> THEN u ELSE v, Append(s, u))
         /\ In(Append(s, u)) = In(s) \cup {u}
         /\ Append(s, u) # <<>>
<1> DEFINE r == Append(s, u)
           n == Len(s)
<1>1. /\ s \in Seq(1 .. Len(vm)) /\ n \in Nat
      /\ s # <<>> => n >= 1 /\ v = s[1]
      /\ s = <<>> => n = 0
      /\ \A i \in 1 .. n : s[i] \in In(s)
      /\ In(s) \subseteq 1 .. Len(vm)
  BY LinkedParts
<1>2. /\ r \in Seq(1 .. Len(vm)) /\ Len(r) = n + 1
      /\ \A i \in 1 .. n : r[i] = s[i]
      /\ r[n + 1] = u
      /\ r # <<>>
  BY <1>1, AppendProperties, EmptySeq
<1>a. \A i \in 1 .. n + 1 : i = n + 1 \/ i \in 1 .. n
  BY <1>1
<1>3. /\ \A i, j \in 1 .. n : s[i] = s[j] => i = j
      /\ \A i \in 1 .. n : vm[s[i]].next = IF i = n THEN NoVma ELSE s[i + 1]
  BY DEF Linked
<1> HIDE DEF r, n
<1>4. \A i, j \in 1 .. Len(r) : r[i] = r[j] => i = j
  <2>1. \A i \in 1 .. n : r[i] # r[n + 1]
    <3> TAKE i \in 1 .. n
    <3>1. s[i] \in In(s)
      BY <1>1
    <3> QED BY <1>2, <3>1
  <2> SUFFICES ASSUME NEW i \in 1 .. n + 1, NEW j \in 1 .. n + 1, r[i] = r[j]
               PROVE  i = j
    BY <1>2
  <2>2. CASE i \in 1 .. n /\ j \in 1 .. n
    BY <1>2, <1>3, <2>2
  <2> QED BY <1>a, <2>1, <2>2
<1>5. (IF s = <<>> THEN u ELSE v) = r[1]
  <2>1. CASE s = <<>>
    BY <1>1, <1>2, <2>1
  <2>2. CASE s # <<>>
    <3>1. 1 \in 1 .. n
      BY <1>1, <2>2
    <3> QED BY <1>1, <1>2, <2>2, <3>1
  <2> QED BY <2>1, <2>2
<1>6. \A i \in 1 .. Len(r) : wm[r[i]].next = IF i = Len(r) THEN NoVma ELSE r[i + 1]
  <2> SUFFICES ASSUME NEW i \in 1 .. n + 1
               PROVE  wm[r[i]].next = IF i = n + 1 THEN NoVma ELSE r[i + 1]
    BY <1>2
  <2>1. CASE i = n + 1
    <3>1. s # <<>> => n \in 1 .. n
      BY <1>1
    <3>2. ~(s # <<>> /\ u = s[n])
      BY <1>1, <3>1
    <3> QED BY <1>2, <2>1, <3>2 DEF n
  <2>2. CASE i \in 1 .. n
    <3>1. /\ r[i] = s[i] /\ s[i] \in 1 .. Len(vm) /\ i # n + 1 /\ s # <<>>
          /\ n \in 1 .. n
      BY <1>1, <1>2, <2>2
    <3>2. wm[s[i]].next = IF s[i] = s[n] THEN u ELSE vm[s[i]].next
      BY <3>1 DEF n
    <3>3. s[i] = s[n] <=> i = n
      BY <1>3, <2>2, <3>1
    <3>4. i # n => i + 1 \in 1 .. n
      BY <1>1, <2>2
    <3> QED BY <1>2, <1>3, <2>2, <3>1, <3>2, <3>3, <3>4
  <2> QED BY <1>a, <2>1, <2>2
<1>7. In(r) = In(s) \cup {u}
  <2>1. n + 1 \in 1 .. n + 1 /\ \A i \in 1 .. n : i \in 1 .. n + 1
    BY <1>1
  <2>2. ASSUME NEW x \in In(r) PROVE x \in In(s) \cup {u}
    <3>1. PICK i \in 1 .. n + 1 : x = r[i]
      BY <1>2 DEF In
    <3> QED BY <1>1, <1>2, <1>a, <3>1
  <2>3. ASSUME NEW x \in In(s) PROVE x \in In(r)
    <3>1. PICK i \in 1 .. n : x = s[i]
      BY DEF In, n
    <3>2. i \in 1 .. n + 1 /\ x = r[i]
      BY <1>2, <2>1, <3>1
    <3> QED BY <1>2, <3>2 DEF In
  <2>4. u \in In(r)
    BY <1>2, <2>1 DEF In
  <2> QED BY <2>2, <2>3, <2>4
<1>8. r \in Seq(1 .. Len(wm))
  BY <1>2
<1>9. Linked(wm, IF s = <<>> THEN u ELSE v, r)
  BY <1>2, <1>4, <1>5, <1>6, <1>8 DEF Linked
<1> QED BY <1>2, <1>7, <1>9 DEF r

-----------------------------------------------------------------------------
(* What the structs of a list say. *)

Says(vm, u) == <<vm[u].start, vm[u].pages>>
Row(vm, s)  == [i \in 1 .. Len(s) |-> Says(vm, s[i])]

LEMMA RowSame ==
  ASSUME NEW vm, NEW wm, NEW s, \A u \in In(s) : Says(wm, u) = Says(vm, u)
  PROVE  Row(wm, s) = Row(vm, s)
<1>1. \A i \in 1 .. Len(s) : s[i] \in In(s)
  BY DEF In
<1> QED BY <1>1 DEF Row

LEMMA RowShape ==
  ASSUME NEW vm, NEW S, NEW s \in Seq(S)
  PROVE  LET T == {Says(vm, x) : x \in S}
         IN  /\ Row(vm, s) \in Seq(T) /\ Len(Row(vm, s)) = Len(s)
             /\ \A i \in 1 .. Len(s) : Row(vm, s)[i] = Says(vm, s[i])
<1> DEFINE n == Len(s)
<1>1. n \in Nat /\ \A i \in 1 .. n : s[i] \in S
  BY LenProperties, ElementOfSeq
<1> QED BY <1>1 DEF Row

LEMMA RowNone == ASSUME NEW vm PROVE Row(vm, <<>>) = <<>>
<1> DEFINE T == {Says(vm, x) : x \in {}}
           r == Row(vm, <<>>)
<1>1. <<>> \in Seq({}) /\ Len(<<>>) = 0
  BY EmptySeq
<1>2. r \in Seq(T) /\ Len(r) = Len(<<>>)
  BY <1>1, RowShape
<1> HIDE DEF r, T
<1>3. r = <<>>
  BY <1>1, <1>2, EmptySeq
<1> QED BY <1>3 DEF r

LEMMA RowAppend ==
  ASSUME NEW vm, NEW S, NEW s \in Seq(S), NEW u \in S
  PROVE  Row(vm, Append(s, u)) = Append(Row(vm, s), Says(vm, u))
<1> DEFINE n == Len(s)
           r == Append(s, u)
           T == {Says(vm, x) : x \in S}
           a == Row(vm, s)
           b == Append(a, Says(vm, u))
           c == Row(vm, r)
<1>1. n \in Nat /\ \A i \in 1 .. n : s[i] \in S
  BY LenProperties, ElementOfSeq
<1>2. /\ r \in Seq(S) /\ Len(r) = n + 1
      /\ \A i \in 1 .. n : r[i] = s[i]
      /\ r[n + 1] = u
  BY AppendProperties
<1>3. a \in Seq(T) /\ Len(a) = n /\ \A i \in 1 .. n : a[i] = Says(vm, s[i])
  BY <1>1 DEF Row
<1>4. c \in Seq(T) /\ Len(c) = n + 1 /\ \A i \in 1 .. n + 1 : c[i] = Says(vm, r[i])
  <2>1. \A i \in 1 .. n + 1 : r[i] \in S
    BY <1>2, ElementOfSeq
  <2> HIDE DEF r
  <2> QED BY <1>1, <1>2, <2>1 DEF Row
<1>5. Says(vm, u) \in T
  OBVIOUS
<1> HIDE DEF n, r, T, a, c
<1>6. /\ b \in Seq(T) /\ Len(b) = n + 1 /\ \A i \in 1 .. n : b[i] = a[i]
      /\ b[n + 1] = Says(vm, u)
  BY <1>3, <1>5, AppendProperties
<1> HIDE DEF b
<1>7. \A i \in 1 .. n + 1 : i = n + 1 \/ i \in 1 .. n
  BY <1>1
<1>8. \A i \in 1 .. n + 1 : b[i] = c[i]
  BY <1>2, <1>3, <1>4, <1>6, <1>7
<1>9. b = c
  BY <1>4, <1>6, <1>8, SeqEqual
<1> QED BY <1>9 DEF a, b, c, r

Areas  == [vm : Seq(Struct), free : Nat, list : [Tasks -> Nat]]
Owners == Tasks \cup {NULL}
HeadOf(as, k) == IF k = NULL THEN as.free ELSE as.list[k]

\* The lists of the tasks and of the free structs, and no struct is on two.
Held(as, L) ==
  /\ as \in Areas
  /\ \A k \in Owners : Linked(as.vm, HeadOf(as, k), L[k])
  /\ \A k, l \in Owners : k # l => In(L[k]) \cap In(L[l]) = {}

RowAt(as, L, k) == Row(as.vm, L[k])
SaysAt(as, u)   == Says(as.vm, u)

LEMMA AreasParts ==
  ASSUME NEW as \in Areas
  PROVE  /\ as.vm \in Seq(Struct) /\ Len(as.vm) \in Nat /\ as.free \in Nat
         /\ as.list \in [Tasks -> Nat]
         /\ \A u \in 1 .. Len(as.vm) : as.vm[u] \in Struct
         /\ \A k \in Owners : HeadOf(as, k) \in Nat
<1>1. as.vm \in Seq(Struct) /\ as.free \in Nat /\ as.list \in [Tasks -> Nat]
  BY DEF Areas
<1>2. Len(as.vm) \in Nat /\ \A u \in 1 .. Len(as.vm) : as.vm[u] \in Struct
  BY <1>1, LenProperties, ElementOfSeq
<1>3. \A k \in Owners : HeadOf(as, k) \in Nat
  BY <1>1 DEF HeadOf, Owners
<1> QED BY <1>1, <1>2, <1>3

LEMMA HeldParts ==
  ASSUME NEW as, NEW L, Held(as, L)
  PROVE  /\ as \in Areas /\ Len(as.vm) \in Nat
         /\ \A k \in Owners :
              /\ Linked(as.vm, HeadOf(as, k), L[k])
              /\ Chain(as.vm, HeadOf(as, k)) = L[k]
              /\ L[k] \in Seq(1 .. Len(as.vm)) /\ Len(L[k]) \in Nat
              /\ In(L[k]) \subseteq 1 .. Len(as.vm)
              /\ L[k] = <<>> <=> HeadOf(as, k) = NoVma
              /\ L[k] # <<>> => Len(L[k]) >= 1 /\ HeadOf(as, k) \in In(L[k])
         /\ \A k, l \in Owners : k # l => In(L[k]) \cap In(L[l]) = {}
<1>1. as \in Areas /\ Len(as.vm) \in Nat
  BY AreasParts DEF Held
<1>2. ASSUME NEW k \in Owners
      PROVE  /\ Linked(as.vm, HeadOf(as, k), L[k])
             /\ Chain(as.vm, HeadOf(as, k)) = L[k]
             /\ L[k] \in Seq(1 .. Len(as.vm)) /\ Len(L[k]) \in Nat
             /\ In(L[k]) \subseteq 1 .. Len(as.vm)
             /\ L[k] = <<>> <=> HeadOf(as, k) = NoVma
             /\ L[k] # <<>> => Len(L[k]) >= 1 /\ HeadOf(as, k) \in In(L[k])
  <2> DEFINE v == HeadOf(as, k)  s == L[k]  vm == as.vm
  <2>1. Linked(vm, v, s) /\ Len(vm) \in Nat
    BY <1>1 DEF Held
  <2> HIDE DEF v, s, vm
  <2>2. Chain(vm, v) = s
    BY <2>1, ChainIs
  <2>3. /\ Len(s) \in Nat /\ s \in Seq(1 .. Len(vm)) /\ In(s) \subseteq 1 .. Len(vm)
        /\ s = <<>> <=> v = NoVma
        /\ s # <<>> => Len(s) >= 1 /\ v \in In(s)
    BY <2>1, LinkedParts
  <2> QED BY <2>1, <2>2, <2>3 DEF v, s, vm
<1> QED BY <1>1, <1>2 DEF Held

LEMMA HeldAt ==
  ASSUME NEW as, NEW L, Held(as, L), NEW k \in Owners
  PROVE  /\ Linked(as.vm, HeadOf(as, k), L[k])
         /\ Chain(as.vm, HeadOf(as, k)) = L[k]
         /\ L[k] \in Seq(1 .. Len(as.vm)) /\ Len(L[k]) \in Nat
         /\ In(L[k]) \subseteq 1 .. Len(as.vm)
         /\ L[k] = <<>> <=> HeadOf(as, k) = NoVma
         /\ L[k] # <<>> => Len(L[k]) \in 1 .. Len(L[k]) /\ HeadOf(as, k) \in In(L[k])
<1>1. Len(L[k]) \in Nat /\ (L[k] # <<>> => Len(L[k]) >= 1)
  BY HeldParts
<1>2. L[k] # <<>> => Len(L[k]) \in 1 .. Len(L[k])
  BY <1>1
<1> QED BY <1>1, <1>2, HeldParts

\* Structs on no list change, or new ones come.
Blanked(as, L, v, bs) ==
  /\ Held(as, L) /\ \A k \in Owners : v \notin In(L[k])
  /\ bs \in Areas /\ Len(as.vm) <= Len(bs.vm)
  /\ \A u \in 1 .. Len(as.vm) : u # v => bs.vm[u] = as.vm[u]
  /\ \A k \in Owners : HeadOf(bs, k) = HeadOf(as, k)

Kept(as, L, bs) == \A k \in Owners : RowAt(bs, L, k) = RowAt(as, L, k)

LEMMA HeldBlank ==
  ASSUME NEW as, NEW L, NEW v, NEW bs, Blanked(as, L, v, bs)
  PROVE  Held(bs, L) /\ Kept(as, L, bs)
<1> USE DEF Blanked
<1>1. Len(as.vm) \in Nat /\ Len(bs.vm) \in Nat
  BY HeldParts, AreasParts
<1>2. \A k \in Owners : \A u \in In(L[k]) : bs.vm[u] = as.vm[u]
  <2> SUFFICES ASSUME NEW k \in Owners, NEW u \in In(L[k])
               PROVE  bs.vm[u] = as.vm[u]
    OBVIOUS
  <2>1. u \in 1 .. Len(as.vm)
    BY HeldParts
  <2>2. u # v
    OBVIOUS
  <2> QED BY <2>1, <2>2
<1>3. ASSUME NEW k \in Owners
      PROVE  /\ Linked(bs.vm, HeadOf(bs, k), L[k])
             /\ Row(bs.vm, L[k]) = Row(as.vm, L[k])
  <2> DEFINE h == HeadOf(as, k)  s == L[k]  vm == as.vm  wm == bs.vm
  <2>1. Linked(vm, h, s) /\ HeadOf(bs, k) = h
    BY HeldParts
  <2>2. \A u \in In(s) : wm[u].next = vm[u].next /\ Says(wm, u) = Says(vm, u)
    BY <1>2 DEF Says
  <2>3. Len(vm) \in Nat /\ Len(wm) \in Nat /\ Len(vm) <= Len(wm)
    BY <1>1
  <2> HIDE DEF h, s, vm, wm
  <2>4. Linked(wm, h, s)
    BY <2>1, <2>2, <2>3, LinkedSame
  <2>5. Row(wm, s) = Row(vm, s)
    BY <2>2, RowSame
  <2> QED BY <2>1, <2>4, <2>5 DEF h, s, vm, wm
<1> QED BY <1>3 DEF Held, Kept, RowAt

\* A struct leaves the list of o, or more of them do.
Less(as, L, o, bs, M) ==
  /\ Held(as, L) /\ o \in Owners
  /\ bs \in Areas /\ bs.vm = as.vm
  /\ In(M[o]) \subseteq In(L[o]) /\ Linked(as.vm, HeadOf(bs, o), M[o])
  /\ \A k \in Owners \ {o} : M[k] = L[k] /\ HeadOf(bs, k) = HeadOf(as, k)

LEMMA HeldLess ==
  ASSUME NEW as, NEW L, NEW o, NEW bs, NEW M, Less(as, L, o, bs, M)
  PROVE  Held(bs, M)
<1> USE DEF Less
<1>1. \A k \in Owners : In(M[k]) \subseteq In(L[k])
  <2> TAKE k \in Owners
  <2>1. k # o => M[k] = L[k]
    OBVIOUS
  <2> QED BY <2>1
<1>2. \A k \in Owners : Linked(bs.vm, HeadOf(bs, k), M[k])
  <2> TAKE k \in Owners
  <2>1. Linked(as.vm, HeadOf(as, k), L[k])
    BY DEF Held
  <2>2. k # o => M[k] = L[k] /\ HeadOf(bs, k) = HeadOf(as, k)
    OBVIOUS
  <2> QED BY <2>1, <2>2
<1>3. \A k, l \in Owners : k # l => In(M[k]) \cap In(M[l]) = {}
  <2> SUFFICES ASSUME NEW k \in Owners, NEW l \in Owners, k # l
               PROVE  In(M[k]) \cap In(M[l]) = {}
    OBVIOUS
  <2>1. In(L[k]) \cap In(L[l]) = {}
    BY DEF Held
  <2> QED BY <1>1, <2>1
<1> QED BY <1>2, <1>3 DEF Held

\* A struct that is on no list comes to the end of that of o.
More(as, L, o, v, bs, M) ==
  /\ Held(as, L) /\ o \in Owners /\ v \in 1 .. Len(as.vm)
  /\ \A k \in Owners : v \notin In(L[k])
  /\ as.vm[v].next = NoVma
  /\ bs \in Areas /\ Len(bs.vm) = Len(as.vm)
  /\ \A u \in 1 .. Len(as.vm) :
       /\ Says(bs.vm, u) = Says(as.vm, u)
       /\ bs.vm[u].next = IF L[o] # <<>> /\ u = L[o][Len(L[o])]
                          THEN v ELSE as.vm[u].next
  /\ HeadOf(bs, o) = IF L[o] = <<>> THEN v ELSE HeadOf(as, o)
  /\ \A k \in Owners \ {o} : HeadOf(bs, k) = HeadOf(as, k)
  /\ M[o] = Append(L[o], v) /\ \A k \in Owners \ {o} : M[k] = L[k]

Grown(as, L, o, v, bs, M) ==
  /\ RowAt(bs, M, o) = Append(RowAt(as, L, o), SaysAt(as, v))
  /\ \A k \in Owners \ {o} : RowAt(bs, M, k) = RowAt(as, L, k)

LEMMA HeldMore ==
  ASSUME NEW as, NEW L, NEW o, NEW v, NEW bs, NEW M, More(as, L, o, v, bs, M)
  PROVE  Held(bs, M) /\ Grown(as, L, o, v, bs, M)
<1>0. /\ Held(as, L) /\ o \in Owners /\ v \in 1 .. Len(as.vm)
      /\ \A k \in Owners : v \notin In(L[k])
      /\ as.vm[v].next = NoVma
      /\ bs \in Areas /\ Len(bs.vm) = Len(as.vm)
  BY DEF More
<1>h. /\ \A u \in 1 .. Len(as.vm) :
           /\ Says(bs.vm, u) = Says(as.vm, u)
           /\ bs.vm[u].next = IF L[o] # <<>> /\ u = L[o][Len(L[o])]
                              THEN v ELSE as.vm[u].next
      /\ HeadOf(bs, o) = IF L[o] = <<>> THEN v ELSE HeadOf(as, o)
      /\ \A k \in Owners \ {o} : HeadOf(bs, k) = HeadOf(as, k)
      /\ M[o] = Append(L[o], v) /\ \A k \in Owners \ {o} : M[k] = L[k]
  BY DEF More
<1> USE <1>0, <1>h
<1>1. Len(as.vm) \in Nat /\ Len(bs.vm) \in Nat /\ Len(as.vm) <= Len(bs.vm)
  <2> DEFINE n == Len(as.vm)  m == Len(bs.vm)
  <2>1. n \in Nat /\ m = n
    BY HeldParts
  <2> HIDE DEF n, m
  <2>2. m \in Nat /\ n <= m
    BY <2>1
  <2> QED BY <2>1, <2>2 DEF n, m
<1>2. ASSUME NEW k \in Owners
      PROVE  In(L[k]) \subseteq 1 .. Len(as.vm) /\ Row(bs.vm, L[k]) = Row(as.vm, L[k])
  <2> DEFINE s == L[k]  vm == as.vm  wm == bs.vm
  <2>1. In(s) \subseteq 1 .. Len(vm)
    BY HeldParts
  <2>2. \A u \in In(s) : Says(wm, u) = Says(vm, u)
    BY <2>1
  <2> HIDE DEF s, vm, wm
  <2>3. Row(wm, s) = Row(vm, s)
    BY <2>2, RowSame
  <2> QED BY <2>1, <2>3 DEF s, vm, wm
<1>3. /\ Linked(bs.vm, HeadOf(bs, o), M[o])
      /\ In(M[o]) = In(L[o]) \cup {v}
  <2> DEFINE h == HeadOf(as, o)  s == L[o]  vm == as.vm  wm == bs.vm
             g == HeadOf(bs, o)
  <2>1. Linked(vm, h, s) /\ v \in 1 .. Len(vm) /\ v \notin In(s) /\ vm[v].next = NoVma
    BY HeldParts
  <2>2. \A u \in 1 .. Len(vm) :
          wm[u].next = IF s # <<>> /\ u = s[Len(s)] THEN v ELSE vm[u].next
    OBVIOUS
  <2>3. g = (IF s = <<>> THEN v ELSE h) /\ Len(vm) \in Nat /\ Len(wm) = Len(vm)
    BY <1>1
  <2> HIDE DEF h, s, vm, wm, g
  <2>4. Linked(wm, g, Append(s, v)) /\ In(Append(s, v)) = In(s) \cup {v}
    BY <2>1, <2>2, <2>3, LinkedAppend
  <2> QED BY <2>4 DEF s, wm, g
<1>4. Row(bs.vm, M[o]) = Append(Row(as.vm, L[o]), Says(as.vm, v))
  <2> DEFINE s == L[o]  vm == as.vm  wm == bs.vm
  <2>1. s \in Seq(1 .. Len(vm)) /\ v \in 1 .. Len(vm)
    BY HeldParts
  <2>2. Row(wm, s) = Row(vm, s) /\ Says(wm, v) = Says(vm, v)
    BY <1>2
  <2> HIDE DEF s, vm, wm
  <2>3. Row(wm, Append(s, v)) = Append(Row(wm, s), Says(wm, v))
    BY <2>1, RowAppend
  <2> QED BY <2>2, <2>3 DEF s, vm, wm
<1>5. ASSUME NEW k \in Owners, k # o
      PROVE  Linked(bs.vm, HeadOf(bs, k), M[k]) /\ M[k] = L[k]
  <2> DEFINE h == HeadOf(as, k)  s == L[k]  vm == as.vm  wm == bs.vm
  <2>1. Linked(vm, h, s) /\ HeadOf(bs, k) = h /\ M[k] = s
    BY <1>5, HeldParts
  <2>2. \A u \in In(s) : wm[u].next = vm[u].next
    <3>1. \A u \in In(s) : u \in 1 .. Len(as.vm) /\ u \notin In(L[o])
      BY <1>2, <1>5 DEF Held
    <3>2. L[o] # <<>> => L[o][Len(L[o])] \in In(L[o])
      <4>1. L[o] # <<>> => Len(L[o]) \in 1 .. Len(L[o])
        BY HeldParts
      <4> QED BY <4>1 DEF In
    <3> QED BY <3>1, <3>2
  <2>3. Len(vm) \in Nat /\ Len(wm) \in Nat /\ Len(vm) <= Len(wm)
    BY <1>1
  <2> HIDE DEF h, s, vm, wm
  <2>4. Linked(wm, h, s)
    BY <2>1, <2>2, <2>3, LinkedSame
  <2> QED BY <2>1, <2>4 DEF h, s, vm, wm
<1>6. \A k, l \in Owners : k # l => In(M[k]) \cap In(M[l]) = {}
  <2> SUFFICES ASSUME NEW k \in Owners, NEW l \in Owners, k # l
               PROVE  In(M[k]) \cap In(M[l]) = {}
    OBVIOUS
  <2>1. In(L[k]) \cap In(L[l]) = {}
    BY DEF Held
  <2>2. v \notin In(L[k]) /\ v \notin In(L[l])
    OBVIOUS
  <2>3. \A j \in Owners : In(M[j]) \subseteq In(L[j]) \cup {v}
    BY <1>3, <1>5
  <2>4. \A j \in Owners : j # o => In(M[j]) = In(L[j])
    BY <1>5
  <2> QED BY <2>1, <2>2, <2>3, <2>4
<1>7. Held(bs, M)
  BY <1>3, <1>5, <1>6 DEF Held
<1>8. \A k \in Owners \ {o} : Row(bs.vm, M[k]) = Row(as.vm, L[k])
  BY <1>2, <1>5
<1> QED BY <1>4, <1>7, <1>8 DEF Grown, RowAt, SaysAt

\* Each list is what a loop over it comes to (Sound), and what the areas on the
\* list of a task say (Rows).
ListsOf(as) == [k \in Owners |-> Chain(as.vm, HeadOf(as, k))]
Sound(as)   == Held(as, ListsOf(as))
Rows(as)    == [t \in Tasks |-> Row(as.vm, Chain(as.vm, as.list[t]))]

LEMMA SoundIs ==
  ASSUME NEW as, NEW L, Held(as, L)
  PROVE  /\ Sound(as)
         /\ \A t \in Tasks : Rows(as)[t] = RowAt(as, L, t)
<1>1. \A k \in Owners : ListsOf(as)[k] = L[k]
  <2> TAKE k \in Owners
  <2>1. Chain(as.vm, HeadOf(as, k)) = L[k]
    BY HeldAt
  <2> QED BY <2>1 DEF ListsOf
<1>2. Sound(as)
  <2> DEFINE M == ListsOf(as)
  <2>1. \A k \in Owners : M[k] = L[k]
    BY <1>1
  <2> HIDE DEF M
  <2>2. Held(as, M)
    BY <2>1 DEF Held
  <2> QED BY <2>2 DEF Sound, M
<1>3. ASSUME NEW t \in Tasks PROVE Rows(as)[t] = RowAt(as, L, t)
  <2>1. t \in Owners /\ HeadOf(as, t) = as.list[t]
    BY ProcessAssumption DEF Owners, HeadOf
  <2>2. Chain(as.vm, HeadOf(as, t)) = L[t]
    BY <2>1, HeldAt
  <2> QED BY <2>1, <2>2 DEF Rows, RowAt
<1> QED BY <1>2, <1>3

\* get_free_vma: a struct that is on no list any more.
Got(as, L, got) ==
  /\ got.vma \in 1 .. Len(as.vm) + 1
  /\ got.areas \in Areas /\ got.areas.vm = as.vm
  /\ got.areas.list = as.list
  /\ \E M : /\ Held(got.areas, M)
            /\ \A k \in Owners : got.vma \notin In(M[k])
            /\ \A t \in Tasks : M[t] = L[t]

LEMMA GetFreeVmaHeld ==
  ASSUME NEW as, NEW L, Held(as, L)
  PROVE  Got(as, L, GetFreeVma(as))
<1> DEFINE got == GetFreeVma(as)
           n == Len(as.vm)
<1>1. as \in Areas /\ n \in Nat /\ NULL \in Owners /\ as.free = HeadOf(as, NULL)
  BY HeldParts DEF Owners, HeadOf
<1>2. CASE as.free = NoVma
  <2>1. got.areas = as /\ got.vma = n + 1
    BY <1>2 DEF GetFreeVma
  <2>2. \A k \in Owners : n + 1 \notin In(L[k])
    <3> TAKE k \in Owners
    <3>1. In(L[k]) \subseteq 1 .. n
      BY HeldParts
    <3> HIDE DEF n
    <3>2. n + 1 \notin 1 .. n
      BY <1>1
    <3> QED BY <3>1, <3>2
  <2> HIDE DEF n, got
  <2>3. n + 1 \in 1 .. n + 1
    <3>1. n \in Nat
      BY <1>1
    <3> QED BY <3>1
  <2>4. Held(got.areas, L) /\ \A k \in Owners : got.vma \notin In(L[k])
    BY <2>1, <2>2
  <2> QED BY <1>1, <2>1, <2>3, <2>4 DEF n, got, Got
<1>3. CASE as.free # NoVma
  <2> DEFINE v == as.free
             s == L[NULL]
             bs == [as EXCEPT !.free = as.vm[v].next]
             M == [k \in Owners |-> IF k = NULL THEN Tail(s) ELSE L[k]]
  <2>1. got.areas = bs /\ got.vma = v
    BY <1>3 DEF GetFreeVma
  <2>2. s # <<>> /\ v \in In(s) /\ In(s) \subseteq 1 .. n /\ Linked(as.vm, v, s)
    <3>1. NULL \in Owners
      BY <1>1
    <3>2. Linked(as.vm, HeadOf(as, NULL), s) /\ In(s) \subseteq 1 .. n
      BY <3>1, HeldAt
    <3>3. /\ s = <<>> <=> HeadOf(as, NULL) = NoVma
          /\ s # <<>> => HeadOf(as, NULL) \in In(s)
      BY <3>1, HeldAt
    <3> QED BY <1>1, <1>3, <3>2, <3>3
  <2>3. Linked(as.vm, as.vm[v].next, Tail(s)) /\ In(Tail(s)) \subseteq In(s) \ {v}
    <3> DEFINE vm == as.vm
    <3> HIDE DEF s, v, vm
    <3>1. Linked(vm, v, s) /\ Len(vm) \in Nat /\ s # <<>>
      BY <1>1, <2>2 DEF vm
    <3>2. Linked(vm, vm[v].next, Tail(s)) /\ In(Tail(s)) \subseteq In(s) \ {v}
      BY <3>1, LinkedTail
    <3> QED BY <3>2 DEF vm
  <2>4. bs \in Areas /\ bs.vm = as.vm /\ bs.list = as.list /\ bs.free = as.vm[v].next
    <3>1. as.vm[v].next \in Nat
      <4>1. v \in 1 .. Len(as.vm)
        BY <2>2
      <4>2. as.vm[v] \in Struct
        BY <1>1, <4>1, AreasParts
      <4> QED BY <4>2 DEF Struct
    <3> QED BY <1>1, <3>1 DEF Areas
  <2>5. /\ HeadOf(bs, NULL) = as.vm[v].next
        /\ \A k \in Owners \ {NULL} : HeadOf(bs, k) = HeadOf(as, k)
    BY <2>4 DEF HeadOf
  <2>6. /\ M[NULL] = Tail(s)
        /\ \A k \in Owners \ {NULL} : M[k] = L[k]
    BY <1>1
  <2> HIDE DEF bs, M, got
  <2>7. Held(bs, M)
    <3>1. In(M[NULL]) \subseteq In(L[NULL]) /\ Linked(as.vm, HeadOf(bs, NULL), M[NULL])
      BY <2>3, <2>5, <2>6
    <3>2. \A k \in Owners \ {NULL} : M[k] = L[k] /\ HeadOf(bs, k) = HeadOf(as, k)
      BY <2>5, <2>6
    <3>3. NULL \in Owners /\ bs \in Areas /\ bs.vm = as.vm
      BY <1>1, <2>4
    <3>4. Less(as, L, NULL, bs, M)
      BY <3>1, <3>2, <3>3 DEF Less
    <3> HIDE DEF v, s, n
    <3> QED BY <3>4, HeldLess
  <2>8. \A k \in Owners : v \notin In(M[k])
    <3> TAKE k \in Owners
    <3>1. CASE k = NULL
      BY <2>3, <2>6, <3>1
    <3>2. CASE k # NULL
      <4>1. In(L[k]) \cap In(L[NULL]) = {}
        BY <1>1, <3>2 DEF Held
      <4> QED BY <2>2, <2>6, <3>2, <4>1
    <3> QED BY <3>1, <3>2
  <2>9. \A t \in Tasks : M[t] = L[t]
    BY <2>6, ProcessAssumption DEF Owners
  <2>10. v \in 1 .. n + 1
    <3>1. v \in 1 .. n
      BY <2>2
    <3> HIDE DEF v, n
    <3> QED BY <1>1, <3>1
  <2> HIDE DEF v, s, n
  <2> QED BY <2>1, <2>4, <2>7, <2>8, <2>9, <2>10 DEF n, got, Got
<1> QED BY <1>2, <1>3

\* add_to_vma_list and add_to_free_vm_list: what they make of the lists.
Ended(as, o, v) ==
  IF HeadOf(as, o) = NoVma THEN IF o = NULL THEN [as EXCEPT !.free = v]
                                            ELSE [as EXCEPT !.list[o] = v]
  ELSE [as EXCEPT !.vm = [as.vm EXCEPT ![LastVma(as.vm, HeadOf(as, o))].next = v]]

Loose(as, L, v) ==
  /\ v \in 1 .. Len(as.vm) /\ as.vm[v].next = NoVma
  /\ \A k \in Owners : v \notin In(L[k])

Comes(as, L, o, v, bs) ==
  /\ Len(bs.vm) = Len(as.vm) /\ bs.vm[v].next = NoVma
  /\ \E M : Held(bs, M) /\ Grown(as, L, o, v, bs, M)

LEMMA EndedHeld ==
  ASSUME NEW as, NEW L, Held(as, L), NEW o \in Owners, NEW v, Loose(as, L, v)
  PROVE  Comes(as, L, o, v, Ended(as, o, v))
<1> USE DEF Loose
<1> DEFINE bs == Ended(as, o, v)
           n == Len(as.vm)
           s == L[o]
           last == s[Len(s)]
           M == [k \in Owners |-> IF k = o THEN Append(s, v) ELSE L[k]]
<1>1. /\ as \in Areas /\ n \in Nat /\ as.vm \in Seq(Struct)
      /\ \A u \in 1 .. n : as.vm[u] \in Struct
      /\ s = <<>> <=> HeadOf(as, o) = NoVma
  <2>1. as \in Areas /\ (s = <<>> <=> HeadOf(as, o) = NoVma)
    BY HeldParts
  <2> QED BY <2>1, AreasParts
<1>v. v \in Nat
  BY <1>1
<1>2. s # <<>> => last \in 1 .. n /\ last # v /\ LastVma(as.vm, HeadOf(as, o)) = last
  <2> SUFFICES ASSUME s # <<>>
               PROVE  last \in 1 .. n /\ last # v /\ LastVma(as.vm, HeadOf(as, o)) = last
    OBVIOUS
  <2>1. Len(s) \in 1 .. Len(s) /\ In(s) \subseteq 1 .. n /\ v \notin In(s)
    BY HeldAt
  <2>2. last \in In(s)
    BY <2>1 DEF In
  <2>3. Chain(as.vm, HeadOf(as, o)) = s
    BY HeldParts
  <2> QED BY <2>1, <2>2, <2>3 DEF LastVma
<1>3. /\ bs \in Areas /\ Len(bs.vm) = n
      /\ \A u \in 1 .. n :
           /\ Says(bs.vm, u) = Says(as.vm, u)
           /\ bs.vm[u].next = IF s # <<>> /\ u = last THEN v ELSE as.vm[u].next
      /\ HeadOf(bs, o) = IF s = <<>> THEN v ELSE HeadOf(as, o)
      /\ \A k \in Owners \ {o} : HeadOf(bs, k) = HeadOf(as, k)
  <2>1. CASE s = <<>>
    <3>1. CASE o = NULL
      <4>1. bs = [as EXCEPT !.free = v]
        BY <1>1, <2>1, <3>1 DEF Ended
      <4>2. bs \in Areas /\ bs.vm = as.vm /\ bs.list = as.list /\ bs.free = v
        BY <1>1, <1>v, <4>1 DEF Areas
      <4> HIDE DEF bs, s
      <4> QED BY <2>1, <3>1, <4>2 DEF HeadOf
    <3>2. CASE o # NULL
      <4>0. o \in Tasks
        BY <3>2 DEF Owners
      <4>1. bs = [as EXCEPT !.list[o] = v]
        BY <1>1, <2>1, <3>2 DEF Ended
      <4>2. /\ bs \in Areas /\ bs.vm = as.vm /\ bs.free = as.free
            /\ bs.list = [as.list EXCEPT ![o] = v]
        BY <1>1, <1>v, <4>0, <4>1 DEF Areas
      <4>3. as.list \in [Tasks -> Nat]
        BY <1>1 DEF Areas
      <4>4. bs.list[o] = v /\ \A k \in Tasks \ {o} : bs.list[k] = as.list[k]
        BY <4>0, <4>2, <4>3
      <4> HIDE DEF bs, s
      <4> QED BY <2>1, <3>2, <4>2, <4>4 DEF HeadOf, Owners
    <3> QED BY <3>1, <3>2
  <2>2. CASE s # <<>>
    <3> DEFINE vm == as.vm
               wm == [vm EXCEPT ![last].next = v]
    <3>1. bs = [as EXCEPT !.vm = wm]
      BY <1>1, <1>2, <2>2 DEF Ended
    <3>2. /\ wm \in Seq(Struct) /\ Len(wm) = n
          /\ \A u \in 1 .. n :
               wm[u] = IF u = last THEN [vm[u] EXCEPT !.next = v] ELSE vm[u]
      <4>1. [vm[last] EXCEPT !.next = v] \in Struct
        <5>1. vm[last] \in Struct
          BY <1>1, <1>2, <2>2
        <5> QED BY <1>v, <5>1 DEF Struct
      <4> DEFINE e == [vm[last] EXCEPT !.next = v]
      <4>2. wm = [vm EXCEPT ![last] = e]
        OBVIOUS
      <4>3. vm \in Seq(Struct) /\ last \in 1 .. Len(vm) /\ e \in Struct
        BY <1>1, <1>2, <2>2, <4>1
      <4> HIDE DEF last, vm, e, wm
      <4>4. /\ wm \in Seq(Struct) /\ Len(wm) = Len(vm)
            /\ \A u \in 1 .. Len(vm) : wm[u] = IF u = last THEN e ELSE vm[u]
        BY <4>2, <4>3, ExceptSeq
      <4> QED BY <4>4 DEF vm, e
    <3>3. \A u \in 1 .. n :
            /\ Says(wm, u) = Says(vm, u)
            /\ wm[u].next = IF u = last THEN v ELSE vm[u].next
      <4> SUFFICES ASSUME NEW u \in 1 .. n
                   PROVE  /\ Says(wm, u) = Says(vm, u)
                          /\ wm[u].next = IF u = last THEN v ELSE vm[u].next
        OBVIOUS
      <4> DEFINE e == vm[u]  x == wm[u]
      <4>1. e \in Struct /\ x = IF u = last THEN [e EXCEPT !.next = v] ELSE e
        BY <1>1, <3>2
      <4> HIDE DEF e, x, last
      <4>2. x.start = e.start /\ x.pages = e.pages
            /\ x.next = IF u = last THEN v ELSE e.next
        BY <4>1 DEF Struct
      <4> QED BY <4>2 DEF Says, e, x
    <3> HIDE DEF wm, bs
    <3>4. bs \in Areas /\ bs.vm = wm /\ bs.list = as.list /\ bs.free = as.free
      BY <1>1, <3>1, <3>2 DEF Areas
    <3>5. \A k \in Owners : HeadOf(bs, k) = HeadOf(as, k)
      BY <3>4 DEF HeadOf
    <3> HIDE DEF s, last
    <3> QED BY <2>2, <3>2, <3>3, <3>4, <3>5
  <2> QED BY <2>1, <2>2
<1>4. M[o] = Append(s, v) /\ \A k \in Owners \ {o} : M[k] = L[k]
  OBVIOUS
<1> HIDE DEF bs, M
<1>5. Held(bs, M) /\ Grown(as, L, o, v, bs, M)
  <2>1. bs \in Areas /\ Len(bs.vm) = Len(as.vm)
    BY <1>3
  <2>2. \A u \in 1 .. Len(as.vm) :
          /\ Says(bs.vm, u) = Says(as.vm, u)
          /\ bs.vm[u].next = IF L[o] # <<>> /\ u = L[o][Len(L[o])]
                             THEN v ELSE as.vm[u].next
    BY <1>3
  <2>3. HeadOf(bs, o) = IF L[o] = <<>> THEN v ELSE HeadOf(as, o)
    BY <1>3
  <2>4. \A k \in Owners \ {o} : HeadOf(bs, k) = HeadOf(as, k)
    BY <1>3
  <2>5. M[o] = Append(L[o], v)
    BY <1>4
  <2>6. \A k \in Owners \ {o} : M[k] = L[k]
    BY <1>4
  <2>7. More(as, L, o, v, bs, M)
    BY <2>1, <2>2, <2>3, <2>4, <2>5, <2>6 DEF More
  <2> HIDE DEF s, last, n
  <2>8. Held(bs, M) /\ Grown(as, L, o, v, bs, M)
    BY <2>7, HeldMore
  <2> QED BY <2>8
<1>6. bs.vm[v].next = NoVma
  BY <1>2, <1>3
<1> QED BY <1>3, <1>5, <1>6 DEF bs, Comes

\* The structs become those of wm, which holds e at v, a struct of no list.
Stored(as, L, v, e, wm) ==
  /\ Held(as, L)
  /\ v \in 1 .. Len(as.vm) + 1 /\ \A k \in Owners : v \notin In(L[k])
  /\ e \in Struct /\ wm \in Seq(Struct)
  /\ Len(wm) = IF v > Len(as.vm) THEN v ELSE Len(as.vm)
  /\ \A u \in 1 .. Len(wm) : wm[u] = IF u = v THEN e ELSE as.vm[u]

\* The same lists.
Still(as, L, v, wm, bs) ==
  /\ Held(bs, L)
  /\ bs.vm = wm /\ bs.list = as.list /\ bs.free = as.free
  /\ v \in 1 .. Len(wm)
  /\ Kept(as, L, bs)

LEMMA BlankHeld ==
  ASSUME NEW as, NEW L, NEW v, NEW e, NEW wm, Stored(as, L, v, e, wm)
  PROVE  Still(as, L, v, wm, [as EXCEPT !.vm = wm])
<1> DEFINE bs == [as EXCEPT !.vm = wm]  n == Len(as.vm)  m == Len(wm)
<1>0. Held(as, L) /\ (\A k \in Owners : v \notin In(L[k])) /\ wm \in Seq(Struct)
  BY DEF Stored
<1>1. as \in Areas /\ n \in Nat
  BY <1>0, HeldParts
<1>2. bs \in Areas /\ bs.vm = wm /\ bs.list = as.list /\ bs.free = as.free
  BY <1>0, <1>1 DEF Areas
<1>3. v \in 1 .. n + 1 /\ m = IF v > n THEN v ELSE n
  BY DEF Stored
<1>4. \A k \in Owners : HeadOf(bs, k) = HeadOf(as, k)
  BY <1>2 DEF HeadOf
<1> HIDE DEF n, m
<1>5. n <= m /\ v \in 1 .. m /\ \A u \in 1 .. n : u \in 1 .. m
  BY <1>1, <1>3
<1>a. \A u \in 1 .. m : wm[u] = IF u = v THEN e ELSE as.vm[u]
  BY DEF Stored, m
<1> HIDE DEF bs
<1>6. Len(as.vm) <= Len(bs.vm)
  BY <1>2, <1>5 DEF n, m
<1>7. \A u \in 1 .. Len(as.vm) : u # v => bs.vm[u] = as.vm[u]
  BY <1>2, <1>5, <1>a DEF n, m
<1>8. Blanked(as, L, v, bs)
  BY <1>0, <1>2, <1>4, <1>6, <1>7 DEF Blanked
<1>9. Held(bs, L) /\ Kept(as, L, bs)
  BY <1>8, HeldBlank
<1>10. Still(as, L, v, wm, bs)
  BY <1>2, <1>5, <1>9 DEF Still, m
<1> QED BY <1>10 DEF bs

\* create_vma: the list of t gets one more area.
Given(as, t, area, bs) ==
  /\ Sound(bs)
  /\ \A k \in Tasks : Rows(bs)[k] = IF k = t THEN Append(Rows(as)[t], area)
                                  ELSE Rows(as)[k]

\* create_vma, by the struct it takes.
Taken(as, start, pages, v, a, wm) ==
  /\ v = GetFreeVma(as).vma /\ a = GetFreeVma(as).areas
  /\ wm = [n \in 1 .. (IF v > Len(as.vm) THEN v ELSE Len(as.vm)) |->
             IF n = v THEN [start |-> start, pages |-> pages, next |-> NoVma]
                      ELSE as.vm[n]]

Linking(as, t, v, a, wm, cs) ==
  cs = IF as.list[t] = NoVma THEN [a EXCEPT !.vm = wm, !.list[t] = v]
       ELSE [a EXCEPT !.vm = [wm EXCEPT ![LastVma(wm, as.list[t])].next = v]]

LEMMA NewVmaParts ==
  ASSUME NEW as, NEW t, NEW start, NEW pages, NEW v, NEW a, NEW wm,
         Taken(as, start, pages, v, a, wm)
  PROVE  Linking(as, t, v, a, wm, NewVma(as, t, start, pages))
BY DEF NewVma, Taken, Linking

LEMMA NewVmaHeld ==
  ASSUME NEW as, Sound(as), NEW t \in Tasks, NEW start \in Starts, NEW pages \in Nat
  PROVE  Given(as, t, <<start, pages>>, NewVma(as, t, start, pages))
<1> DEFINE L == ListsOf(as)
           got == GetFreeVma(as)
           v == got.vma
           a == got.areas
           e == [start |-> start, pages |-> pages, next |-> NoVma]
           wm == [n \in 1 .. (IF v > Len(as.vm) THEN v ELSE Len(as.vm)) |->
                    IF n = v THEN e ELSE as.vm[n]]
           bs == [a EXCEPT !.vm = wm]
           cs == NewVma(as, t, start, pages)
<1>1. Held(as, L) /\ t \in Owners /\ t # NULL
  BY ProcessAssumption DEF Sound, Owners
<1>2. as \in Areas /\ Len(as.vm) \in Nat /\ \A u \in 1 .. Len(as.vm) : as.vm[u] \in Struct
  <2> HIDE DEF L
  <2>1. as \in Areas
    BY <1>1, HeldParts
  <2> QED BY <2>1, AreasParts
<1>3. /\ v \in 1 .. Len(as.vm) + 1
      /\ a \in Areas /\ a.vm = as.vm /\ a.list = as.list
      /\ \E M : /\ Held(a, M)
                /\ \A k \in Owners : v \notin In(M[k])
                /\ \A k \in Tasks : M[k] = L[k]
  <2>1. Got(as, L, got)
    <3> HIDE DEF L
    <3> QED BY <1>1, GetFreeVmaHeld
  <2> HIDE DEF L, got
  <2> QED BY <2>1 DEF Got
<1>4. e \in Struct /\ e.next = NoVma /\ e.start = start /\ e.pages = pages
  BY DEF Struct, NoVma
<1> DEFINE m == IF v > Len(as.vm) THEN v ELSE Len(as.vm)
<1>5. /\ wm \in Seq(Struct) /\ Len(wm) = m
      /\ \A u \in 1 .. Len(wm) : wm[u] = IF u = v THEN e ELSE as.vm[u]
  <2> DEFINE n == Len(as.vm)  vm == as.vm
  <2>0. n \in Nat /\ v \in 1 .. n + 1 /\ \A u \in 1 .. n : vm[u] \in Struct
    BY <1>2, <1>3
  <2>a. m = (IF v > n THEN v ELSE n) /\ wm = [u \in 1 .. m |-> IF u = v THEN e ELSE vm[u]]
    OBVIOUS
  <2> HIDE DEF v, n, e, vm, wm, m
  <2>1. m \in Nat /\ \A u \in 1 .. m : u # v => u \in 1 .. n
    BY <2>0, <2>a
  <2>2. \A u \in 1 .. m : (IF u = v THEN e ELSE vm[u]) \in Struct
    BY <1>4, <2>0, <2>1
  <2>3. wm \in Seq(Struct) /\ Len(wm) = m
    BY <2>1, <2>2, <2>a
  <2>4. \A u \in 1 .. m : wm[u] = IF u = v THEN e ELSE vm[u]
    BY <2>a
  <2> QED BY <2>3, <2>4 DEF vm
<1>6. PICK M : /\ Held(a, M)
               /\ \A k \in Owners : v \notin In(M[k])
               /\ \A k \in Tasks : M[k] = L[k]
  BY <1>3
<1>7. cs = Ended(bs, t, v)
  <2>1. a = [vm |-> a.vm, free |-> a.free, list |-> a.list]
    BY <1>3 DEF Areas
  <2>2. HeadOf(bs, t) = as.list[t] /\ bs.vm = wm
    BY <1>1, <1>3, <2>1 DEF HeadOf
  <2>3. cs = IF as.list[t] = NoVma THEN [a EXCEPT !.vm = wm, !.list[t] = v]
             ELSE [a EXCEPT !.vm = [wm EXCEPT ![LastVma(wm, as.list[t])].next = v]]
    <3>1. Taken(as, start, pages, v, a, wm)
      BY DEF Taken
    <3> HIDE DEF v, a, wm
    <3>2. Linking(as, t, v, a, wm, cs)
      BY <3>1, NewVmaParts
    <3> HIDE DEF cs
    <3> QED BY <3>2 DEF Linking
  <2>4. Ended(bs, t, v) = IF as.list[t] = NoVma THEN [bs EXCEPT !.list[t] = v]
             ELSE [bs EXCEPT !.vm = [wm EXCEPT ![LastVma(wm, as.list[t])].next = v]]
    <3> HIDE DEF bs, wm, v
    <3> QED BY <1>1, <2>2 DEF Ended
  <2> HIDE DEF wm, v, a, cs
  <2>5. [a EXCEPT !.vm = wm, !.list[t] = v] = [bs EXCEPT !.list[t] = v]
    BY <2>1
  <2> DEFINE xm == [wm EXCEPT ![LastVma(wm, as.list[t])].next = v]
  <2> HIDE DEF xm
  <2>6. [a EXCEPT !.vm = xm] = [bs EXCEPT !.vm = xm]
    BY <2>1
  <2> QED BY <2>3, <2>4, <2>5, <2>6 DEF xm
<1>8. /\ Held(bs, M)
      /\ bs.vm = wm /\ bs.list = a.list /\ bs.free = a.free
      /\ v \in 1 .. Len(wm)
      /\ Kept(a, M, bs)
  <2>1. v \in 1 .. Len(a.vm) + 1 /\ e \in Struct /\ wm \in Seq(Struct)
    BY <1>3, <1>4, <1>5
  <2>2. Len(wm) = IF v > Len(a.vm) THEN v ELSE Len(a.vm)
    BY <1>3, <1>5
  <2>3. \A u \in 1 .. Len(wm) : wm[u] = IF u = v THEN e ELSE a.vm[u]
    BY <1>3, <1>5
  <2> HIDE DEF v, a, e, wm
  <2>4. Stored(a, M, v, e, wm)
    BY <1>6, <2>1, <2>2, <2>3 DEF Stored
  <2>5. Still(a, M, v, wm, bs)
    BY <2>4, BlankHeld
  <2> HIDE DEF bs
  <2> QED BY <2>5 DEF Still
<1>9. bs.vm[v].next = NoVma /\ SaysAt(bs, v) = <<start, pages>>
  <2>1. wm[v] = e
    BY <1>5, <1>8
  <2> HIDE DEF v, wm, bs, e
  <2> QED BY <1>4, <1>8, <2>1 DEF SaysAt, Says
<1>10. \E N : Held(cs, N) /\ Grown(bs, M, t, v, cs, N)
  <2>1. v \in 1 .. Len(bs.vm) /\ t \in Owners
    BY <1>1, <1>8
  <2>2. Loose(bs, M, v)
    BY <1>6, <1>9, <2>1 DEF Loose
  <2> HIDE DEF v, bs, cs
  <2>3. Comes(bs, M, t, v, cs)
    BY <1>7, <1>8, <2>1, <2>2, EndedHeld
  <2> QED BY <2>3 DEF Comes
<1> HIDE DEF L, got, v, a, e, wm, bs, cs, m
<1>11. PICK N : Held(cs, N) /\ Grown(bs, M, t, v, cs, N)
  BY <1>10
<1>12. \A k \in Tasks : k \in Owners /\ RowAt(bs, M, k) = RowAt(as, L, k)
  <2> TAKE k \in Tasks
  <2>1. k \in Owners /\ M[k] = L[k]
    BY <1>6 DEF Owners
  <2>2. RowAt(bs, M, k) = RowAt(a, M, k)
    BY <1>8, <2>1 DEF Kept
  <2> QED BY <1>3, <2>1, <2>2 DEF RowAt
<1>13. Sound(cs) /\ \A k \in Tasks : Rows(cs)[k] = RowAt(cs, N, k)
  BY <1>11, SoundIs
<1>14. \A k \in Tasks : Rows(as)[k] = RowAt(as, L, k)
  BY <1>1, SoundIs
<1>15. ASSUME NEW k \in Tasks
       PROVE  Rows(cs)[k] = IF k = t THEN Append(Rows(as)[t], <<start, pages>>)
                            ELSE Rows(as)[k]
  <2>1. RowAt(cs, N, t) = Append(RowAt(bs, M, t), SaysAt(bs, v))
    BY <1>11 DEF Grown
  <2>2. k # t => RowAt(cs, N, k) = RowAt(bs, M, k)
    BY <1>11, <1>12 DEF Grown
  <2> QED BY <1>9, <1>12, <1>13, <1>14, <2>1, <2>2
<1> QED BY <1>13, <1>15 DEF cs, Given

LEMMA NoAreasHeld ==
  /\ Sound(NoAreas(Tasks))
  /\ \A t \in Tasks : Rows(NoAreas(Tasks))[t] = <<>>
<1> DEFINE as == NoAreas(Tasks)
           L == [k \in Owners |-> <<>>]
<1>1. /\ as.vm = <<>> /\ as.free = NoVma /\ as.list = [t \in Tasks |-> NoVma]
      /\ as \in Areas
  <2>1. <<>> \in Seq(Struct) /\ NoVma \in Nat
    BY EmptySeq DEF NoVma
  <2> QED BY <2>1 DEF NoAreas, Areas
<1>2. \A k \in Owners : HeadOf(as, k) = NoVma /\ L[k] = <<>>
  BY <1>1 DEF HeadOf, Owners
<1>3. In(<<>>) = {} /\ \A vm : Linked(vm, NoVma, <<>>)
  BY LinkedNone
<1> HIDE DEF as, L
<1>4. Held(as, L)
  BY <1>1, <1>2, <1>3 DEF Held
<1>5. Sound(as) /\ \A t \in Tasks : Rows(as)[t] = RowAt(as, L, t)
  BY <1>4, SoundIs
<1> QED BY <1>2, <1>5, RowNone DEF RowAt, Owners, as

\* The part of free_task_mm_struct that counts: the first struct of the list of t
\* comes to the free ones, and the list is gone.
Bared(as, t, bs) ==
  /\ Sound(bs)
  /\ \A k \in Tasks : Rows(bs)[k] = IF k = t THEN <<>> ELSE Rows(as)[k]

LEMMA AddToFreeVmListHeld ==
  ASSUME NEW as, Sound(as), NEW t \in Tasks, as.list[t] # NoVma
  PROVE  LET bs == AddToFreeVmList(as, as.list[t])
         IN  /\ bs.vm[as.list[t]].next = NoVma
             /\ Bared(as, t, [bs EXCEPT !.list[t] = NoVma])
<1> DEFINE L == ListsOf(as)
           v == as.list[t]
           e == [start |-> "none", pages |-> 0, next |-> NoVma]
           wm == [as.vm EXCEPT ![v] = e]
           a0 == [as EXCEPT !.list[t] = NoVma]
           a1 == [a0 EXCEPT !.vm = wm]
           M == [k \in Owners |-> IF k = t THEN <<>> ELSE L[k]]
           bs == AddToFreeVmList(as, v)
           cs == [bs EXCEPT !.list[t] = NoVma]
<1>1. Held(as, L) /\ t \in Owners /\ t # NULL /\ NULL \in Owners
  BY ProcessAssumption DEF Sound, Owners
<1>2. /\ as \in Areas /\ Len(as.vm) \in Nat /\ as.vm \in Seq(Struct)
      /\ as.list \in [Tasks -> Nat] /\ as.free \in Nat
  <2> HIDE DEF L
  <2>1. as \in Areas
    BY <1>1, HeldParts
  <2> QED BY <2>1, AreasParts
<1>3. v \in In(L[t]) /\ v \in 1 .. Len(as.vm) /\ v = HeadOf(as, t)
  <2> HIDE DEF L
  <2>0. v = HeadOf(as, t)
    BY <1>1 DEF HeadOf
  <2>1. /\ L[t] = <<>> <=> HeadOf(as, t) = NoVma
        /\ L[t] # <<>> => HeadOf(as, t) \in In(L[t])
        /\ In(L[t]) \subseteq 1 .. Len(as.vm)
    BY <1>1, HeldAt
  <2> QED BY <2>0, <2>1
<1>4. /\ a0 \in Areas /\ a0.vm = as.vm /\ a0.free = as.free
      /\ a0.list = [as.list EXCEPT ![t] = NoVma]
      /\ a0.list[t] = NoVma /\ \A k \in Tasks \ {t} : a0.list[k] = as.list[k]
  <2> DEFINE l == [as.list EXCEPT ![t] = NoVma]
  <2>1. l \in [Tasks -> Nat] /\ l[t] = NoVma /\ \A k \in Tasks \ {t} : l[k] = as.list[k]
    BY <1>2 DEF NoVma
  <2>2. a0 = [as EXCEPT !.list = l]
    BY <1>2 DEF Areas
  <2> HIDE DEF l, a0
  <2>3. a0 \in Areas /\ a0.vm = as.vm /\ a0.free = as.free /\ a0.list = l
    BY <1>2, <2>1, <2>2 DEF Areas
  <2> QED BY <2>1, <2>3 DEF l
<1>5. Held(a0, M) /\ M[t] = <<>> /\ \A k \in Owners \ {t} : M[k] = L[k]
  <2>1. M[t] = <<>> /\ \A k \in Owners \ {t} : M[k] = L[k]
    BY <1>1
  <2>2. HeadOf(a0, t) = NoVma /\ \A k \in Owners \ {t} : HeadOf(a0, k) = HeadOf(as, k)
    <3> HIDE DEF a0
    <3> QED BY <1>1, <1>4 DEF HeadOf, Owners
  <2> HIDE DEF M, L, a0
  <2>3. In(M[t]) \subseteq In(L[t]) /\ Linked(as.vm, HeadOf(a0, t), M[t])
    BY <2>1, <2>2, LinkedNone
  <2>4. Less(as, L, t, a0, M)
    BY <1>1, <1>4, <2>1, <2>2, <2>3 DEF Less
  <2>5. Held(a0, M)
    BY <2>4, HeldLess
  <2> QED BY <2>1, <2>5
<1>6. \A k \in Owners : v \notin In(M[k])
  <2> TAKE k \in Owners
  <2>1. CASE k = t
    BY <1>5, <2>1, LinkedNone
  <2>2. CASE k # t
    <3>1. In(L[k]) \cap In(L[t]) = {}
      BY <1>1, <2>2 DEF Held
    <3> HIDE DEF M, L, v
    <3> QED BY <1>3, <1>5, <2>2, <3>1
  <2> QED BY <2>1, <2>2
<1>7. e \in Struct /\ e.next = NoVma
  BY DEF Struct, Starts, NoVma
<1>8. /\ wm \in Seq(Struct) /\ Len(wm) = Len(as.vm)
      /\ \A u \in 1 .. Len(as.vm) : wm[u] = IF u = v THEN e ELSE as.vm[u]
  <2> DEFINE vm == as.vm
  <2>1. vm \in Seq(Struct) /\ v \in 1 .. Len(vm) /\ e \in Struct
    BY <1>2, <1>3, <1>7
  <2>2. wm = [vm EXCEPT ![v] = e]
    OBVIOUS
  <2> HIDE DEF vm, v, e, wm
  <2>3. /\ wm \in Seq(Struct) /\ Len(wm) = Len(vm)
        /\ \A u \in 1 .. Len(vm) : wm[u] = IF u = v THEN e ELSE vm[u]
    BY <2>1, <2>2, ExceptSeq
  <2> QED BY <2>3 DEF vm
<1>9. /\ Held(a1, M)
      /\ a1.vm = wm /\ a1.list = a0.list /\ a1.free = a0.free
      /\ Kept(a0, M, a1)
  <2> DEFINE n == Len(a0.vm)
  <2>1. v \in 1 .. n /\ n \in Nat /\ Len(wm) = n
    BY <1>2, <1>3, <1>4, <1>8
  <2>2. \A u \in 1 .. Len(wm) : wm[u] = IF u = v THEN e ELSE a0.vm[u]
    BY <1>4, <1>8
  <2> HIDE DEF n, v, e, wm, a0, M
  <2>3. v \in 1 .. n + 1 /\ Len(wm) = IF v > n THEN v ELSE n
    BY <2>1
  <2>4. v \in 1 .. Len(a0.vm) + 1 /\ Len(wm) = IF v > Len(a0.vm) THEN v ELSE Len(a0.vm)
    BY <2>3 DEF n
  <2>5. Stored(a0, M, v, e, wm)
    BY <1>5, <1>6, <1>7, <1>8, <2>2, <2>4 DEF Stored
  <2>6. Still(a0, M, v, wm, a1)
    BY <2>5, BlankHeld
  <2> HIDE DEF a1
  <2> QED BY <2>6 DEF Still
<1>10. cs = Ended(a1, NULL, v)
  <2>1. as = [vm |-> as.vm, free |-> as.free, list |-> as.list]
    BY <1>2 DEF Areas
  <2>2. HeadOf(a1, NULL) = as.free /\ a1.vm = wm
    BY <1>4, <1>9 DEF HeadOf
  <2> DEFINE xm == [wm EXCEPT ![LastVma(wm, as.free)].next = v]
  <2>3. bs = IF as.free = NoVma THEN [as EXCEPT !.vm = wm, !.free = v]
             ELSE [as EXCEPT !.vm = xm]
    BY DEF AddToFreeVmList
  <2>4. Ended(a1, NULL, v) = IF as.free = NoVma THEN [a1 EXCEPT !.free = v]
                             ELSE [a1 EXCEPT !.vm = xm]
    <3> HIDE DEF a1, wm, v
    <3> QED BY <2>2 DEF Ended
  <2> HIDE DEF wm, v, xm
  <2>5. [[as EXCEPT !.vm = wm, !.free = v] EXCEPT !.list[t] = NoVma] = [a1 EXCEPT !.free = v]
    BY <2>1
  <2>6. [[as EXCEPT !.vm = xm] EXCEPT !.list[t] = NoVma] = [a1 EXCEPT !.vm = xm]
    BY <2>1
  <2> HIDE DEF a1, bs
  <2> QED BY <2>3, <2>4, <2>5, <2>6
<1>11. a1.vm[v].next = NoVma /\ v \in 1 .. Len(a1.vm)
  <2>1. wm[v] = e
    BY <1>3, <1>8
  <2> HIDE DEF v, wm, a1, e
  <2> QED BY <1>3, <1>7, <1>8, <1>9, <2>1
<1>12. cs.vm[v].next = NoVma /\ \E N : Held(cs, N) /\ Grown(a1, M, NULL, v, cs, N)
  <2>1. Loose(a1, M, v)
    BY <1>6, <1>11 DEF Loose
  <2> HIDE DEF v, a1, cs, M
  <2>2. Comes(a1, M, NULL, v, cs)
    BY <1>1, <1>9, <1>10, <2>1, EndedHeld
  <2> QED BY <2>2 DEF Comes
<1>13. bs.vm = cs.vm
  <2>1. bs = [vm |-> bs.vm, free |-> bs.free, list |-> bs.list]
    <3>1. as = [vm |-> as.vm, free |-> as.free, list |-> as.list]
      BY <1>2 DEF Areas
    <3> HIDE DEF v
    <3> QED BY <3>1 DEF AddToFreeVmList
  <2> HIDE DEF bs
  <2> QED BY <2>1
<1> HIDE DEF L, v, e, wm, a0, a1, M, bs, cs
<1>14. PICK N : Held(cs, N) /\ Grown(a1, M, NULL, v, cs, N)
  BY <1>12
<1>15. Sound(cs) /\ \A k \in Tasks : Rows(cs)[k] = RowAt(cs, N, k)
  BY <1>14, SoundIs
<1>16. \A k \in Tasks : Rows(as)[k] = RowAt(as, L, k)
  BY <1>1, SoundIs
<1>17. ASSUME NEW k \in Tasks
       PROVE  Rows(cs)[k] = IF k = t THEN <<>> ELSE Rows(as)[k]
  <2>0. k \in Owners /\ k # NULL
    BY ProcessAssumption DEF Owners
  <2>1. RowAt(cs, N, k) = RowAt(a1, M, k)
    BY <1>14, <2>0 DEF Grown
  <2>2. RowAt(a1, M, k) = RowAt(a0, M, k)
    BY <1>9, <2>0 DEF Kept
  <2>3. CASE k = t
    <3>1. RowAt(a0, M, k) = <<>>
      <4>1. Row(a0.vm, <<>>) = <<>>
        BY RowNone
      <4> QED BY <1>5, <2>3, <4>1 DEF RowAt
    <3> QED BY <1>15, <2>1, <2>2, <2>3, <3>1
  <2>4. CASE k # t
    <3>1. RowAt(a0, M, k) = RowAt(as, L, k)
      BY <1>4, <1>5, <2>0, <2>4 DEF RowAt
    <3> QED BY <1>15, <1>16, <2>1, <2>2, <2>4, <3>1
  <2> QED BY <2>3, <2>4
<1> QED BY <1>12, <1>13, <1>15, <1>17 DEF cs, bs, v, Bared

\* A loop that stops after its first round.
LEMMA OneRound ==
  ASSUME NEW N \in Nat, N # 0, NEW first, FreeRound(FreeRound(first)) = FreeRound(first)
  PROVE  LET round[n \in 0 .. N] == IF n = 0 THEN first ELSE FreeRound(round[n - 1])
         IN  round[N] = FreeRound(first)
<1> DEFINE stop == FreeRound(first)
           round[n \in 0 .. N] == IF n = 0 THEN first ELSE FreeRound(round[n - 1])
           f == [n \in 0 .. N |-> IF n = 0 THEN first ELSE stop]
           P == {n \in 0 .. N : n # 0 => round[n] = stop}
<1>1. f = [n \in 0 .. N |-> IF n = 0 THEN first ELSE FreeRound(f[n - 1])]
  <2>1. ASSUME NEW n \in 0 .. N
        PROVE  f[n] = IF n = 0 THEN first ELSE FreeRound(f[n - 1])
    <3>1. CASE n = 0
      BY <3>1
    <3>2. CASE n # 0
      <4>1. n - 1 \in 0 .. N
        BY <3>2
      <4>2. f[n - 1] = first \/ f[n - 1] = stop
        BY <4>1
      <4>3. f[n] = stop
        BY <3>2
      <4> QED BY <3>2, <4>2, <4>3
    <3> QED BY <3>1, <3>2
  <2> HIDE DEF stop
  <2> QED BY <2>1
<1>2. \E w : w = [n \in 0 .. N |-> IF n = 0 THEN first ELSE FreeRound(w[n - 1])]
  <2> HIDE DEF f
  <2> QED BY <1>1
<1>3. round = [n \in 0 .. N |-> IF n = 0 THEN first ELSE FreeRound(round[n - 1])]
  <2> HIDE DEF f
  <2> QED BY <1>2
<1> HIDE DEF round
<1>4. 0 \in P
  OBVIOUS
<1>5. \A n \in 1 .. N : n - 1 \in P => n \in P
  <2> SUFFICES ASSUME NEW n \in 1 .. N, n - 1 \in P PROVE n \in P
    OBVIOUS
  <2>1. n \in 0 .. N /\ n # 0 /\ n - 1 \in 0 .. N
    OBVIOUS
  <2>2. round[n] = FreeRound(round[n - 1])
    BY <1>3, <2>1
  <2>3. round[n - 1] = stop \/ n - 1 = 0
    OBVIOUS
  <2>4. n - 1 = 0 => round[n - 1] = first
    BY <1>3, <2>1
  <2>5. FreeRound(round[n - 1]) = stop
    BY <2>3, <2>4
  <2> QED BY <2>1, <2>2, <2>5
<1> HIDE DEF P
<1>6. N \in P
  <2>1. 0 .. N \subseteq P /\ N \in 0 .. N
    BY <1>4, <1>5, Upward
  <2> QED BY <2>1
<1> QED BY <1>6 DEF P, round

LEMMA RowsNone ==
  ASSUME NEW as, Sound(as), NEW t \in Tasks, as.list[t] = NoVma
  PROVE  Rows(as)[t] = <<>>
<1> DEFINE L == ListsOf(as)
<1>1. t \in Owners /\ HeadOf(as, t) = as.list[t] /\ Held(as, L)
  BY ProcessAssumption DEF Owners, HeadOf, Sound
<1> HIDE DEF L
<1>2. Chain(as.vm, HeadOf(as, t)) = L[t] /\ L[t] = <<>>
  BY <1>1, HeldAt
<1>3. Chain(as.vm, as.list[t]) = <<>>
  BY <1>1, <1>2
<1> QED BY <1>3, RowNone DEF Rows

\* free_task_mm_struct: whatever it sees, the task has no list afterwards.
LEMMA FreeVmasHeld ==
  ASSUME NEW as, Sound(as), NEW t \in Tasks
  PROVE  Bared(as, t, FreeVmas(as, t).areas)
<1> DEFINE N == Len(as.vm) + 1
           v == as.list[t]
           first == [areas |-> as, at |-> v, seen |-> <<>>]
           stop == FreeRound(first)
           after == AddToFreeVmList(as, v)
<1>1. as \in Areas /\ N \in Nat /\ N # 0 /\ as.list \in [Tasks -> Nat]
  <2>1. as \in Areas
    BY HeldParts DEF Sound
  <2>2. Len(as.vm) \in Nat /\ as.list \in [Tasks -> Nat]
    BY <2>1, AreasParts
  <2> DEFINE n == Len(as.vm)
  <2>3. n \in Nat
    BY <2>2
  <2> HIDE DEF n
  <2>4. n + 1 \in Nat /\ n + 1 # 0
    BY <2>3
  <2> QED BY <2>1, <2>2, <2>4 DEF n
<1>2. /\ v = NoVma => stop = first
      /\ v # NoVma => stop.at = NoVma /\ stop.areas = after
  <2>1. v = NoVma => stop = first
    BY DEF FreeRound
  <2>2. v # NoVma => stop.areas = after /\ stop.at = after.vm[v].next
    BY DEF FreeRound
  <2>3. v # NoVma => after.vm[v].next = NoVma
    BY AddToFreeVmListHeld
  <2> QED BY <2>1, <2>2, <2>3
<1>3. first.areas = as /\ first.at = v
  OBVIOUS
<1> HIDE DEF N, stop, after, first
<1>4. FreeRound(stop) = stop
  <2>1. stop.at = NoVma
    BY <1>2, <1>3
  <2> QED BY <2>1 DEF FreeRound
<1>5. FreeVmas(as, t).areas = [stop.areas EXCEPT !.list[t] = NoVma]
  <2> DEFINE round[n \in 0 .. N] == IF n = 0 THEN first ELSE FreeRound(round[n - 1])
  <2>1. FreeVmas(as, t).areas = [round[N].areas EXCEPT !.list[t] = NoVma]
    BY DEF FreeVmas, first, N
  <2>2. round[N] = stop
    BY <1>1, <1>4, OneRound DEF stop
  <2> HIDE DEF round
  <2> QED BY <2>1, <2>2
<1>6. CASE v = NoVma
  <2>1. stop.areas = as
    BY <1>2, <1>3, <1>6
  <2>2. FreeVmas(as, t).areas = [as EXCEPT !.list[t] = NoVma]
    BY <1>5, <2>1
  <2>3. [as EXCEPT !.list[t] = NoVma] = as
    <3>1. [as.list EXCEPT ![t] = NoVma] = as.list
      BY <1>1, <1>6
    <3> DEFINE l == as.list
    <3>2. [as EXCEPT !.list[t] = NoVma] = [as EXCEPT !.list = l]
      BY <1>1, <3>1 DEF Areas
    <3>3. [as EXCEPT !.list = l] = as
      BY <1>1 DEF Areas
    <3> QED BY <3>2, <3>3
  <2>4. Rows(as)[t] = <<>>
    BY <1>6, RowsNone
  <2> QED BY <2>2, <2>3, <2>4 DEF Bared
<1>7. CASE v # NoVma
  <2>1. FreeVmas(as, t).areas = [after EXCEPT !.list[t] = NoVma]
    BY <1>2, <1>5, <1>7
  <2>2. Bared(as, t, [after EXCEPT !.list[t] = NoVma])
    BY <1>7, AddToFreeVmListHeld DEF after
  <2> QED BY <2>1, <2>2
<1> QED BY <1>6, <1>7

\* The areas of a task are what its row says.
LEMMA AreasRow ==
  ASSUME NEW as, Sound(as), NEW t \in Tasks
  PROVE  LET of == AreasOf(as, t)
         IN  /\ Rows(as)[t] \in Seq(Starts \X Nat)
             /\ Len(of) = Len(Rows(as)[t])
             /\ DOMAIN of = 1 .. Len(Rows(as)[t])
             /\ \A n \in 1 .. Len(Rows(as)[t]) :
                  Rows(as)[t][n] = <<of[n].start, of[n].pages>>
<1> DEFINE s == Chain(as.vm, as.list[t])
           r == Rows(as)[t]
           of == AreasOf(as, t)
<1>1. /\ s \in Seq(1 .. Len(as.vm)) /\ as \in Areas /\ Len(as.vm) \in Nat
  <2> DEFINE L == ListsOf(as)
  <2>1. t \in Owners /\ HeadOf(as, t) = as.list[t] /\ Held(as, L)
    BY ProcessAssumption DEF Owners, HeadOf, Sound
  <2> HIDE DEF L
  <2>2. Chain(as.vm, HeadOf(as, t)) = L[t] /\ L[t] \in Seq(1 .. Len(as.vm))
    BY <2>1, HeldAt
  <2>3. as \in Areas /\ Len(as.vm) \in Nat
    BY <2>1, HeldParts
  <2> QED BY <2>1, <2>2, <2>3
<1>2. r = Row(as.vm, s)
  BY DEF Rows
<1>3. Len(s) \in Nat /\ DOMAIN s = 1 .. Len(s) /\ \A n \in 1 .. Len(s) : s[n] \in 1 .. Len(as.vm)
  BY <1>1, LenProperties, ElementOfSeq
<1>4. of = [n \in 1 .. Len(s) |-> as.vm[s[n]]]
  BY <1>3 DEF AreasOf
<1>5. /\ Len(r) = Len(s)
      /\ \A n \in 1 .. Len(s) : r[n] = Says(as.vm, s[n])
  <2> DEFINE vm == as.vm
  <2> HIDE DEF vm, s
  <2>1. Len(Row(vm, s)) = Len(s) /\ \A n \in 1 .. Len(s) : Row(vm, s)[n] = Says(vm, s[n])
    BY <1>1, RowShape DEF vm
  <2> QED BY <1>2, <2>1 DEF vm
<1>6. r \in Seq(Starts \X Nat)
  <2>1. \A u \in 1 .. Len(as.vm) : as.vm[u] \in Struct
    BY <1>1, AreasParts
  <2>2. \A u \in 1 .. Len(as.vm) : Says(as.vm, u) \in Starts \X Nat
    BY <2>1 DEF Says, Struct
  <2> DEFINE vm == as.vm
             S == 1 .. Len(vm)
             T == {Says(vm, x) : x \in S}
  <2>3. T \subseteq Starts \X Nat /\ s \in Seq(S)
    BY <1>1, <2>2
  <2> HIDE DEF vm, s, S
  <2>4. Row(vm, s) \in Seq(T)
    BY <2>3, RowShape
  <2> HIDE DEF T, r
  <2>5. Row(vm, s) \in Seq(Starts \X Nat)
    BY <2>3, <2>4, SeqMonotonic
  <2> QED BY <1>2, <2>5 DEF vm
<1>7. Len(of) = Len(s) /\ DOMAIN of = 1 .. Len(s)
  <2> DEFINE m == Len(s)
  <2>1. m \in Nat /\ of = [n \in 1 .. m |-> as.vm[s[n]]]
    BY <1>3, <1>4
  <2> HIDE DEF m, of, s
  <2>2. DOMAIN of = 1 .. m /\ Len(of) = m
    BY <2>1
  <2> QED BY <2>2 DEF m
<1>8. \A n \in 1 .. Len(s) : r[n] = <<of[n].start, of[n].pages>>
  BY <1>4, <1>5 DEF Says
<1> HIDE DEF s, r, of
<1>9. /\ r \in Seq(Starts \X Nat) /\ Len(of) = Len(r) /\ DOMAIN of = 1 .. Len(r)
      /\ \A n \in 1 .. Len(r) : r[n] = <<of[n].start, of[n].pages>>
  BY <1>5, <1>6, <1>7, <1>8
<1> QED BY <1>9 DEF r, of

\* The areas of an image whose heap has h pages.
Shape(h) == << <<"text", 1>>, <<"data", 1>>, <<"heap", h>>, <<"stack", StackPages>> >>

LEMMA AppendAt ==
  ASSUME NEW S, NEW s \in Seq(S), NEW e \in S, NEW n \in Nat, Len(s) = n
  PROVE  /\ Append(s, e) \in Seq(S) /\ Len(Append(s, e)) = n + 1
         /\ Append(s, e)[n + 1] = e
         /\ \A i \in 1 .. n : Append(s, e)[i] = s[i]
BY AppendProperties

LEMMA ShapeBuilt ==
  ASSUME NEW h \in Nat
  PROVE  Append(Append(Append(Append(<<>>, <<"text", 1>>), <<"data", 1>>),
                       <<"heap", h>>), <<"stack", StackPages>>) = Shape(h)
<1> DEFINE a == <<"text", 1>>  b == <<"data", 1>>  c == <<"heap", h>>
           d == <<"stack", StackPages>>
           S == {a, b, c, d}
           r1 == Append(<<>>, a)
           r2 == Append(r1, b)
           r3 == Append(r2, c)
           r4 == Append(r3, d)
           z == <<a, b, c, d>>
<1>1. a \in S /\ b \in S /\ c \in S /\ d \in S
  OBVIOUS
<1>2. <<>> \in Seq(S) /\ Len(<<>>) = 0
  BY EmptySeq
<1>z. Shape(h) = z
  BY DEF Shape
<1> HIDE DEF S, a, b, c, d
<1>3. z \in Seq(S) /\ Len(z) = 4 /\ z[1] = a /\ z[2] = b /\ z[3] = c /\ z[4] = d
  BY <1>1
<1>4. r1 \in Seq(S) /\ Len(r1) = 1 /\ r1[1] = a
  BY <1>1, <1>2, AppendProperties
<1> HIDE DEF r1
<1>5. r2 \in Seq(S) /\ Len(r2) = 2 /\ r2[1] = a /\ r2[2] = b
  <2> DEFINE n == 1
  <2>1. n \in Nat /\ Len(r1) = n
    BY <1>4
  <2> HIDE DEF n
  <2>2. /\ r2 \in Seq(S) /\ Len(r2) = n + 1 /\ r2[n + 1] = b
        /\ \A i \in 1 .. n : r2[i] = r1[i]
    BY <1>1, <1>4, <2>1, AppendAt
  <2> HIDE DEF r2
  <2> QED BY <1>4, <2>2 DEF n
<1> HIDE DEF r2
<1>6. r3 \in Seq(S) /\ Len(r3) = 3 /\ r3[1] = a /\ r3[2] = b /\ r3[3] = c
  <2> DEFINE n == 2
  <2>1. n \in Nat /\ Len(r2) = n
    BY <1>5
  <2> HIDE DEF n
  <2>2. /\ r3 \in Seq(S) /\ Len(r3) = n + 1 /\ r3[n + 1] = c
        /\ \A i \in 1 .. n : r3[i] = r2[i]
    BY <1>1, <1>5, <2>1, AppendAt
  <2> HIDE DEF r3
  <2> QED BY <1>5, <2>2 DEF n
<1> HIDE DEF r3
<1>7. /\ r4 \in Seq(S) /\ Len(r4) = 4
      /\ r4[1] = a /\ r4[2] = b /\ r4[3] = c /\ r4[4] = d
  <2> DEFINE n == 3
  <2>1. n \in Nat /\ Len(r3) = n
    BY <1>6
  <2> HIDE DEF n
  <2>2. /\ r4 \in Seq(S) /\ Len(r4) = n + 1 /\ r4[n + 1] = d
        /\ \A i \in 1 .. n : r4[i] = r3[i]
    BY <1>1, <1>6, <2>1, AppendAt
  <2> HIDE DEF r4
  <2> QED BY <1>6, <2>2 DEF n
<1> HIDE DEF r4, z
<1>8. \A i \in 1 .. 4 : i = 1 \/ i = 2 \/ i = 3 \/ i = 4
  OBVIOUS
<1>9. r4 = z
  BY <1>3, <1>7, <1>8, SeqEqual
<1> QED BY <1>z, <1>9 DEF r4, r3, r2, r1, a, b, c, d

\* A list of four areas of that shape.
Lists(list, h) ==
  /\ Len(list) = 4
  /\ list[1].start = "text" /\ list[1].pages = 1
  /\ list[2].start = "data" /\ list[2].pages = 1
  /\ list[3].start = "heap" /\ list[3].pages = h
  /\ list[4].start = "stack" /\ list[4].pages = StackPages

\* What a loop of four rounds makes.
LEMMA FourRounds ==
  ASSUME NEW as, NEW t, NEW h, NEW list, Lists(list, h),
         NEW b1, NEW b2, NEW b3, NEW b4,
         b1 = NewVma(as, t, "text", 1), b2 = NewVma(b1, t, "data", 1),
         b3 = NewVma(b2, t, "heap", h), b4 = NewVma(b3, t, "stack", StackPages)
  PROVE  NewVmas(as, t, list) = b4
<1> DEFINE New(x, n) == NewVma(x, t, list[n].start, list[n].pages)
           made[n \in 0 .. 4] == IF n = 0 THEN as ELSE New(made[n - 1], n)
           f == [n \in 0 .. 4 |-> IF n = 0 THEN as ELSE IF n = 1 THEN b1
                                  ELSE IF n = 2 THEN b2 ELSE IF n = 3 THEN b3 ELSE b4]
<1>1. b1 = New(as, 1) /\ b2 = New(b1, 2) /\ b3 = New(b2, 3) /\ b4 = New(b3, 4)
  BY DEF Lists
<1>2. NewVmas(as, t, list) = made[4]
  BY DEF NewVmas, Lists
<1> HIDE DEF New
<1>3. f[0] = as /\ f[1] = b1 /\ f[2] = b2 /\ f[3] = b3 /\ f[4] = b4
  OBVIOUS
<1>4. f = [n \in 0 .. 4 |-> IF n = 0 THEN as ELSE New(f[n - 1], n)]
  <2>1. ASSUME NEW n \in 0 .. 4
        PROVE  f[n] = IF n = 0 THEN as ELSE New(f[n - 1], n)
    <3>1. n = 0 \/ n = 1 \/ n = 2 \/ n = 3 \/ n = 4
      OBVIOUS
    <3>2. 1 - 1 = 0 /\ 2 - 1 = 1 /\ 3 - 1 = 2 /\ 4 - 1 = 3
      OBVIOUS
    <3> HIDE DEF f
    <3> QED BY <1>1, <1>3, <3>1, <3>2
  <2>2. f = [n \in 0 .. 4 |-> f[n]]
    OBVIOUS
  <2> HIDE DEF f
  <2> QED BY <2>1, <2>2
<1> HIDE DEF f
<1>5. \E w : w = [n \in 0 .. 4 |-> IF n = 0 THEN as ELSE New(w[n - 1], n)]
  BY <1>4
<1>6. made = [n \in 0 .. 4 |-> IF n = 0 THEN as ELSE New(made[n - 1], n)]
  BY <1>5
<1> HIDE DEF made
<1>7. made[0] = as
  BY <1>6
<1>8. made[1] = New(made[0], 1)
  <2>1. 1 \in 0 .. 4 /\ 1 # 0 /\ 1 - 1 = 0
    OBVIOUS
  <2> QED BY <1>6, <2>1
<1>9. made[2] = New(made[1], 2)
  <2>1. 2 \in 0 .. 4 /\ 2 # 0 /\ 2 - 1 = 1
    OBVIOUS
  <2> QED BY <1>6, <2>1
<1>10. made[3] = New(made[2], 3)
  <2>1. 3 \in 0 .. 4 /\ 3 # 0 /\ 3 - 1 = 2
    OBVIOUS
  <2> QED BY <1>6, <2>1
<1>11. made[4] = New(made[3], 4)
  <2>1. 4 \in 0 .. 4 /\ 4 # 0 /\ 4 - 1 = 3
    OBVIOUS
  <2> QED BY <1>6, <2>1
<1> QED BY <1>1, <1>2, <1>7, <1>8, <1>9, <1>10, <1>11

\* The areas of a new image, or of a child, for a task that had none.
Filled(as, t, h, bs) ==
  /\ Sound(bs)
  /\ \A k \in Tasks : Rows(bs)[k] = IF k = t THEN Shape(h) ELSE Rows(as)[k]

LEMMA FourNew ==
  ASSUME NEW as, Sound(as), NEW t \in Tasks, Rows(as)[t] = <<>>, NEW h \in Nat,
         NEW list, Lists(list, h)
  PROVE  Filled(as, t, h, NewVmas(as, t, list))
<1> DEFINE b1 == NewVma(as, t, "text", 1)
           b2 == NewVma(b1, t, "data", 1)
           b3 == NewVma(b2, t, "heap", h)
           b4 == NewVma(b3, t, "stack", StackPages)
           r1 == Append(<<>>, <<"text", 1>>)
           r2 == Append(r1, <<"data", 1>>)
           r3 == Append(r2, <<"heap", h>>)
           r4 == Append(r3, <<"stack", StackPages>>)
<1>0. /\ "text" \in Starts /\ "data" \in Starts /\ "heap" \in Starts /\ "stack" \in Starts
      /\ StackPages \in Nat /\ 1 \in Nat
  BY AddressSpaceAssumption DEF Starts
<1>1. Given(as, t, <<"text", 1>>, b1)
  BY <1>0, NewVmaHeld
<1>2. Sound(b1) /\ Rows(b1)[t] = r1 /\ \A k \in Tasks \ {t} : Rows(b1)[k] = Rows(as)[k]
  BY <1>1 DEF Given
<1> HIDE DEF b1, r1
<1>3. Given(b1, t, <<"data", 1>>, b2)
  BY <1>0, <1>2, NewVmaHeld
<1>4. Sound(b2) /\ Rows(b2)[t] = r2 /\ \A k \in Tasks \ {t} : Rows(b2)[k] = Rows(as)[k]
  BY <1>2, <1>3 DEF Given
<1> HIDE DEF b2, r2
<1>5. Given(b2, t, <<"heap", h>>, b3)
  BY <1>0, <1>4, NewVmaHeld
<1>6. Sound(b3) /\ Rows(b3)[t] = r3 /\ \A k \in Tasks \ {t} : Rows(b3)[k] = Rows(as)[k]
  BY <1>4, <1>5 DEF Given
<1> HIDE DEF b3, r3
<1>7. Given(b3, t, <<"stack", StackPages>>, b4)
  BY <1>0, <1>6, NewVmaHeld
<1>8. Sound(b4) /\ Rows(b4)[t] = r4 /\ \A k \in Tasks \ {t} : Rows(b4)[k] = Rows(as)[k]
  BY <1>6, <1>7 DEF Given
<1>a. NewVmas(as, t, list) = b4
  BY FourRounds DEF b1, b2, b3
<1> HIDE DEF b4, r4
<1>9. r4 = Shape(h)
  BY ShapeBuilt DEF r1, r2, r3, r4
<1> QED BY <1>8, <1>9, <1>a DEF Filled

-----------------------------------------------------------------------------
(* The areas of live tasks. *)

\* mm->brk_end.
EndOf(as, t) == LET heap == {a \in Range(AreasOf(as, t)) : a.start = "heap"}
                IN  IF heap = {} THEN 0 ELSE (CHOOSE a \in heap : TRUE).pages

LEMMA AreasAre ==
  ASSUME NEW as, Sound(as), NEW t \in Tasks, NEW h \in Nat, Rows(as)[t] = Shape(h)
  PROVE  DOMAIN AreasOf(as, t) = 1 .. 4 /\ Lists(AreasOf(as, t), h)
<1> DEFINE of == AreasOf(as, t)
           r == Rows(as)[t]
<1>1. /\ Len(of) = Len(r) /\ DOMAIN of = 1 .. Len(r)
      /\ \A n \in 1 .. Len(r) : r[n] = <<of[n].start, of[n].pages>>
  BY AreasRow
<1>2. /\ Len(r) = 4
      /\ r[1] = <<"text", 1>> /\ r[2] = <<"data", 1>>
      /\ r[3] = <<"heap", h>> /\ r[4] = <<"stack", StackPages>>
  BY DEF Shape
<1> HIDE DEF r, of
<1>3. 1 \in 1 .. 4 /\ 2 \in 1 .. 4 /\ 3 \in 1 .. 4 /\ 4 \in 1 .. 4
  OBVIOUS
<1>4. /\ <<of[1].start, of[1].pages>> = <<"text", 1>>
      /\ <<of[2].start, of[2].pages>> = <<"data", 1>>
      /\ <<of[3].start, of[3].pages>> = <<"heap", h>>
      /\ <<of[4].start, of[4].pages>> = <<"stack", StackPages>>
  BY <1>1, <1>2, <1>3
<1>5. Lists(of, h)
  BY <1>1, <1>2, <1>4 DEF Lists
<1> QED BY <1>1, <1>2, <1>5 DEF of

LEMMA EndIs ==
  ASSUME NEW as, Sound(as), NEW t \in Tasks, NEW h \in Nat, Rows(as)[t] = Shape(h)
  PROVE  EndOf(as, t) = h
<1> DEFINE of == AreasOf(as, t)
           heap == {a \in Range(of) : a.start = "heap"}
<1>1. DOMAIN of = 1 .. 4 /\ Lists(of, h)
  BY AreasAre
<1> HIDE DEF of
<1>2. Range(of) = {of[1], of[2], of[3], of[4]}
  <2>1. 1 .. 4 = {1, 2, 3, 4}
    OBVIOUS
  <2> QED BY <1>1, <2>1 DEF Range
<1>3. heap = {of[3]} /\ of[3].pages = h
  <2>1. /\ of[1].start # "heap" /\ of[2].start # "heap" /\ of[4].start # "heap"
        /\ of[3].start = "heap" /\ of[3].pages = h
    BY <1>1 DEF Lists
  <2> QED BY <1>2, <2>1
<1>4. EndOf(as, t) = IF heap = {} THEN 0 ELSE (CHOOSE a \in heap : TRUE).pages
  BY DEF EndOf, of
<1> HIDE DEF heap
<1>5. heap # {} /\ (CHOOSE a \in heap : TRUE) = of[3]
  BY <1>3
<1> QED BY <1>3, <1>4, <1>5

\* readElf and setup_stack, for a task struct that is new.
LEMMA ImageFilled ==
  ASSUME NEW as, Sound(as), NEW t \in Tasks, Rows(as)[t] = <<>>
  PROVE  Filled(as, t, 0, ImageAreas(as, t))
<1> DEFINE list == << Area("text", 1), Area("data", 1), Area("heap", 0),
                      Area("stack", StackPages) >>
<1>1. Lists(list, 0)
  BY DEF Lists, Area
<1>2. ImageAreas(as, t) = NewVmas(as, t, list)
  BY DEF ImageAreas
<1> HIDE DEF list
<1> QED BY <1>1, <1>2, FourNew

\* setup_memory: the child has areas like its parent's.
LEMMA CopyFilled ==
  ASSUME NEW as, Sound(as), NEW t \in Tasks, NEW h \in Nat, Rows(as)[t] = Shape(h),
         NEW x \in Tasks, Rows(as)[x] = <<>>
  PROVE  Filled(as, x, h, NewVmas(as, x, AreasOf(as, t)))
<1>1. Lists(AreasOf(as, t), h)
  BY AreasAre
<1> QED BY <1>1, FourNew

\* The structs after brk: that of the heap of t has another end.
BrkStructs(as, t, end) ==
  [v \in DOMAIN as.vm |->
     IF v \in Range(Chain(as.vm, as.list[t])) /\ as.vm[v].start = "heap"
     THEN [as.vm[v] EXCEPT !.pages = end] ELSE as.vm[v]]

Resized(vm, s, end, wm) ==
  /\ wm \in Seq(Struct) /\ Len(wm) = Len(vm)
  /\ \A v \in 1 .. Len(vm) :
       /\ wm[v].next = vm[v].next /\ wm[v].start = vm[v].start
       /\ wm[v].pages = IF v \in In(s) /\ vm[v].start = "heap" THEN end ELSE vm[v].pages

LEMMA BrkResizes ==
  ASSUME NEW as, as.vm \in Seq(Struct), NEW t, NEW s, NEW end \in Nat,
         Chain(as.vm, as.list[t]) = s, s \in Seq(1 .. Len(as.vm))
  PROVE  Resized(as.vm, s, end, BrkStructs(as, t, end))
<1> DEFINE vm == as.vm
           n == Len(vm)
           wm == BrkStructs(as, t, end)
<1>1. Range(s) = In(s)
  <2>1. DOMAIN s = 1 .. Len(s)
    BY LenProperties
  <2> QED BY <2>1 DEF Range, In
<1>2. n \in Nat /\ DOMAIN vm = 1 .. n /\ \A v \in 1 .. n : vm[v] \in Struct
  BY LenProperties, ElementOfSeq
<1>3. wm = [v \in 1 .. n |-> IF v \in In(s) /\ vm[v].start = "heap"
                             THEN [vm[v] EXCEPT !.pages = end] ELSE vm[v]]
  BY <1>1, <1>2 DEF BrkStructs
<1> HIDE DEF vm, n, wm
<1>4. ASSUME NEW v \in 1 .. n
      PROVE  /\ wm[v] \in Struct
             /\ wm[v].next = vm[v].next /\ wm[v].start = vm[v].start
             /\ wm[v].pages = IF v \in In(s) /\ vm[v].start = "heap" THEN end
                              ELSE vm[v].pages
  <2>1. PICK e \in Struct : e = vm[v]
    BY <1>2
  <2>2. wm[v] = IF v \in In(s) /\ e.start = "heap" THEN [e EXCEPT !.pages = end] ELSE e
    BY <1>3, <2>1
  <2>3. /\ [e EXCEPT !.pages = end] \in Struct
        /\ [e EXCEPT !.pages = end].next = e.next
        /\ [e EXCEPT !.pages = end].start = e.start
        /\ [e EXCEPT !.pages = end].pages = end
    BY DEF Struct
  <2> QED BY <2>1, <2>2, <2>3
<1>5. wm \in Seq(Struct) /\ Len(wm) = n
  BY <1>2, <1>3, <1>4
<1> QED BY <1>4, <1>5 DEF Resized, vm, wm, n

LEMMA ResizedRow ==
  ASSUME NEW vm, vm \in Seq(Struct), NEW s, s \in Seq(1 .. Len(vm)), NEW end \in Nat, NEW wm,
         Resized(vm, s, end, wm), NEW h \in Nat, Row(vm, s) = Shape(h)
  PROVE  Row(wm, s) = Shape(end)
<1> DEFINE a == Row(vm, s)
           b == Row(wm, s)
           S == 1 .. Len(vm)
<1>1. /\ Len(a) = Len(s) /\ \A i \in 1 .. Len(s) : a[i] = Says(vm, s[i])
      /\ Len(b) = Len(s) /\ \A i \in 1 .. Len(s) : b[i] = Says(wm, s[i])
      /\ b \in Seq({Says(wm, x) : x \in S})
  <2> HIDE DEF S
  <2>1. s \in Seq(S)
    BY DEF S
  <2> QED BY <2>1, RowShape
<1>2. \A i \in 1 .. Len(s) : s[i] \in 1 .. Len(vm) /\ s[i] \in In(s)
  BY ElementOfSeq DEF In
<1>3. /\ Len(a) = 4
      /\ a[1] = <<"text", 1>> /\ a[2] = <<"data", 1>>
      /\ a[3] = <<"heap", h>> /\ a[4] = <<"stack", StackPages>>
  BY DEF Shape
<1>4. \A v \in 1 .. Len(vm) : v \in In(s) =>
        /\ wm[v].start = vm[v].start
        /\ vm[v].start = "heap" => wm[v].pages = end
        /\ vm[v].start # "heap" => wm[v].pages = vm[v].pages
  BY DEF Resized
<1> HIDE DEF a, b, S
<1>5. 1 \in 1 .. 4 /\ 2 \in 1 .. 4 /\ 3 \in 1 .. 4 /\ 4 \in 1 .. 4
  OBVIOUS
<1>6. \A i \in 1 .. 4 : /\ a[i] = <<vm[s[i]].start, vm[s[i]].pages>>
                        /\ b[i] = <<wm[s[i]].start, wm[s[i]].pages>>
                        /\ s[i] \in 1 .. Len(vm) /\ s[i] \in In(s)
  BY <1>1, <1>2, <1>3 DEF Says
<1>7. ASSUME NEW i \in 1 .. 4, NEW x, NEW y, a[i] = <<x, y>>
      PROVE  b[i] = <<x, IF x = "heap" THEN end ELSE y>>
  <2>1. PICK v : v = s[i]
    OBVIOUS
  <2>2. /\ a[i] = <<vm[v].start, vm[v].pages>>
        /\ b[i] = <<wm[v].start, wm[v].pages>>
        /\ v \in 1 .. Len(vm) /\ v \in In(s)
    BY <1>6, <2>1
  <2>3. vm[v].start = x /\ vm[v].pages = y
    BY <1>7, <2>2
  <2>4. wm[v].start = x /\ wm[v].pages = IF x = "heap" THEN end ELSE y
    BY <1>4, <2>2, <2>3
  <2> QED BY <2>2, <2>4
<1>8. b[1] = <<"text", 1>> /\ b[2] = <<"data", 1>>
  <2>1. b[1] = <<"text", IF "text" = "heap" THEN end ELSE 1>>
    BY <1>3, <1>5, <1>7
  <2>2. b[2] = <<"data", IF "data" = "heap" THEN end ELSE 1>>
    BY <1>3, <1>5, <1>7
  <2> QED BY <2>1, <2>2
<1>9. b[3] = <<"heap", end>>
  <2>1. b[3] = <<"heap", IF "heap" = "heap" THEN end ELSE h>>
    BY <1>3, <1>5, <1>7
  <2> QED BY <2>1
<1>10. b[4] = <<"stack", StackPages>>
  <2>1. b[4] = <<"stack", IF "stack" = "heap" THEN end ELSE StackPages>>
    BY <1>3, <1>5, <1>7
  <2> QED BY <2>1
<1>11. b = Shape(end)
  <2> DEFINE z == Shape(end)
             T == {Says(wm, x) : x \in S}
             U == T \cup {<<"text", 1>>, <<"data", 1>>, <<"heap", end>>,
                          <<"stack", StackPages>>}
  <2>1. z \in Seq(U) /\ Len(z) = 4 /\ z[1] = <<"text", 1>> /\ z[2] = <<"data", 1>>
        /\ z[3] = <<"heap", end>> /\ z[4] = <<"stack", StackPages>>
    <3> HIDE DEF T
    <3> QED BY DEF Shape
  <2>2. b \in Seq(U) /\ Len(b) = 4
    <3>1. b \in Seq(T) /\ T \subseteq U
      BY <1>1
    <3> HIDE DEF T, U
    <3> QED BY <1>1, <1>3, <3>1, SeqMonotonic
  <2> HIDE DEF z, T, U
  <2>3. \A i \in 1 .. 4 : i = 1 \/ i = 2 \/ i = 3 \/ i = 4
    OBVIOUS
  <2>4. \A i \in 1 .. 4 : b[i] = z[i]
    BY <1>8, <1>9, <1>10, <2>1, <2>3
  <2>5. b = z
    BY <2>1, <2>2, <2>4, SeqEqual
  <2> QED BY <2>5 DEF z
<1> QED BY <1>11 DEF b

\* brk: the heap of t has another end.
LEMMA BrkFilled ==
  ASSUME NEW as, Sound(as), NEW t \in Tasks, NEW h \in Nat, Rows(as)[t] = Shape(h),
         NEW end \in Nat
  PROVE  Filled(as, t, end, [as EXCEPT !.vm = BrkStructs(as, t, end)])
<1> DEFINE L == ListsOf(as)
           wm == BrkStructs(as, t, end)
           bs == [as EXCEPT !.vm = wm]
<1>1. Held(as, L) /\ t \in Owners /\ HeadOf(as, t) = as.list[t]
  BY ProcessAssumption DEF Owners, HeadOf, Sound
<1> HIDE DEF L
<1>2. as \in Areas /\ as.vm \in Seq(Struct) /\ Len(as.vm) \in Nat
  <2>1. as \in Areas
    BY <1>1, HeldParts
  <2> QED BY <2>1, AreasParts
<1>3. L[t] \in Seq(1 .. Len(as.vm)) /\ Chain(as.vm, as.list[t]) = L[t]
  BY <1>1, HeldAt
<1>4. Resized(as.vm, L[t], end, wm)
  <2> DEFINE s == L[t]
  <2>1. s \in Seq(1 .. Len(as.vm)) /\ Chain(as.vm, as.list[t]) = s
    BY <1>3
  <2> HIDE DEF s
  <2>2. Resized(as.vm, s, end, wm)
    BY <1>2, <2>1, BrkResizes
  <2> QED BY <2>2 DEF s
<1> HIDE DEF wm
<1>5. wm \in Seq(Struct) /\ Len(wm) = Len(as.vm)
  BY <1>4 DEF Resized
<1>6. bs \in Areas /\ bs.vm = wm /\ bs.list = as.list /\ bs.free = as.free
  BY <1>2, <1>5 DEF Areas
<1> HIDE DEF bs
<1>7. \A k \in Owners : HeadOf(bs, k) = HeadOf(as, k)
  BY <1>6 DEF HeadOf
<1>8. ASSUME NEW k \in Owners
      PROVE  Linked(bs.vm, HeadOf(bs, k), L[k])
  <2> DEFINE vm == as.vm  s == L[k]  v == HeadOf(as, k)
  <2>1. Linked(vm, v, s) /\ In(s) \subseteq 1 .. Len(vm)
    BY <1>1, HeldAt
  <2>2. \A u \in In(s) : wm[u].next = vm[u].next
    BY <1>4, <2>1 DEF Resized
  <2> DEFINE n == Len(vm)  m == Len(wm)
  <2>3. n \in Nat /\ m = n
    BY <1>2, <1>5
  <2> HIDE DEF n, m
  <2>4. n \in Nat /\ m \in Nat /\ n <= m
    BY <2>3
  <2> USE DEF n, m
  <2> HIDE DEF vm, s, v
  <2>5. Linked(wm, v, s)
    BY <2>1, <2>2, <2>4, LinkedSame
  <2> QED BY <1>6, <1>7, <2>5 DEF s, v
<1>9. Held(bs, L)
  BY <1>1, <1>6, <1>8 DEF Held
<1>10. Sound(bs) /\ \A k \in Tasks : Rows(bs)[k] = RowAt(bs, L, k)
  BY <1>9, SoundIs
<1>11. \A k \in Tasks : Rows(as)[k] = RowAt(as, L, k)
  BY <1>1, SoundIs
<1>12. Rows(bs)[t] = Shape(end)
  <2> DEFINE vm == as.vm  s == L[t]
  <2>1. Row(vm, s) = Shape(h) /\ vm \in Seq(Struct) /\ s \in Seq(1 .. Len(vm))
    BY <1>2, <1>3, <1>11 DEF RowAt
  <2>2. Resized(vm, s, end, wm)
    BY <1>4
  <2> HIDE DEF vm, s
  <2>3. Row(wm, s) = Shape(end)
    BY <2>1, <2>2, ResizedRow
  <2> QED BY <1>6, <1>10, <2>3 DEF RowAt, s
<1>13. ASSUME NEW k \in Tasks, k # t PROVE Rows(bs)[k] = Rows(as)[k]
  <2>1. k \in Owners /\ In(L[k]) \subseteq 1 .. Len(as.vm)
    <3>1. k \in Owners
      BY DEF Owners
    <3> QED BY <1>1, <3>1, HeldAt
  <2>2. In(L[k]) \cap In(L[t]) = {}
    BY <1>1, <1>13, <2>1 DEF Held
  <2> DEFINE vm == as.vm  s == L[k]
  <2>3. \A u \in In(s) : /\ wm[u].start = vm[u].start
                         /\ wm[u].pages = vm[u].pages
    BY <1>4, <2>1, <2>2 DEF Resized
  <2>4. \A u \in In(s) : Says(wm, u) = Says(vm, u)
    BY <2>3 DEF Says
  <2> HIDE DEF vm, s
  <2>5. Row(wm, s) = Row(vm, s)
    BY <2>4, RowSame
  <2> QED BY <1>6, <1>10, <1>11, <2>5 DEF RowAt, vm, s
<1>14. Filled(as, t, end, bs)
  BY <1>10, <1>12, <1>13 DEF Filled
<1> QED BY <1>14 DEF bs, wm

\* Every live task has the four areas of an image, of its own, and no other task
\* has any; every heap page that is mapped is at most two above the heap.
Shaped(as, live) ==
  /\ Sound(as)
  /\ \A t \in live : \E h \in Nat : Rows(as)[t] = Shape(h)
  /\ \A t \in Tasks \ live : Rows(as)[t] = <<>>

HeapWithin(t) ==
  \A h \in 1 .. HeapPages : map[t][<<"heap", h>>] # Absent => h <= EndOf(areas, t) + 2

MapsPages == map = [t \in Tasks |-> [p \in Page |-> map[t][p]]]

AreasInv ==
  /\ Shaped(areas, Listed)
  /\ MapsPages
  /\ \A t \in Listed : HeapWithin(t)

LEMMA ShapedEnd ==
  ASSUME NEW as, NEW live, live \subseteq Tasks, Shaped(as, live), NEW t \in live
  PROVE  EndOf(as, t) \in Nat /\ Rows(as)[t] = Shape(EndOf(as, t))
<1>1. PICK h \in Nat : Rows(as)[t] = Shape(h)
  BY DEF Shaped
<1>2. EndOf(as, t) = h
  BY <1>1, EndIs DEF Shaped
<1> QED BY <1>1, <1>2

\* A task comes, or a heap grows.
LEMMA ShapedFilled ==
  ASSUME NEW as, NEW live, live \subseteq Tasks, Shaped(as, live),
         NEW t \in Tasks, NEW h \in Nat, NEW bs, Filled(as, t, h, bs)
  PROVE  /\ Shaped(bs, live \cup {t})
         /\ EndOf(bs, t) = h
         /\ \A k \in live \ {t} : EndOf(bs, k) = EndOf(as, k)
<1>1. /\ Sound(bs) /\ Rows(bs)[t] = Shape(h)
      /\ \A k \in Tasks \ {t} : Rows(bs)[k] = Rows(as)[k]
  BY DEF Filled
<1>2. Shaped(bs, live \cup {t})
  <2>1. \A k \in live \cup {t} : \E i \in Nat : Rows(bs)[k] = Shape(i)
    <3> TAKE k \in live \cup {t}
    <3>1. CASE k = t
      BY <1>1, <3>1
    <3>2. CASE k # t
      <4>1. PICK i \in Nat : Rows(as)[k] = Shape(i)
        BY <3>2 DEF Shaped
      <4>2. Rows(bs)[k] = Shape(i)
        BY <1>1, <3>2, <4>1
      <4> QED BY <4>2
    <3> QED BY <3>1, <3>2
  <2>2. \A k \in Tasks \ (live \cup {t}) : Rows(bs)[k] = <<>>
    BY <1>1 DEF Shaped
  <2> QED BY <1>1, <2>1, <2>2 DEF Shaped
<1>3. EndOf(bs, t) = h
  BY <1>1, EndIs
<1>4. ASSUME NEW k \in live \ {t} PROVE EndOf(bs, k) = EndOf(as, k)
  <2>1. EndOf(as, k) \in Nat /\ Rows(as)[k] = Shape(EndOf(as, k))
    BY ShapedEnd
  <2>2. PICK i \in Nat : i = EndOf(as, k)
    BY <2>1
  <2>3. k \in Tasks /\ Rows(bs)[k] = Shape(i)
    BY <1>1, <2>1, <2>2
  <2>4. EndOf(bs, k) = i
    BY <1>1, <2>3, EndIs
  <2> QED BY <2>2, <2>4
<1> QED BY <1>2, <1>3, <1>4

\* A task ends.
LEMMA ShapedBared ==
  ASSUME NEW as, NEW live, live \subseteq Tasks, Shaped(as, live),
         NEW t \in Tasks, NEW bs, Bared(as, t, bs)
  PROVE  /\ Shaped(bs, live \ {t})
         /\ \A k \in live \ {t} : EndOf(bs, k) = EndOf(as, k)
<1>1. /\ Sound(bs) /\ Rows(bs)[t] = <<>>
      /\ \A k \in Tasks \ {t} : Rows(bs)[k] = Rows(as)[k]
  BY DEF Bared
<1>2. Shaped(bs, live \ {t})
  <2>1. \A k \in live \ {t} : \E i \in Nat : Rows(bs)[k] = Shape(i)
    <3> TAKE k \in live \ {t}
    <3>1. PICK i \in Nat : Rows(as)[k] = Shape(i)
      BY DEF Shaped
    <3>2. Rows(bs)[k] = Shape(i)
      BY <1>1, <3>1
    <3> QED BY <3>2
  <2>2. \A k \in Tasks \ (live \ {t}) : Rows(bs)[k] = <<>>
    BY <1>1 DEF Shaped
  <2> QED BY <1>1, <2>1, <2>2 DEF Shaped
<1>3. ASSUME NEW k \in live \ {t} PROVE EndOf(bs, k) = EndOf(as, k)
  <2>1. EndOf(as, k) \in Nat /\ Rows(as)[k] = Shape(EndOf(as, k))
    BY ShapedEnd
  <2>2. PICK i \in Nat : i = EndOf(as, k)
    BY <2>1
  <2>3. k \in Tasks /\ Rows(bs)[k] = Shape(i)
    BY <1>1, <2>1, <2>2
  <2>4. EndOf(bs, k) = i
    BY <1>1, <2>3, EndIs
  <2> QED BY <2>2, <2>4
<1> QED BY <1>2, <1>3

LEMMA MappedAt ==
  ASSUME MapsPages, NEW x \in Tasks, NEW pages,
         pages = [p \in Page |-> pages[p]], map' = [map EXCEPT ![x] = pages]
  PROVE  MapsPages' /\ map'[x] = pages /\ \A t \in Tasks \ {x} : map'[t] = map[t]
<1>1. map = [t \in Tasks |-> [p \in Page |-> map[t][p]]]
  BY DEF MapsPages
<1>2. DOMAIN map = Tasks /\ \A t \in Tasks : map[t] = [p \in Page |-> map[t][p]]
  BY <1>1
<1>3. map'[x] = pages /\ \A t \in Tasks \ {x} : map'[t] = map[t]
  BY <1>2
<1>4. \A t \in Tasks : map'[t] = [p \in Page |-> map'[t][p]]
  BY <1>2, <1>3
<1>5. map' = [t \in Tasks |-> map'[t]]
  BY <1>2
<1>6. map' = [t \in Tasks |-> [p \in Page |-> map'[t][p]]]
  BY <1>4, <1>5
<1> QED BY <1>3, <1>6 DEF MapsPages

\* fork and execve.
LEMMA AreasCome ==
  ASSUME AreasInv, Listed \subseteq Tasks, NEW x \in Tasks, x \notin Listed,
         Listed' = Listed \cup {x},
         NEW h \in Nat, Filled(areas, x, h, areas'),
         NEW pages, pages = [p \in Page |-> pages[p]], map' = [map EXCEPT ![x] = pages],
         \A i \in 1 .. HeapPages : pages[<<"heap", i>>] # Absent => i <= h + 2
  PROVE  AreasInv'
<1>1. /\ Shaped(areas', Listed \cup {x}) /\ EndOf(areas', x) = h
      /\ \A t \in Listed \ {x} : EndOf(areas', t) = EndOf(areas, t)
  BY ShapedFilled DEF AreasInv
<1>2. MapsPages' /\ map'[x] = pages /\ \A t \in Tasks \ {x} : map'[t] = map[t]
  BY MappedAt DEF AreasInv
<1>3. ASSUME NEW t \in Listed' PROVE HeapWithin(t)'
  <2>1. CASE t = x
    BY <1>1, <1>2, <2>1 DEF HeapWithin
  <2>2. CASE t # x
    <3>1. HeapWithin(t) /\ map'[t] = map[t] /\ EndOf(areas', t) = EndOf(areas, t)
      BY <1>1, <1>2, <2>2 DEF AreasInv
    <3> QED BY <3>1 DEF HeapWithin
  <2> QED BY <2>1, <2>2
<1>4. Shaped(areas, Listed)'
  BY <1>1
<1> QED BY <1>2, <1>3, <1>4 DEF AreasInv

\* free_task_mm_struct.
LEMMA AreasGo ==
  ASSUME AreasInv, Listed \subseteq Tasks, NEW t \in Listed, Listed' = Listed \ {t},
         FreeMemory(t)
  PROVE  AreasInv'
<1>1. Bared(areas, t, areas')
  BY FreeVmasHeld DEF FreeMemory, AreasInv, Shaped
<1>2. /\ Shaped(areas', Listed \ {t})
      /\ \A k \in Listed \ {t} : EndOf(areas', k) = EndOf(areas, k)
  BY <1>1, ShapedBared DEF AreasInv
<1>3. MapsPages' /\ \A k \in Tasks \ {t} : map'[k] = map[k]
  <2>1. NoPages = [p \in Page |-> NoPages[p]] /\ map' = [map EXCEPT ![t] = NoPages]
    BY DEF FreeMemory, NoPages
  <2> QED BY <2>1, MappedAt DEF AreasInv
<1>4. ASSUME NEW k \in Listed' PROVE HeapWithin(k)'
  <2>1. HeapWithin(k) /\ map'[k] = map[k] /\ EndOf(areas', k) = EndOf(areas, k)
    BY <1>2, <1>3 DEF AreasInv
  <2> QED BY <2>1 DEF HeapWithin
<1>5. Shaped(areas, Listed)'
  BY <1>2
<1> QED BY <1>3, <1>4, <1>5 DEF AreasInv

\* A page comes to a task: one of its stack, or one at most two above its heap.
LEMMA AreasFault ==
  ASSUME AreasInv, Listed \subseteq Tasks, NEW t \in Listed, Listed' = Listed,
         NEW q \in Page, MapFresh(t, q),
         \A h \in 1 .. HeapPages : q = <<"heap", h>> => h <= EndOf(areas, t) + 2
  PROVE  AreasInv'
<1>1. areas' = areas
  BY DEF MapFresh
<1> DEFINE pages == [map[t] EXCEPT ![q] = Nth(1)]
<1>2. map[t] = [p \in Page |-> map[t][p]] /\ DOMAIN map = Tasks
  BY DEF AreasInv, MapsPages
<1>3. pages = [p \in Page |-> pages[p]] /\ \A p \in Page \ {q} : pages[p] = map[t][p]
  BY <1>2
<1>4. map' = [map EXCEPT ![t] = pages]
  BY DEF MapFresh
<1> HIDE DEF pages
<1>5. MapsPages' /\ map'[t] = pages /\ \A k \in Tasks \ {t} : map'[k] = map[k]
  BY <1>3, <1>4, MappedAt DEF AreasInv
<1>6. ASSUME NEW k \in Listed' PROVE HeapWithin(k)'
  <2>0. HeapWithin(k)
    BY DEF AreasInv
  <2>1. CASE k = t
    <3>1. ASSUME NEW h \in 1 .. HeapPages, map'[k][<<"heap", h>>] # Absent
          PROVE  h <= EndOf(areas, k) + 2
      <4>1. <<"heap", h>> \in Page
        BY DEF Page, Heap
      <4>2. <<"heap", h>> # q => map[k][<<"heap", h>>] # Absent
        BY <1>3, <1>5, <2>1, <3>1, <4>1
      <4> QED BY <2>0, <2>1, <4>2 DEF HeapWithin
    <3> QED BY <1>1, <3>1 DEF HeapWithin
  <2>2. CASE k # t
    <3>1. map'[k] = map[k]
      BY <1>5, <2>2
    <3> QED BY <1>1, <2>0, <3>1 DEF HeapWithin
  <2> QED BY <2>1, <2>2
<1>7. Shaped(areas, Listed)'
  BY <1>1 DEF AreasInv
<1> QED BY <1>5, <1>6, <1>7 DEF AreasInv

LEMMA AreasSame ==
  ASSUME AreasInv, Listed' = Listed, areas' = areas, map' = map
  PROVE  AreasInv'
BY DEF AreasInv, MapsPages, HeapWithin

LEMMA BrkEndIs ==
  ASSUME AreasInv, Listed \subseteq Tasks, NEW t \in Listed
  PROVE  /\ BrkEnd(t) = EndOf(areas, t) /\ BrkEnd(t) \in Nat
         /\ Rows(areas)[t] = Shape(BrkEnd(t)) /\ Sound(areas)
<1>1. BrkEnd(t) = EndOf(areas, t)
  BY DEF BrkEnd, EndOf
<1>2. Shaped(areas, Listed)
  BY DEF AreasInv
<1>3. EndOf(areas, t) \in Nat /\ Rows(areas)[t] = Shape(EndOf(areas, t))
  BY <1>2, ShapedEnd
<1> QED BY <1>1, <1>2, <1>3 DEF Shaped

LEMMA AreasFork ==
  ASSUME IInv, AreasInv, Listed \subseteq Tasks, NEW t \in Tasks, AFork(t)
  PROVE  AreasInv'
<1>1. t \in Listed /\ nextPid \in Nat \ {0}
  BY CallerListed DEF AFork, Fork, IInv, TypeOK, PidsGivenOut
<1>2. PICK x \in FreeTask :
        CreateTask(x, nextPid, [ppid EXCEPT ![x] = pid[t]], t)
  BY DEF AFork, Fork
<1>3. x \in Tasks /\ x \notin Listed /\ Listed' = Listed \cup {x} /\ Created = x
  BY <1>1, <1>2, CreatedIsNew
<1>4. /\ map' = [map EXCEPT ![x] = Copied(t)]
      /\ areas' = NewVmas(areas, x, AreasOf(areas, t))
  BY <1>3 DEF AFork
<1>5. PICK h \in Nat : h = BrkEnd(t) /\ Rows(areas)[t] = Shape(h) /\ Sound(areas)
  BY <1>1, BrkEndIs
<1>6. Rows(areas)[x] = <<>>
  BY <1>3 DEF AreasInv, Shaped
<1>7. Filled(areas, x, h, areas')
  BY <1>3, <1>4, <1>5, <1>6, CopyFilled
<1>8. Copied(t) = [p \in Page |-> Copied(t)[p]]
  BY DEF Copied
<1>9. ASSUME NEW i \in 1 .. HeapPages, Copied(t)[<<"heap", i>>] # Absent
      PROVE  i <= h + 2
  <2>1. <<"heap", i>> \in Page /\ <<"heap", i>> \in Heap /\ <<"heap", i>> \notin Stack
    BY DEF Page, Heap, Stack
  <2>2. <<"heap", i>> \in Reached(t)
    BY <1>9, <2>1 DEF Copied
  <2>3. i <= h
    BY <1>5, <2>2 DEF Reached
  <2> QED BY <1>5, <2>3, AddressSpaceAssumption
<1> DEFINE pages == Copied(t)
<1> HIDE DEF pages
<1>10. pages = [p \in Page |-> pages[p]] /\ map' = [map EXCEPT ![x] = pages]
       /\ \A i \in 1 .. HeapPages : pages[<<"heap", i>>] # Absent => i <= h + 2
  BY <1>4, <1>8, <1>9 DEF pages
<1> QED BY <1>3, <1>7, <1>10, AreasCome

LEMMA AreasExecve ==
  ASSUME IInv, AreasInv, Listed \subseteq Tasks, NEW t \in Tasks, AExecve(t)
  PROVE  AreasInv'
<1> DEFINE pages == NewImage(Nth(1), Nth(2), Nth(3))
<1>1. t \in Listed /\ pid[t] \in Nat \ {0}
  BY CallerListed DEF AExecve, Execve, IInv, TypeOK, ListsPartition
<1>2. PICK x \in FreeTask :
        CreateTask(x, pid[t], [ppid EXCEPT ![x] = ppid[t], ![t] = 0], parent[t])
  BY DEF AExecve, Execve
<1>3. x \in Tasks /\ x \notin Listed /\ Listed' = Listed \cup {x} /\ Created = x
  BY <1>1, <1>2, CreatedIsNew
<1>4. map' = [map EXCEPT ![x] = pages] /\ areas' = ImageAreas(areas, x)
  BY <1>3 DEF AExecve
<1>5. Rows(areas)[x] = <<>> /\ Sound(areas)
  BY <1>3 DEF AreasInv, Shaped
<1>6. Filled(areas, x, 0, areas')
  BY <1>3, <1>4, <1>5, ImageFilled
<1>7. pages = [p \in Page |-> pages[p]]
  BY DEF NewImage, NoPages
<1>8. ASSUME NEW i \in 1 .. HeapPages PROVE pages[<<"heap", i>>] = Absent
  <2>1. /\ <<"heap", i>> \in Page /\ <<"heap", i>> # Text
        /\ <<"heap", i>> # Data /\ <<"heap", i>> # Top
    BY DEF Page, Heap, Text, Data, Top
  <2> QED BY <2>1 DEF NewImage, NoPages
<1> HIDE DEF pages
<1> QED BY <1>3, <1>4, <1>6, <1>7, <1>8, AreasCome

LEMMA AreasBrk ==
  ASSUME IInv, AreasInv, Listed \subseteq Tasks, NEW t \in Listed, Brk(t)
  PROVE  AreasInv'
<1>1. PICK h \in Nat : h = BrkEnd(t) /\ h = EndOf(areas, t)
                       /\ Rows(areas)[t] = Shape(h) /\ Sound(areas)
  BY BrkEndIs
<1>2. PICK end \in h + 1 .. HeapPages :
        areas' = [areas EXCEPT !.vm = BrkStructs(areas, t, end)]
  BY <1>1 DEF Brk, BrkStructs
<1>3. end \in Nat /\ h <= end
  BY <1>1, AddressSpaceAssumption
<1>4. Filled(areas, t, end, areas')
  BY <1>1, <1>2, <1>3, BrkFilled
<1>5. Listed' = Listed /\ map' = map
  BY DEF Brk, vars, lists, Listed
<1>6. /\ Shaped(areas', Listed \cup {t}) /\ EndOf(areas', t) = end
      /\ \A k \in Listed \ {t} : EndOf(areas', k) = EndOf(areas, k)
  BY <1>3, <1>4, ShapedFilled DEF AreasInv
<1>7. ASSUME NEW k \in Listed' PROVE HeapWithin(k)'
  <2>0. HeapWithin(k)
    BY <1>5 DEF AreasInv
  <2>1. CASE k = t
    <3>1. ASSUME NEW i \in 1 .. HeapPages, map[k][<<"heap", i>>] # Absent
          PROVE  i <= end + 2
      <4>1. i <= h + 2
        BY <1>1, <2>0, <2>1, <3>1 DEF HeapWithin
      <4> QED BY <1>1, <1>3, <4>1, AddressSpaceAssumption
    <3> QED BY <1>5, <1>6, <2>1, <3>1 DEF HeapWithin
  <2>2. CASE k # t
    <3>1. EndOf(areas', k) = EndOf(areas, k)
      BY <1>5, <1>6, <2>2
    <3> QED BY <1>5, <2>0, <3>1 DEF HeapWithin
  <2> QED BY <2>1, <2>2
<1>8. Shaped(areas, Listed)'
  <2>1. Listed \cup {t} = Listed
    OBVIOUS
  <2> QED BY <1>5, <1>6, <2>1
<1>9. MapsPages'
  BY <1>5 DEF AreasInv, MapsPages
<1> QED BY <1>7, <1>8, <1>9 DEF AreasInv

LEMMA AreasEnd ==
  ASSUME IInv, AreasInv, Listed \subseteq Tasks, NEW t \in Listed, NEW cc,
         FreeTaskStruct(t, cc), FreeMemory(t)
  PROVE  AreasInv'
<1>1. Listed' = Listed \ {t}
  BY FreeTaskEffect DEF IInv, TypeOK, ListsTyped
<1> QED BY <1>1, AreasGo

LEMMA AreasStep ==
  ASSUME IInv, AreasInv, [ANext]_avars
  PROVE  AreasInv'
<1>typed. taskList \in Seq(Tasks) /\ Listed \subseteq Tasks
  BY InRange DEF IInv, TypeOK, Listed
<1>1. CASE TimerIRQ /\ UNCHANGED memory
  BY <1>1, AreasSame DEF TimerIRQ, memory, lists, Listed
<1>2. ASSUME NEW t \in Tasks, AFork(t) PROVE AreasInv'
  BY <1>typed, <1>2, AreasFork
<1>3. ASSUME NEW t \in Tasks, AExecve(t) PROVE AreasInv'
  BY <1>typed, <1>3, AreasExecve
<1>4. ASSUME NEW t \in Tasks, AExit(t) PROVE AreasInv'
  <2>1. t \in Listed /\ FreeTaskStruct(t, ParentCount(t)) /\ FreeMemory(t)
    BY <1>4, CallerListed DEF AExit, Exit, ExitTask
  <2> QED BY <1>typed, <2>1, AreasEnd
<1>5. ASSUME NEW t \in Tasks, NEW p, AKill(t, p) PROVE AreasInv'
  <2> DEFINE target == GetTask(p)
  <2>1. target # NULL /\ FreeTaskStruct(target, childCount) /\ FreeMemory(target)
    BY <1>5 DEF AKill, Kill
  <2>2. target \in Listed
    BY <2>1, <1>typed, FirstFound DEF GetTask, Listed
  <2> HIDE DEF target
  <2> QED BY <1>typed, <2>1, <2>2, AreasEnd
<1>6. ASSUME NEW t \in Tasks, APageFault(t) PROVE AreasInv'
  <2>1. CASE t \in Listed
    <3>1. FreeTaskStruct(t, ParentCount(t)) /\ FreeMemory(t)
      BY <1>6, <2>1 DEF APageFault, PageFault, ExitTask
    <3> QED BY <1>typed, <2>1, <3>1, AreasEnd
  <2>2. CASE t \notin Listed
    BY <1>6, <2>2, AreasSame DEF APageFault, PageFault, memory, lists, Listed
  <2> QED BY <2>1, <2>2
<1>7. ASSUME NEW t \in Tasks, Runs(t) PROVE t \in Listed
  BY <1>7, ProcessAssumption DEF Runs, IInv, CurrentListed
<1>8. ASSUME NEW t \in Tasks, Brk(t) PROVE AreasInv'
  <2>1. t \in Listed
    BY <1>7, <1>8 DEF Brk
  <2> QED BY <1>typed, <1>8, <2>1, AreasBrk
<1>9. ASSUME NEW t \in Tasks, HeapFault(t) PROVE AreasInv'
  <2>1. t \in Listed
    BY <1>7, <1>9 DEF HeapFault
  <2>2. PICK h \in 1 .. EndOf(areas, t) + 2 :
          <<"heap", h>> \in Heap /\ MapFresh(t, <<"heap", h>>)
    <3>1. BrkEnd(t) = EndOf(areas, t)
      BY <1>typed, <2>1, BrkEndIs
    <3> QED BY <1>9, <3>1 DEF HeapFault
  <2>3. EndOf(areas, t) \in Nat
    BY <1>typed, <2>1, BrkEndIs
  <2>4. h <= EndOf(areas, t) + 2
    BY <2>2, <2>3
  <2> DEFINE q == <<"heap", h>>
  <2>5. /\ q \in Page /\ MapFresh(t, q)
        /\ \A i \in 1 .. HeapPages : q = <<"heap", i>> => i <= EndOf(areas, t) + 2
    BY <2>2, <2>4 DEF Page
  <2>6. Listed' = Listed
    BY <2>2 DEF MapFresh, vars, lists, Listed
  <2> HIDE DEF q
  <2> QED BY <1>typed, <2>1, <2>5, <2>6, AreasFault
<1>10. ASSUME NEW t \in Tasks, StackFault(t) PROVE AreasInv'
  <2>1. PICK s \in 1 .. StackPages : MapFresh(t, <<"stack", s>>)
    <3>1. PICK s \in 2 .. StackPages :
            \/ MapFresh(t, <<"stack", s>>)
            \/ s < StackPages /\ MapFresh(t, <<"stack", s + 1>>)
      BY <1>10 DEF StackFault
    <3>2. s \in 1 .. StackPages /\ (s < StackPages => s + 1 \in 1 .. StackPages)
      BY AddressSpaceAssumption
    <3> QED BY <3>1, <3>2
  <2> DEFINE q == <<"stack", s>>
  <2>2. /\ q \in Page /\ MapFresh(t, q)
        /\ \A i \in 1 .. HeapPages : q = <<"heap", i>> => i <= EndOf(areas, t) + 2
    BY <2>1 DEF Page, Stack
  <2>3. Listed' = Listed
    BY <2>1 DEF MapFresh, vars, lists, Listed
  <2>4. t \in Listed
    BY <1>7, <1>10 DEF StackFault
  <2> HIDE DEF q
  <2> QED BY <1>typed, <2>2, <2>3, <2>4, AreasFault
<1>11. CASE UNCHANGED avars
  BY <1>11, AreasSame DEF avars, vars, memory, lists, Listed
<1> QED BY <1>1, <1>2, <1>3, <1>4, <1>5, <1>6, <1>8, <1>9, <1>10, <1>11 DEF ANext

LEMMA InitAreas == AInit => AreasInv
<1> SUFFICES ASSUME AInit PROVE AreasInv
  OBVIOUS
<1>1. Hello \in Tasks /\ Sbush \in Tasks /\ Hello # Sbush
  BY ProcessAssumption
<1>2. Listed = {Hello, Sbush}
  <2>1. /\ taskList \in Seq(Tasks) /\ Len(taskList) = 2
        /\ taskList[1] = Hello /\ taskList[2] = Sbush
    BY <1>1 DEF AInit, Init
  <2>2. DOMAIN taskList = 1 .. 2
    BY <2>1, LenProperties
  <2> QED BY <2>1, <2>2 DEF Listed, Range
<1> DEFINE a == NoAreas(Tasks)
           b == ImageAreas(a, Hello)
           c == ImageAreas(b, Sbush)
<1>3. areas = c
  BY DEF AInit
<1>4. Sound(a) /\ \A t \in Tasks : Rows(a)[t] = <<>>
  BY NoAreasHeld
<1> HIDE DEF a
<1>5. Filled(a, Hello, 0, b)
  BY <1>1, <1>4, ImageFilled
<1> HIDE DEF b
<1>6. Sound(b) /\ Rows(b)[Sbush] = <<>>
  BY <1>1, <1>4, <1>5 DEF Filled
<1>7. Filled(b, Sbush, 0, c)
  BY <1>1, <1>6, ImageFilled
<1> HIDE DEF c
<1>8. Shaped(a, {})
  BY <1>4 DEF Shaped
<1>9. Shaped(b, {Hello})
  <2>1. Shaped(b, {} \cup {Hello})
    BY <1>1, <1>5, <1>8, ShapedFilled
  <2>2. {} \cup {Hello} = {Hello}
    OBVIOUS
  <2> QED BY <2>1, <2>2
<1>10. Shaped(c, {Hello, Sbush})
  <2>1. {Hello} \cup {Sbush} = {Hello, Sbush} /\ {Hello} \subseteq Tasks
    BY <1>1
  <2>2. Shaped(c, {Hello} \cup {Sbush})
    BY <1>1, <1>7, <1>9, <2>1, ShapedFilled
  <2> QED BY <2>1, <2>2
<1>11. MapsPages
  <2>1. map = [t \in Tasks |-> IF t = Hello THEN NewImage(1, 2, 3)
                               ELSE IF t = Sbush THEN NewImage(4, 5, 6) ELSE NoPages]
    BY DEF AInit
  <2>2. /\ NewImage(1, 2, 3) = [p \in Page |-> NewImage(1, 2, 3)[p]]
        /\ NewImage(4, 5, 6) = [p \in Page |-> NewImage(4, 5, 6)[p]]
        /\ NoPages = [p \in Page |-> NoPages[p]]
    BY DEF NewImage, NoPages
  <2>3. \A t \in Tasks : map[t] = [p \in Page |-> map[t][p]]
    BY <2>1, <2>2
  <2>4. map = [t \in Tasks |-> map[t]]
    BY <2>1
  <2>5. map = [t \in Tasks |-> [p \in Page |-> map[t][p]]]
    BY <2>3, <2>4
  <2> QED BY <2>5 DEF MapsPages
<1>12. ASSUME NEW t \in Listed PROVE HeapWithin(t)
  <2>1. map[t] = NewImage(1, 2, 3) \/ map[t] = NewImage(4, 5, 6)
    BY <1>1, <1>2 DEF AInit
  <2>2. \A h \in 1 .. HeapPages : <<"heap", h>> \in Page /\ <<"heap", h>> # Text
          /\ <<"heap", h>> # Data /\ <<"heap", h>> # Top
    BY DEF Page, Heap, Text, Data, Top
  <2>3. \A h \in 1 .. HeapPages : map[t][<<"heap", h>>] = Absent
    BY <2>1, <2>2 DEF NewImage, NoPages
  <2> QED BY <2>3 DEF HeapWithin
<1> QED BY <1>2, <1>3, <1>10, <1>11, <1>12 DEF AreasInv

\* A list holds no struct twice.
LEMMA ListCount ==
  ASSUME NEW N \in Nat, NEW s \in Seq(1 .. N),
         \A i, j \in 1 .. Len(s) : s[i] = s[j] => i = j
  PROVE  Cardinality(Range(s)) = Len(s)
<1> DEFINE n == Len(s)
<1>1. n \in Nat /\ DOMAIN s = 1 .. n /\ s \in [1 .. n -> 1 .. N]
  BY LenProperties
<1>2. s \in [1 .. n -> Range(s)] /\ \A y \in Range(s) : \E i \in 1 .. n : s[i] = y
  BY <1>1 DEF Range
<1>3. s \in Injection(1 .. n, Range(s)) /\ s \in Surjection(1 .. n, Range(s))
  BY <1>2 DEF Injection, IsInjective, Surjection
<1>4. s \in Bijection(1 .. n, Range(s))
  BY <1>3 DEF Bijection
<1>5. IsFiniteSet(1 .. n) /\ Cardinality(1 .. n) = n
  <2> HIDE DEF n
  <2>1. IsFiniteSet(1 .. n) /\ Cardinality(1 .. n) = IF 1 > n THEN 0 ELSE n - 1 + 1
    BY <1>1, FS_Interval
  <2> QED BY <1>1, <2>1
<1> HIDE DEF n
<1>6. Cardinality(Range(s)) = Cardinality(1 .. n)
  <2> DEFINE S == 1 .. n  T == Range(s)
  <2>1. s \in Bijection(S, T) /\ IsFiniteSet(S)
    BY <1>4, <1>5
  <2> HIDE DEF S, T
  <2>2. Cardinality(T) = Cardinality(S)
    BY <2>1, FS_Bijection DEF ExistsBijection
  <2> QED BY <2>2 DEF S, T
<1> QED BY <1>5, <1>6 DEF n

LEMMA FourLong ==
  ASSUME NEW z, z = [n \in 1 .. 4 |-> z[n]]
  PROVE  z = << z[1], z[2], z[3], z[4] >>
<1> DEFINE S == {z[1], z[2], z[3], z[4]}
           y == << z[1], z[2], z[3], z[4] >>
<1>1. \A n \in 1 .. 4 : n = 1 \/ n = 2 \/ n = 3 \/ n = 4
  OBVIOUS
<1>2. z \in Seq(S) /\ Len(z) = 4
  <2>1. \A n \in 1 .. 4 : z[n] \in S
    BY <1>1
  <2> HIDE DEF S
  <2> QED BY <2>1
<1>3. y \in Seq(S) /\ Len(y) = 4 /\ \A n \in 1 .. 4 : y[n] = z[n]
  <2>1. PICK a, b, c, d : a = z[1] /\ b = z[2] /\ c = z[3] /\ d = z[4]
    OBVIOUS
  <2>2. a \in S /\ b \in S /\ c \in S /\ d \in S
    BY <2>1
  <2>3. y = << a, b, c, d >>
    BY <2>1
  <2> HIDE DEF S
  <2>4. << a, b, c, d >> \in Seq(S) /\ Len(<< a, b, c, d >>) = 4
        /\ << a, b, c, d >>[1] = a /\ << a, b, c, d >>[2] = b
        /\ << a, b, c, d >>[3] = c /\ << a, b, c, d >>[4] = d
    BY <2>2
  <2> HIDE DEF y
  <2> QED BY <1>1, <2>1, <2>3, <2>4
<1> HIDE DEF S, y
<1>4. z = y
  BY <1>2, <1>3, SeqEqual
<1> QED BY <1>4 DEF y

LEMMA AreasAreOwned ==
  ASSUME AreasInv, Listed \subseteq Tasks
  PROVE  AreasOwned
<1> DEFINE Ids(t) == Chain(areas.vm, areas.list[t])
           Spare == Chain(areas.vm, areas.free)
           L == ListsOf(areas)
<1>1. Held(areas, L)
  BY DEF AreasInv, Shaped, Sound
<1>2. /\ NULL \in Owners /\ HeadOf(areas, NULL) = areas.free
      /\ \A t \in Listed : t \in Owners /\ t # NULL /\ HeadOf(areas, t) = areas.list[t]
  BY ProcessAssumption DEF Owners, HeadOf
<1> HIDE DEF L
<1>3. L[NULL] = Spare /\ \A t \in Listed : L[t] = Ids(t)
  <2>1. Spare = L[NULL]
    BY <1>1, <1>2, HeldAt
  <2>2. ASSUME NEW t \in Listed PROVE L[t] = Ids(t)
    BY <1>1, <1>2, HeldAt
  <2> QED BY <2>1, <2>2
<1> HIDE DEF Ids, Spare
<1>4. Len(areas.vm) \in Nat
  BY <1>1, HeldParts
<1>5. ASSUME NEW k \in Owners
      PROVE  Range(L[k]) = In(L[k]) /\ Cardinality(Range(L[k])) = Len(L[k])
  <2> DEFINE s == L[k]
  <2>1. /\ s \in Seq(1 .. Len(areas.vm))
        /\ \A i, j \in 1 .. Len(s) : s[i] = s[j] => i = j
    BY <1>1, HeldAt DEF Linked
  <2> HIDE DEF s
  <2>2. DOMAIN s = 1 .. Len(s)
    BY <2>1, LenProperties
  <2>3. Range(s) = In(s)
    BY <2>2 DEF Range, In
  <2>4. Cardinality(Range(s)) = Len(s)
    BY <1>4, <2>1, ListCount
  <2> QED BY <2>3, <2>4 DEF s
<1>6. \A k, l \in Owners : k # l => Range(L[k]) \cap Range(L[l]) = {}
  BY <1>1, <1>5 DEF Held
<1>7. \A t, u \in Listed : t # u => Range(Ids(t)) \cap Range(Ids(u)) = {}
  BY <1>2, <1>3, <1>6
<1>8. \A t \in Listed : Range(Ids(t)) \cap Range(Spare) = {}
  BY <1>2, <1>3, <1>6
<1>9. /\ \A t \in Listed : Cardinality(Range(Ids(t))) = Len(Ids(t))
      /\ Cardinality(Range(Spare)) = Len(Spare)
  BY <1>2, <1>3, <1>5
<1>10. ASSUME NEW t \in Listed
       PROVE  LET as == AreasOf(areas, t) IN
              /\ [n \in DOMAIN as |-> as[n].start] = <<"text", "data", "heap", "stack">>
              /\ \A p \in Page : map[t][p] # Absent =>
                   \E a \in Range(as) : a.start = p[1] /\ p[2] <= a.pages + 2
  <2> DEFINE of == AreasOf(areas, t)
             h == BrkEnd(t)
  <2>1. h = EndOf(areas, t) /\ h \in Nat /\ Rows(areas)[t] = Shape(h) /\ Sound(areas)
    BY BrkEndIs
  <2> HIDE DEF h
  <2>2. DOMAIN of = 1 .. 4 /\ Lists(of, h)
    BY <2>1, AreasAre
  <2> HIDE DEF of
  <2>3. 1 .. 4 = {1, 2, 3, 4}
    OBVIOUS
  <2>4. /\ of[1] \in Range(of) /\ of[2] \in Range(of)
        /\ of[3] \in Range(of) /\ of[4] \in Range(of)
    BY <2>2, <2>3 DEF Range
  <2>5. [n \in DOMAIN of |-> of[n].start] = <<"text", "data", "heap", "stack">>
    <3>1. of[1].start = "text" /\ of[2].start = "data" /\ of[3].start = "heap"
          /\ of[4].start = "stack"
      BY <2>2 DEF Lists
    <3>2. [n \in 1 .. 4 |-> of[n].start]
            = << of[1].start, of[2].start, of[3].start, of[4].start >>
      <4> DEFINE z == [n \in 1 .. 4 |-> of[n].start]
      <4>1. /\ z[1] = of[1].start /\ z[2] = of[2].start
            /\ z[3] = of[3].start /\ z[4] = of[4].start
        OBVIOUS
      <4>2. z = [n \in 1 .. 4 |-> z[n]]
        OBVIOUS
      <4> HIDE DEF z
      <4>3. z = << z[1], z[2], z[3], z[4] >>
        BY <4>2, FourLong
      <4> QED BY <4>1, <4>3 DEF z
    <3> QED BY <2>2, <3>1, <3>2
  <2>6. ASSUME NEW p \in Page, map[t][p] # Absent
        PROVE  \E a \in Range(of) : a.start = p[1] /\ p[2] <= a.pages + 2
    <3>1. CASE p = Text
      <4>1. of[1].start = p[1] /\ p[2] <= of[1].pages + 2
        BY <2>2, <3>1 DEF Lists, Text
      <4> QED BY <2>4, <4>1
    <3>2. CASE p = Data
      <4>1. of[2].start = p[1] /\ p[2] <= of[2].pages + 2
        BY <2>2, <3>2 DEF Lists, Data
      <4> QED BY <2>4, <4>1
    <3>3. CASE p \in Heap
      <4>1. PICK i \in 1 .. HeapPages : p = <<"heap", i>>
        BY <3>3 DEF Heap
      <4>2. i <= h + 2
        BY <2>1, <2>6, <4>1 DEF AreasInv, HeapWithin
      <4>3. of[3].start = p[1] /\ p[2] <= of[3].pages + 2
        BY <2>2, <4>1, <4>2 DEF Lists
      <4> QED BY <2>4, <4>3
    <3>4. CASE p \in Stack
      <4>1. PICK i \in 1 .. StackPages : p = <<"stack", i>>
        BY <3>4 DEF Stack
      <4>2. i <= StackPages + 2
        BY <4>1, AddressSpaceAssumption
      <4>3. of[4].start = p[1] /\ p[2] <= of[4].pages + 2
        BY <2>2, <4>1, <4>2 DEF Lists
      <4> QED BY <2>4, <4>3
    <3> QED BY <3>1, <3>2, <3>3, <3>4 DEF Page
  <2> QED BY <2>5, <2>6 DEF of
<1>11. \A list \in {Ids(t) : t \in Listed} \cup {Spare} :
         Cardinality(Range(list)) = Len(list)
  BY <1>9
<1> QED BY <1>7, <1>8, <1>10, <1>11 DEF AreasOwned, Ids, Spare

-----------------------------------------------------------------------------
(* The theorems.  A program without a parent ends only when no other task    *)
(* runs its image: the configuration that EndsEarly = FALSE stands for.  The  *)
(* areas do not depend on it.                                                *)

\* The process manager is not disturbed by what it does not see.
THEOREM MemoryRefinesProcess == ASpec => Spec
<1>1. AInit => Init
  BY DEF AInit
<1>2. [ANext]_avars => [Next]_vars
  BY MemoryStep DEF avars
<1> QED BY <1>1, <1>2, PTL DEF ASpec, Spec

\* The inductive invariant of the address space: what every page fault, fork,
\* execve, exit and kill preserves, as long as no load ends before those that share it.
THEOREM AInvHolds == ASSUME EndsEarly = FALSE PROVE ASpec => []AInv
<1>1. AInit => AInv
  <2> SUFFICES ASSUME AInit PROVE AInv
    OBVIOUS
  <2>1. IInv
    BY InitIInv DEF AInit
  <2>2. current = NULL /\ NULL \notin Listed
    BY <2>1, InRange, ProcessAssumption
       DEF AInit, Init, IInv, TypeOK, Listed
  <2> QED BY <2>1, <2>2, InitMemory DEF AInv, FaulterHasParent
<1>2. AInv /\ [ANext]_avars => AInv'
  <2> SUFFICES ASSUME AInv, [ANext]_avars PROVE AInv'
    OBVIOUS
  <2>1. [Next]_vars
    BY MemoryStep DEF avars
  <2>2. IInv'
    BY <2>1, NextIInv DEF AInv
  <2>3. FaulterHasParent' /\ MInv'
    BY <2>2, FaulterStep, MemoryInvStep DEF AInv
  <2> QED BY <2>2, <2>3 DEF AInv
<1> QED BY <1>1, <1>2, PTL DEF ASpec

\* Two tasks have a frame in common only where a fork shared it.
THEOREM FramesSharedByFork ==
  ASSUME EndsEarly = FALSE PROVE ASpec => []SharedByForkOnly
<1>1. AInv => SharedByForkOnly
  BY DEF AInv, MInv, SharedByCopy, SharedByForkOnly
<1> QED BY <1>1, AInvHolds, PTL

\* free_task_mm_struct, which ignores the counts, frees no frame of a task that
\* lives.
THEOREM FramesInUseStay ==
  ASSUME EndsEarly = FALSE PROVE ASpec => []NotFreedWhileMapped
<1>1. AInv => NotFreedWhileMapped
  BY DEF AInv, MInv
<1> QED BY <1>1, AInvHolds, PTL

\* The count of a frame is never below the number of tasks that map it.
THEOREM CountsNeverShort ==
  ASSUME EndsEarly = FALSE PROVE ASpec => []CountCoversTasks
<1>1. AInv => CountCoversTasks
  BY DEF AInv, MInv
<1> QED BY <1>1, AInvHolds, PTL

\* What create_vma, get_free_vma, brk, setup_memory and free_task_mm_struct keep of
\* the structs and their lists, whoever ends when.
THEOREM AreasInvHolds == ASpec => []AreasInv
<1>1. AInit => IInv /\ AreasInv
  BY InitIInv, InitAreas DEF AInit
<1>2. IInv /\ AreasInv /\ [ANext]_avars => (IInv /\ AreasInv)'
  <2> SUFFICES ASSUME IInv, AreasInv, [ANext]_avars PROVE IInv' /\ AreasInv'
    OBVIOUS
  <2>1. [Next]_vars
    BY MemoryStep DEF avars
  <2>2. IInv'
    BY <2>1, NextIInv
  <2> QED BY <2>2, AreasStep
<1> QED BY <1>1, <1>2, PTL DEF ASpec

\* No vm_area_struct is on two lists, although the structs are used again and
\* most of those of a task that ends are lost: each live task has the four areas
\* of its image, and they cover its pages.
THEOREM AreasStayOwned == ASpec => []AreasOwned
<1>1. IInv /\ AreasInv => AreasOwned
  <2> SUFFICES ASSUME IInv, AreasInv PROVE AreasOwned
    OBVIOUS
  <2>1. Listed \subseteq Tasks
    BY InRange DEF IInv, TypeOK, Listed
  <2> QED BY <2>1, AreasAreOwned
<1>2. ASpec => []IInv
  BY MemoryRefinesProcess, IInvHolds, PTL
<1> QED BY <1>1, <1>2, AreasInvHolds, PTL

=============================================================================
