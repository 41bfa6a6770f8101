----------------------------- MODULE PageTables -----------------------------
(***************************************************************************)
(* Paging: the tables in physical memory that sys/mmu/pt.c walks and       *)
(* builds, the pages of kernel memory that sys/mmu/virtual_mm.c adds to    *)
(* them, and their use by create_new_task, readElf, setup_stack, fork,     *)
(* demand_paging and exit.                                                 *)
(*                                                                         *)
(* A frame is an array of Radix entries, each of which is a frame or       *)
(* Absent; what a program writes into a page of its own is Junk, an entry  *)
(* that leads somewhere.  The kernel's root table leads to its pages by    *)
(* its last entry.  The flags are left out: all pages of programs have the *)
(* same.  So is the one-to-one mapping through which tables are reached.   *)
(***************************************************************************)
EXTENDS Integers, FiniteSetsExt

CONSTANTS
  Radix,     \* entries of a table: 512
  Levels,    \* 4
  Frames,    \* bound: frames 0 .. Frames
  Spaces,    \* bound: address spaces in use at a time
  BootPages, \* kernel pages that setup_paging maps
  UserPages, \* the pages that programs use
  Text,      \* those of their first vma
  Stack,     \* those of the stack
  Part,      \* of each page, the entries that lie in its vma
  StrayStores \* whether programs write past their vmas, within a mapped page

\* The pages below k levels of tables: Radix to the k.
Span[k \in 0 .. Levels] == IF k = 0 THEN 1 ELSE Radix * Span[k - 1]

FirstKernel == (Radix - 1) * Span[Levels - 1]
KernelPages == FirstKernel .. Span[Levels] - 1

\* The boot maps no more than the last entry of the root leads to, and memory has
\* room for its tables.
ASSUME PageTablesAssumption ==
  /\ Radix \in Nat \ {0, 1} /\ Levels \in Nat \ {0, 1}
  /\ BootPages \in 0 .. Span[Levels - 1]
  /\ Frames \in Nat /\ Frames > Levels * BootPages
  /\ Text \subseteq UserPages /\ Stack \subseteq UserPages \ Text
  /\ UserPages \subseteq 0 .. FirstKernel - 1
  /\ Part \in [UserPages -> SUBSET (0 .. Radix - 1)] /\ StrayStores \in BOOLEAN

Absent == -1
Junk   == 0
Empty  == [e \in 0 .. Radix - 1 |-> Absent]

\* These entries are overwritten.
Over(t, es, x) == [e \in 0 .. Radix - 1 |-> IF e \in es THEN x ELSE t[e]]

VARIABLES
  mem,  \* physical memory
  free, \* the frames mm_phy_alloc_page would hand out
  top,  \* virtual_top
  root, \* of each space in use, the frame of its root table (pml4e)
  cr3   \* the root table in force

ptvars == <<mem, free, top, root, cr3>>

KRoot == 1 \* k_cr3

\* 0x1ff & (virt >> ..)
Offset(v, level) == (v \div Span[Levels - level]) % Radix

\* virt_to_phy, from the root r down: the table it comes to at each level, and the
\* page at the last.  Its return value when the page is absent is VirtToPhy.
Path(m, r, v) ==
  LET at[l \in 0 .. Levels] ==
        IF l = 0 THEN r
        ELSE LET t == at[l - 1] IN IF t = Absent THEN Absent ELSE m[t][Offset(v, l)]
  IN  at
Walk(m, r, v) == Path(m, r, v)[Levels]

VirtToPhy(r, v) == LET f == Walk(mem, r, v) IN IF f = Absent THEN 0 ELSE f

\* mm_phy_alloc_page
NextFree(s) == Min(s.free)
Taken(s)    == [s EXCEPT !.free = @ \ {Min(@)}]

\* The entry for v in the table at: a new table takes a frame as it is.
Descend(s, at, v, level) ==
  LET t == NextFree(s)
  IN  IF s.mem[at][Offset(v, level)] # Absent THEN s
      ELSE [Taken(s) EXCEPT !.mem[at][Offset(v, level)] = t]

Below(s, at, v, level) ==
  LET n == Descend(s, at, v, level)
  IN  [s |-> n, at |-> n.mem[at][Offset(v, level)]]

\* map_virt_to_phy and kernmem_mapping, in the space with root r: past so many
\* tables, and at the last the entry for v.
Descent(s, r, v) ==
  LET down[l \in 0 .. Levels - 1] ==
        IF l = 0 THEN [s |-> s, at |-> r]
        ELSE LET d == down[l - 1] IN Below(d.s, d.at, v, l)
  IN  down
MapVirtToPhy(s, r, v, f) ==
  LET last == Descent(s, r, v)[Levels - 1]
  IN  [last.s EXCEPT !.mem[last.at][Offset(v, Levels)] = f]

\* alloc_pages_at_virt for one page.
AllocAtVirt(s, r, v) == MapVirtToPhy(Taken(s), r, v, NextFree(s))

\* alloc_pages: one page of kernel memory, in the tables in force.
AllocPages(s) == [AllocAtVirt(s, cr3, s.top) EXCEPT !.top = @ + 1]

Now      == [mem |-> mem, free |-> free, top |-> top]
Becomes(s) == mem' = s.mem /\ free' = s.free /\ top' = s.top

\* Bounds: memory and kernel addresses do not run out.
Room == top < Span[Levels] /\ Cardinality(free) > 2 * Levels

-----------------------------------------------------------------------------
Blank == [mem  |-> [f \in 0 .. Frames |-> Empty],
          free |-> 2 .. Frames, top |-> FirstKernel + BootPages]

\* The loop of setup_paging after n rounds.
Booted[n \in 0 .. BootPages] ==
  IF n = 0 THEN Blank ELSE MapVirtToPhy(Booted[n - 1], KRoot, FirstKernel + n - 1, 0)

\* setup_paging: a root, and the pages of the kernel, in their order.
PTInit ==
  /\ mem = Booted[BootPages].mem /\ free = Booted[BootPages].free
  /\ top = Booted[BootPages].top
  /\ root = [s \in {} |-> 0]
  /\ cr3 = KRoot

\* kmalloc of a page.
Kmalloc ==
  /\ Room
  /\ Becomes(AllocPages(Now))
  /\ UNCHANGED <<root, cr3>>

\* Mutant: what is copied is the user half.
RootCopyUser(k) == [e \in 0 .. Radix - 1 |-> IF e < Radix - 1 THEN k[e] ELSE Absent]

\* The 512 entries of the kernel's root.
RootCopy(k) == k

\* env_setup_vm: the root table lies in a page of kernel memory.
EnvSetupVm(sp) ==
  /\ Room /\ sp \notin DOMAIN root
  /\ LET f == NextFree(Now)
         s == AllocPages(Now)
     IN  /\ Becomes([s EXCEPT !.mem[f] = RootCopy(s.mem[KRoot])])
         /\ root' = [t \in DOMAIN root \cup {sp} |-> IF t = sp THEN f ELSE root[t]]
  /\ UNCHANGED cr3

\* A page for a program, in its space, with this in it.
MapNew(sp, p, x) ==
  /\ Room
  /\ LET s == AllocAtVirt(Now, root[sp], p)
     IN  Becomes([s EXCEPT !.mem[NextFree(Now)] = x])
  /\ UNCHANGED <<root, cr3>>

\* readElf and setup_stack write what belongs to the vma; the rest of the frame
\* stays as it was.
LoadPage(sp, p) ==
  /\ p \in Text \cup Stack /\ Walk(mem, root[sp], p) = Absent
  /\ MapNew(sp, p, Over(mem[NextFree(Now)], Part[p], Junk))

\* demand_paging: a page of the heap is cleared, one of the stack is not, and may
\* be there already (see StackFault in AddressSpace).
HeapFault(sp, p) ==
  /\ p \notin Text \cup Stack /\ cr3 = root[sp] /\ Walk(mem, cr3, p) = Absent
  /\ MapNew(sp, p, Empty)
StackFault(sp, p) ==
  /\ p \in Stack /\ cr3 = root[sp]
  /\ MapNew(sp, p, mem[NextFree(Now)])

\* setup_memory of fork, for a page that is shared: page 0 if there is none.
SharePage(parent, child, p) ==
  /\ Room /\ p \notin Stack /\ Walk(mem, root[child], p) = Absent
  /\ Becomes(MapVirtToPhy(Now, root[child], p, VirtToPhy(root[parent], p)))
  /\ UNCHANGED <<root, cr3>>

\* And for one of the stack: copied to a page of kernel memory, the frame of
\* which the child's page gets as well.
CopyPage(parent, child, p) ==
  /\ Room /\ p \in Stack /\ cr3 = root[parent] /\ VirtToPhy(cr3, p) # 0
  /\ LET s == AllocPages(Now)
         f == Walk(s.mem, cr3, top)
     IN  Becomes(MapVirtToPhy([s EXCEPT !.mem[f] = s.mem[VirtToPhy(cr3, p)]],
                              root[child], p, f))
  /\ UNCHANGED <<root, cr3>>

\* A program writes into one of its pages, all of which are mapped writable.
Store(sp, p) ==
  LET f  == Walk(mem, cr3, p)
      es == IF StrayStores THEN 0 .. Radix - 1 ELSE Part[p]
  IN  /\ cr3 = root[sp] /\ f # Absent
      /\ mem' = [mem EXCEPT ![f] = Over(@, es, Junk)]
      /\ UNCHANGED <<free, top, root, cr3>>

\* Mutant: the pages are not cleared.
GivenBackAsIs(m, r) == m

\* free_task_mm_struct clears the first vma, from vm_start to vm_end, before
\* kfree; what else is in its frames stays.
GivenBack(m, r) ==
  [f \in DOMAIN m |->
     Over(m[f], UNION {Part[p] : p \in {q \in Text : Walk(m, r, q) = f}}, Absent)]

\* The end of a task without a parent: the frames of the first vma, which readElf
\* mapped before the task ran, are given back, the tables are left behind.  No
\* other space maps these frames (see EndsEarly in AddressSpace).
EndSpace(sp) ==
  LET given == {VirtToPhy(root[sp], p) : p \in Text}
  IN  /\ 0 \notin given
      /\ \A t \in DOMAIN root \ {sp}, p \in Text : Walk(mem, root[t], p) \notin given
      /\ mem' = GivenBack(mem, root[sp]) /\ free' = free \cup given
      /\ root' = [t \in DOMAIN root \ {sp} |-> root[t]]
      /\ cr3' = KRoot
      /\ UNCHANGED top

\* And of one with a parent, which gives nothing back.
LeaveSpace(sp) ==
  /\ root' = [t \in DOMAIN root \ {sp} |-> root[t]]
  /\ cr3' = KRoot
  /\ UNCHANGED <<mem, free, top>>

\* start_process
Switch(sp) == cr3' = root[sp] /\ UNCHANGED <<mem, free, top, root>>

PTNext ==
  \/ Kmalloc
  \/ \E sp \in Spaces : EnvSetupVm(sp)
  \/ \E sp \in DOMAIN root :
       \/ Switch(sp) \/ EndSpace(sp) \/ LeaveSpace(sp)
       \/ \E p \in UserPages :
            LoadPage(sp, p) \/ HeapFault(sp, p) \/ StackFault(sp, p) \/ Store(sp, p)
       \/ \E t \in DOMAIN root \ {sp}, p \in UserPages :
            SharePage(sp, t, p) \/ CopyPage(sp, t, p)

PTSpec == PTInit /\ [][PTNext]_ptvars

-----------------------------------------------------------------------------
MapIn(r, pages) == [p \in pages |-> Walk(mem, r, p)]

\* The kernel's pages are where they are in every address space: those mapped
\* after env_setup_vm copied the root, or by another space, included, for all of
\* them hang on tables that existed by then.
KernelShared ==
  \A sp \in DOMAIN root : MapIn(root[sp], KernelPages) = MapIn(KRoot, KernelPages)

Maps == INSTANCE AddressMaps
          WITH kernel <- MapIn(KRoot, KernelPages),
               user   <- [sp \in DOMAIN root |-> MapIn(root[sp], UserPages)]

\* The tables in memory implement address maps: a table that is built, a frame
\* taken for a table, shared, or given back and used again changes no mapping but
\* the one asked for.  That a frame given back is clear beyond vm_end, and so may
\* be taken for a table, is because programs do not write there (StrayStores).
ImplementsAddressMaps == Maps!MapsSpec

=============================================================================
