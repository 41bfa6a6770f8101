---------------------------- MODULE AddressSpace ----------------------------
(***************************************************************************)
(* The user half of the address spaces: the pages that readElf maps for a  *)
(* new image (sys/process/elf.c), those that fork copies or shares         *)
(* (setup_memory, sys/syscall.c), those that a page fault adds             *)
(* (demand_paging, sys/idt.c), and what is given back when a task ends     *)
(* (free_task_mm_struct, sys/process/process.c).                           *)
(*                                                                         *)
(* A frame is a number, in the order in which the allocator offers them    *)
(* (module PhysAlloc); frame 0 is the page that the allocator never hands  *)
(* out.  Page tables and kernel memory are left out: they are never given  *)
(* back.                                                                   *)
(***************************************************************************)
EXTENDS Process, VmAreas, SequencesExt

CONSTANTS
  Frames,     \* bound: the frames 1 .. Frames
  HeapPages,  \* bound: pages of the heap
  StackPages, \* the pages of the stack vma: 16
  EndsEarly   \* may a program without a parent end while tasks that run a
              \* copy of it are left?

ASSUME AddressSpaceAssumption ==
  /\ Frames \in Nat /\ Frames >= 6  \* those of the two programs loaded at boot
  /\ HeapPages \in Nat /\ StackPages \in Nat \ {0}
  /\ EndsEarly \in BOOLEAN

VARIABLES
  map,    \* page tables: the frame of each page of a task
  areas,  \* the vm_area_structs and their lists
  free,   \* frames the allocator would hand out
  count,  \* refcount
  image   \* history: when the program a task runs was loaded

memory == <<map, areas, free, count, image>>
avars  == <<vars, memory>>

Absent  == -1
Text    == <<"text", 1>>  \* the first vma of a task
Data    == <<"data", 1>>  \* the other loadable segments
Top     == <<"stack", 1>>
Heap    == {"heap"} \X (1 .. HeapPages)
Stack   == {"stack"} \X (1 .. StackPages)
Page    == {Text, Data} \cup Heap \cup Stack
NoPages == [p \in Page |-> Absent]

\* mm->brk_end is vm_end of the heap vma, and both are set together.
BrkEnd(t) == LET heap == {a \in Range(AreasOf(areas, t)) : a.start = "heap"}
             IN  IF heap = {} THEN 0 ELSE (CHOOSE a \in heap : TRUE).pages

\* The pages of the heap vma.
Reached(t) == {h \in Heap : h[2] <= BrkEnd(t)}

\* mm_phy_alloc_page, called n times: the last frame it returns.
Nth(n) == CHOOSE f \in free : Cardinality({g \in free : g < f}) = n - 1

Allocate(new) ==
  /\ free' = free \ new
  /\ count' = [f \in 1 .. Frames |-> IF f \in new THEN count[f] + 1 ELSE count[f]]

-----------------------------------------------------------------------------
\* readElf and setup_stack, with three fresh frames.
NewImage(a, b, c) ==
  [NoPages EXCEPT ![Text] = a, ![Data] = b, ![Top] = c]

Area(start, pages) == [start |-> start, pages |-> pages]

ImageAreas(as, t) ==
  NewVmas(as, t, << Area("text", 1), Area("data", 1), Area("heap", 0),
                    Area("stack", StackPages) >>)

AInit ==
  /\ Init
  /\ map = [t \in Tasks |-> IF t = Hello THEN NewImage(1, 2, 3)
                            ELSE IF t = Sbush THEN NewImage(4, 5, 6)
                            ELSE NoPages]
  /\ areas = ImageAreas(ImageAreas(NoAreas(Tasks), Hello), Sbush)
  /\ free = 7 .. Frames
  /\ count = [f \in 1 .. Frames |-> IF f \in free THEN 0 ELSE 1]
  /\ image = [t \in Tasks |-> IF t \in Boot THEN pid[t] ELSE 0]

\* The struct that fork or execve put on the task list.
Created == taskList'[Len(taskList')]

AExecve(t) ==
  /\ Execve(t)
  /\ Cardinality(free) >= 3
  /\ Allocate({Nth(i) : i \in 1 .. 3})
  /\ map' = [map EXCEPT ![Created] = NewImage(Nth(1), Nth(2), Nth(3))]
  /\ areas' = ImageAreas(areas, Created)
  /\ image' = [image EXCEPT ![Created] = nextPid]

\* virt_to_phy returns 0 for a page that is absent.
VirtToPhy(t, p) == IF map[t][p] = Absent THEN 0 ELSE map[t][p]

\* What fork finds in the parent's stack.
InStack(t) == {i \in 1 .. StackPages : VirtToPhy(t, <<"stack", i>>) # 0}

\* Mutant of Copied: the stack is shared like the rest.
CopiedStackToo(t) ==
  [p \in Page |->
     IF p \in Stack THEN map[t][p]
     ELSE IF p \in Heap \ Reached(t) THEN Absent
     ELSE VirtToPhy(t, p)]

\* The pages of the child of t: the stack is copied to fresh frames, the frames
\* of the other vmas are mapped a second time.
Copied(t) ==
  [p \in Page |->
     IF p \in Stack
     THEN IF p[2] \in InStack(t)
          THEN Nth(Cardinality({i \in InStack(t) : i <= p[2]})) ELSE Absent
     ELSE IF p \in Heap \ Reached(t) THEN Absent
     ELSE VirtToPhy(t, p)]

\* Mutant of Shared: inc_ref_count is not called.
SharedUncounted(t) == {}

\* The frames that setup_memory calls inc_ref_count for.
Shared(t) == {VirtToPhy(t, p) : p \in {Text, Data} \cup Reached(t)}

AFork(t) ==
  LET fresh == Cardinality(InStack(t))
      new   == {Nth(i) : i \in 1 .. fresh}
  IN  /\ Fork(t)
      /\ Cardinality(free) >= fresh
      /\ free' = free \ new
      /\ count' = [f \in 1 .. Frames |->
                     IF f \in new \cup Shared(t) THEN count[f] + 1 ELSE count[f]]
      /\ map' = [map EXCEPT ![Created] = Copied(t)]
      /\ areas' = NewVmas(areas, Created, AreasOf(areas, t))
      /\ image' = [image EXCEPT ![Created] = image[t]]

\* Mutant of GivenBack: a child gives its first vma back as well.
GivenBackByAll(t) == {map[t][Text]} \ {0, Absent}

\* free_task_mm_struct: of the areas it comes to see, the stack, and the others
\* if the task has no parent.
GivenBack(t) ==
  LET back == {a \in Range(FreeVmas(areas, t).seen) : a.start = "stack" \/ parent[t] = NULL}
  IN  {map[t][p] : p \in {q \in Page : \E a \in back : a.start = q[1] /\ q[2] <= a.pages}}
        \ {0, Absent}

FreeMemory(t) ==
  /\ free' = free \cup GivenBack(t)
  /\ count' = [f \in 1 .. Frames |-> IF f \in GivenBack(t) THEN 0 ELSE count[f]]
  /\ map' = [map EXCEPT ![t] = NoPages]
  /\ areas' = FreeVmas(areas, t).areas
  /\ UNCHANGED image

\* The shell of the boot, or what it replaced itself by: its first vma is given
\* back when it ends.
MayEnd(t) ==
  EndsEarly \/ parent[t] # NULL \/ \A u \in Listed \ {t} : image[u] # image[t]

AExit(t) == Exit(t) /\ MayEnd(t) /\ FreeMemory(t)

\* kill ends its caller too, by a fault.
AKill(t, p) ==
  /\ Kill(t, p)
  /\ EndsEarly \/ (parent[t] # NULL /\ parent[GetTask(p)] # NULL)
  /\ FreeMemory(GetTask(p))

APageFault(t) ==
  /\ PageFault(t)
  /\ IF t \in Listed THEN FreeMemory(t) ELSE UNCHANGED memory

-----------------------------------------------------------------------------
(* Steps of a program that the process manager does not see. *)

Runs(t) == ~crashed /\ current = t /\ cr3 = t /\ pid[t] # HelloPid

Brk(t) ==
  /\ Runs(t)
  /\ \E end \in BrkEnd(t) + 1 .. HeapPages :
       areas' = [areas EXCEPT !.vm = [v \in DOMAIN @ |->
         IF v \in Range(Chain(areas.vm, areas.list[t])) /\ @[v].start = "heap"
         THEN [@[v] EXCEPT !.pages = end] ELSE @[v]]]
  /\ UNCHANGED <<vars, map, free, count, image>>

MapFresh(t, p) ==
  /\ free # {}
  /\ Allocate({Nth(1)})
  /\ map' = [map EXCEPT ![t][p] = Nth(1)]
  /\ UNCHANGED <<vars, areas, image>>

\* demand_paging lets a program go two pages past the end of the heap.
HeapFault(t) ==
  /\ Runs(t)
  /\ \E h \in 1 .. BrkEnd(t) + 2 :
       /\ <<"heap", h>> \in Heap /\ map[t][<<"heap", h>>] = Absent
       /\ MapFresh(t, <<"heap", h>>)

\* Rounding up the faulting address and going back one page finds its page, but
\* for the first byte of a page: then the page below is mapped, mapped anew if
\* it was there, and the access faults again.  A fault outside every vma ends
\* in exit.
StackFault(t) ==
  /\ Runs(t)
  /\ \E s \in 2 .. StackPages :
       /\ map[t][<<"stack", s>>] = Absent
       /\ \/ MapFresh(t, <<"stack", s>>)
          \/ s < StackPages /\ MapFresh(t, <<"stack", s + 1>>)

\* waitpid and sleep leave memory alone and only keep a task from running for a
\* while, which the timer can do as well: they are left out.
ANext ==
  \/ TimerIRQ /\ UNCHANGED memory
  \/ \E t \in Tasks :
       \/ AFork(t) \/ AExecve(t) \/ AExit(t) \/ APageFault(t)
       \/ Brk(t) \/ HeapFault(t) \/ StackFault(t)
       \/ \E p \in 1 .. nextPid - 1 : AKill(t, p)

ASpec == AInit /\ [][ANext]_avars

-----------------------------------------------------------------------------
FramesOf(t) == Range(map[t]) \ {Absent, 0}

\* Two tasks share a frame only if a fork made one from the other's program,
\* then at the same address, and never in the stack (setup_memory copies it
\* through a page of the kernel; readElf maps nothing but fresh frames).
SharedByForkOnly ==
  \A t, u \in Listed : \A p, q \in Page :
    t # u /\ map[t][p] = map[u][q] /\ map[t][p] \notin {Absent, 0}
      => p = q /\ p \notin Stack /\ image[t] = image[u]

\* No frame is on offer while a live task maps it, nor ever page 0, which fork
\* maps: free_task_mm_struct frees shared frames without a look at their counts,
\* and relies on parent = NULL.
NotFreedWhileMapped == 0 \notin free /\ \A t \in Listed : FramesOf(t) \cap free = {}

\* The count of a frame is at least the number of live tasks that map it:
\* dec_ref_count could not free it under one of them.
CountCoversTasks ==
  \A f \in 1 .. Frames :
    Cardinality({t \in Listed : f \in FramesOf(t)}) <= count[f]

\* No vm_area_struct is used twice: a live task has its four areas, in this
\* order, no struct is on two lists or twice on one, and every page that is
\* mapped lies in its area, or at most two above the heap (create_vma,
\* get_free_vma, add_to_free_vm_list, setup_memory).
AreasOwned ==
  LET Ids(t) == Chain(areas.vm, areas.list[t])
      Spare  == Chain(areas.vm, areas.free)
      Lists  == {Ids(t) : t \in Listed} \cup {Spare}
  IN  /\ \A t, u \in Listed : t # u => Range(Ids(t)) \cap Range(Ids(u)) = {}
      /\ \A t \in Listed : Range(Ids(t)) \cap Range(Spare) = {}
      /\ \A list \in Lists : Cardinality(Range(list)) = Len(list)
      /\ \A t \in Listed : LET as == AreasOf(areas, t) IN
           /\ [n \in DOMAIN as |-> as[n].start] = <<"text", "data", "heap", "stack">>
           /\ \A p \in Page : map[t][p] # Absent =>
                \E a \in Range(as) : a.start = p[1] /\ p[2] <= a.pages + 2

\* "don't map 0th page it is for null pointe" says mm_phy_init of the page that
\* the allocator keeps back: no task has it mapped.
NobodyMapsPage0 == \A t \in Listed : 0 \notin Range(map[t])

=============================================================================
