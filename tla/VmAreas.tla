------------------------------ MODULE VmAreas ------------------------------
(***************************************************************************)
(* The vm_area_structs of sys/process/process.c: each is on the list of one *)
(* task, or on the list of the free ones, through its next pointer.        *)
(*                                                                         *)
(* A struct is known by its place in the order of their kmallocs, and the  *)
(* pointer NULL is 0.                                                      *)
(***************************************************************************)
EXTENDS Integers, Sequences

NoVma == 0

\* All structs, free_vm_list, and the vma_list of each mm_struct.
NoAreas(tasks) == [vm |-> <<>>, free |-> NoVma, list |-> [t \in tasks |-> NoVma]]

\* What a loop over a list comes to; a list that runs into itself is cut off.
Chain(vm, v) ==
  LET walk[n \in 0 .. Len(vm) + 1] ==
        IF n = 0 THEN <<>>
        ELSE LET seen == walk[n - 1]
                 u    == IF seen = <<>> THEN v ELSE vm[seen[Len(seen)]].next
             IN  IF u = NoVma THEN seen ELSE Append(seen, u)
  IN  walk[Len(vm) + 1]

LastVma(vm, v) == LET chain == Chain(vm, v) IN chain[Len(chain)]

\* Mutant: free_vm_list stays where it is.
GetFreeVmaAgain(areas) ==
  IF areas.free = NoVma THEN [areas |-> areas, vma |-> Len(areas.vm) + 1]
  ELSE [areas |-> areas, vma |-> areas.free]

\* The first free struct, or a new one from kmalloc.
GetFreeVma(areas) ==
  IF areas.free = NoVma THEN [areas |-> areas, vma |-> Len(areas.vm) + 1]
  ELSE [areas |-> [areas EXCEPT !.free = areas.vm[areas.free].next], vma |-> areas.free]

\* create_vma and add_to_vma_list.  Where an area starts tells its type; it is
\* so many pages long.
NewVma(areas, t, start, pages) ==
  LET got == GetFreeVma(areas)
      v   == got.vma
      vm  == [n \in 1 .. (IF v > Len(areas.vm) THEN v ELSE Len(areas.vm)) |->
                IF n = v THEN [start |-> start, pages |-> pages, next |-> NoVma]
                         ELSE areas.vm[n]]
      head == areas.list[t]
  IN  IF head = NoVma THEN [got.areas EXCEPT !.vm = vm, !.list[t] = v]
      ELSE [got.areas EXCEPT !.vm = [vm EXCEPT ![LastVma(vm, head)].next = v]]

\* An area after the other, as readElf and setup_memory make them.
NewVmas(areas, t, list) ==
  LET made[n \in 0 .. Len(list)] ==
        IF n = 0 THEN areas ELSE NewVma(made[n - 1], t, list[n].start, list[n].pages)
  IN  made[Len(list)]

\* What is left of a struct in free_task_mm_struct, and add_to_free_vm_list.
AddToFreeVmList(areas, v) ==
  LET vm == [areas.vm EXCEPT ![v] = [start |-> "none", pages |-> 0, next |-> NoVma]]
  IN  IF areas.free = NoVma THEN [areas EXCEPT !.vm = vm, !.free = v]
      ELSE [areas EXCEPT !.vm = [vm EXCEPT ![LastVma(vm, areas.free)].next = v]]

\* A round of the loop of free_task_mm_struct: it takes the next pointer after
\* that was cleared, so it sees no more than the first struct, and the others
\* are lost.
FreeRound(loop) ==
  IF loop.at = NoVma THEN loop
  ELSE LET after == AddToFreeVmList(loop.areas, loop.at)
       IN  [areas |-> after, at |-> after.vm[loop.at].next,
            seen |-> Append(loop.seen, loop.areas.vm[loop.at])]

\* The areas whose memory free_task_mm_struct looks at, and what it leaves.
FreeVmas(areas, t) ==
  LET round[n \in 0 .. Len(areas.vm) + 1] ==
        IF n = 0 THEN [areas |-> areas, at |-> areas.list[t], seen |-> <<>>]
        ELSE FreeRound(round[n - 1])
      Done(loop) == [seen |-> loop.seen, areas |-> [loop.areas EXCEPT !.list[t] = NoVma]]
  IN  Done(round[Len(areas.vm) + 1])

\* The areas of a task, in the order of its list.
AreasOf(areas, t) ==
  LET chain == Chain(areas.vm, areas.list[t]) IN [n \in DOMAIN chain |-> areas.vm[chain[n]]]

=============================================================================
