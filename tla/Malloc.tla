------------------------------- MODULE Malloc -------------------------------
(***************************************************************************)
(* The heap of a program, libc/malloc.c: a list of blocks over brk, found  *)
(* by first fit, neither split nor merged, and never given back.           *)
(***************************************************************************)
EXTENDS Integers, Sequences

CONSTANTS
  HeapStart, \* where the heap area of the program begins
  Header,    \* sizeof(struct mem_block)
  Modulus,   \* 2^64: the modulus of size_t and of addresses
  Null       \* the null pointer

ASSUME MallocAssumption ==
  /\ HeapStart \in Nat \ {0} /\ Header \in Nat \ {0} /\ Modulus \in Nat
  /\ HeapStart < Modulus
  /\ Null \notin 0 .. Modulus

VARIABLES
  blocks, \* the chain from head: address, size and mark of every block
  brk     \* brk_end of the task

heap == <<blocks, brk>>

MallocInit == blocks = <<>> /\ brk = HeapStart

Pointer(b) == b.addr + Header

\* Mutant: any free block will do.
FitsIfFree(b, size) == b.free

Fits(b, size) == b.free /\ b.size >= size

\* find_free_mem_block: the first block that fits, 0 if there is none.
FindFreeMemBlock(size) ==
  LET I == {i \in DOMAIN blocks : Fits(blocks[i], size)}
  IN  IF I = {} THEN 0 ELSE CHOOSE i \in I : \A j \in I : i <= j

\* sbrk takes an increment of 0 for a question.
Sbrk(increment) == (brk + increment) % Modulus

\* What malloc returns.
Allocated(size) ==
  IF size = 0 THEN Null
  ELSE IF FindFreeMemBlock(size) # 0
       THEN Pointer(blocks[FindFreeMemBlock(size)])
       ELSE brk + Header

Allocate(size) ==
  LET i == FindFreeMemBlock(size)
  IN  IF size = 0 THEN UNCHANGED heap
      ELSE IF i # 0
           THEN blocks' = [blocks EXCEPT ![i].free = FALSE] /\ UNCHANGED brk
           ELSE /\ blocks' = Append(blocks, [addr |-> brk, size |-> size,
                                             free |-> FALSE])
                /\ brk' = Sbrk((size + Header) % Modulus)

\* free of a pointer that malloc returned: only the mark is set.
Free(ptr) ==
  /\ blocks' = [i \in DOMAIN blocks |->
                  IF Pointer(blocks[i]) = ptr
                  THEN [blocks[i] EXCEPT !.free = TRUE] ELSE blocks[i]]
  /\ UNCHANGED brk

=============================================================================
