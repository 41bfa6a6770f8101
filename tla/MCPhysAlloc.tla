---------------------------- MODULE MCPhysAlloc ----------------------------
(* Four words of six bits: memory with a hole at the end of a lower half,  *)
(* the kernel across the middle of a word, a memory map that ends within   *)
(* one, and a word of free pages.                                          *)
EXTENDS PhysAlloc

MCAvailable   == (0 .. 3) \X (0 .. 5) \ {<<0, 2>>, <<2, 5>>}
MCKernelFirst == <<1, 2>>
MCKernelLast  == <<1, 3>>

=============================================================================
