--------------------------- MODULE PageAllocator ---------------------------
(***************************************************************************)
(* What the page allocator promises the rest of the kernel: it hands out a *)
(* page that nobody holds.  It does not promise to offer a page again once *)
(* it was given back.                                                      *)
(***************************************************************************)
CONSTANT Pool  \* the pages that may be handed out

VARIABLES free, held

vars == <<free, held>>

Init == free \in SUBSET Pool /\ held = {}

Alloc ==
  \E p \in free : free' = free \ {p} /\ held' = held \cup {p}

Release ==
  \E p \in held : free' \in {free, free \cup {p}} /\ held' = held \ {p}

Spec == Init /\ [][Alloc \/ Release]_vars

=============================================================================
