---------------------------- MODULE AddressMaps ----------------------------
(***************************************************************************)
(* What paging promises: each address space maps its own pages, one step   *)
(* changes at most one of them, and the kernel's pages are the same in     *)
(* all spaces and, once mapped, stay.                                      *)
(***************************************************************************)
EXTENDS Integers

CONSTANTS
  Spaces, UserPages, KernelPages,
  Absent  \* of a page that is not mapped

VARIABLES
  kernel, \* the frames of the kernel's pages
  user    \* of each space in use, the frames of its pages

avars == <<kernel, user>>

NoPages  == [p \in UserPages |-> Absent]
InUse    == DOMAIN user

MapsInit == user = [s \in {} |-> NoPages]

KernelGrows == \A p \in KernelPages : kernel'[p] # kernel[p] => kernel[p] = Absent

Mapped == {kernel[p] : p \in KernelPages}
            \cup UNION {{user[s][p] : p \in UserPages} : s \in InUse}

\* A frame that nothing maps, or what another space has there, which may be
\* nothing: then it is page 0.
Map(s, p) ==
  /\ user' = [user EXCEPT ![s][p] = user'[s][p]]
  /\ \/ user'[s][p] \notin Mapped
     \/ \E t \in InUse \ {s} : user'[s][p] \in {user[t][p], 0}

Create(s) ==
  /\ s \notin InUse
  /\ user' = [t \in InUse \cup {s} |-> IF t = s THEN NoPages ELSE user[t]]

End(s) == user' = [t \in InUse \ {s} |-> user[t]]

MapsNext ==
  /\ KernelGrows
  /\ \/ UNCHANGED user
     \/ \E s \in Spaces : Create(s)
     \/ \E s \in InUse : End(s) \/ \E p \in UserPages : Map(s, p)

MapsSpec == MapsInit /\ [][MapsNext]_avars
=============================================================================
