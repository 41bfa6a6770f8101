------------------------------ MODULE MCLibrary ------------------------------
(* An archive of two directories to list, of which one has a program whose  *)
(* name begins with that of another.                                        *)
EXTENDS Library

CONSTANTS rootfs, bin, ls, lsx, doc, cat, txt

MCOrder  == <<rootfs, bin, ls, lsx, doc, cat, txt>>
MCDirs   == {rootfs, bin, doc}
MCParent == [f \in Files |-> CASE f \in {ls, lsx} -> bin
                               [] f \in {cat, txt} -> doc
                               [] OTHER -> rootfs]
MCBegins == ({rootfs} \X (Files \ {rootfs}))
              \cup {p \in MCDirs \X Files : MCParent[p[2]] = p[1]}
              \cup {<<ls, lsx>>}
MCSize   == [f \in Files |-> CASE f = ls -> 3 [] f \in MCDirs -> 0 [] OTHER -> 1]

\* Bounds: the readers share a file of three cells and an empty one; while one of
\* them has a file, or left one, the heap has up to two dirents and nothing else.
AtRest == written = 0 /\ left = {} /\ \A r \in Readers : handle[r] = Nothing
Few ==
  /\ \A r \in Readers : handle[r] \in {bin, ls, Nothing}
  /\ AtRest \/ \A i \in DOMAIN blocks : i <= 2 /\ blocks[i].size = Dirent
  /\ AtRest \/ cwd \in {rootfs, bin}
MCSpec == LibraryInit /\ [][LibraryNext /\ Few']_lvars

Symmetry == Permutations(Readers)
=============================================================================
