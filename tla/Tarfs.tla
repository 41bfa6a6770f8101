------------------------------- MODULE Tarfs -------------------------------
(***************************************************************************)
(* The file system of sys/fs/tarfs.c: a tar archive linked into the kernel *)
(* and one list of struct file, built from it at boot and shared by all    *)
(* processes.  There are no per-process tables: open returns the number of *)
(* the list entry, and the offset in that entry is everybody's.            *)
(*                                                                         *)
(* Memory is counted in cells; a header is a block of which the first cell *)
(* stands for the name and the second for the size field.                  *)
(***************************************************************************)
EXTENDS Integers, Sequences, FiniteSets, SequencesExt

CONSTANTS
  Order,   \* the list of files: rootfs/ first, the rest as in the archive
  Dirs,    \* those that are directories
  Parent,  \* the directory each name lies in
  Begins,  \* the pairs <<f, g>> where the name of g begins with that of f
  Size,    \* the size of each file
  Block,   \* cells in a block of the archive (512 bytes)
  Garbage, \* what atoi and octal_to_decimal make of text in a size field
  Nothing  \* no file: a null pointer, a failed lookup

Files == Range(Order)
Root  == Head(Order)
Final == Last(Order)

ASSUME TarfsAssumption ==
  /\ Order \in Seq(Files) /\ Len(Order) > 1 /\ IsInjective(Order)
  /\ Nothing \notin Files
  /\ Dirs \subseteq Files /\ Root \in Dirs
  /\ Parent \in [Files -> Dirs]
  /\ Begins \subseteq Files \X Files
  /\ Size \in [Files -> Nat] /\ \A d \in Dirs : Size[d] = 0
  /\ Block \in Nat /\ Block > 1
  /\ Garbage \in Nat

VARIABLES
  archive, \* the bytes from _binary_tarfs_start on
  offset,  \* the field offset of every struct file
  cwd      \* the directory of all processes

tarfs == <<archive, offset, cwd>>

Position(f) == CHOOSE i \in DOMAIN Order : Order[i] = f

\* fopen, fread, fwrite, fclose and fseek stop at the entry without a next.
Known == Files \ {Final}

-----------------------------------------------------------------------------
(* The archive. *)

Zero    == <<"zero">>
Text    == <<"text">>
Name(f) == <<"name", f>>
Aligned(size) ==
  IF size % Block = 0 THEN size ELSE size + (Block - (size % Block))

\* Where the header of a file was at boot, from the start of the archive.
addr ==
  LET at[i \in 2 .. Len(Order)] ==
        IF i = 2 THEN 0 ELSE at[i - 1] + Block + Aligned(Size[Order[i - 1]])
  IN  [f \in Files \ {Root} |-> at[Position(f)]]

Data(f)     == [k \in 1 .. Size[f] |-> <<"data", f, k>>]
DataFrom(f) == addr[f] + Block
ArchiveEnd  == DataFrom(Final) + Aligned(Size[Final])

\* tar ends an archive with blocks of zeros.
BootCell(a) ==
  CASE \E f \in Files \ {Root} : a = addr[f] ->
         Name(CHOOSE f \in Files \ {Root} : a = addr[f])
    [] \E f \in Files \ {Root} : a = addr[f] + 1 ->
         <<"size", CHOOSE f \in Files \ {Root} : a = addr[f] + 1>>
    [] \E f \in Files \ {Root} : a - DataFrom(f) \in 0 .. Size[f] - 1 ->
         LET f == CHOOSE g \in Files \ {Root} :
                    a - DataFrom(g) \in 0 .. Size[g] - 1
         IN  <<"data", f, a - DataFrom(f) + 1>>
    [] OTHER -> Zero
Archive == [a \in 0 .. ArchiveEnd + Block - 1 |-> BootCell(a)]

CellAt(a) == IF a \in DOMAIN archive THEN archive[a] ELSE Zero

\* octal_to_decimal(atoi(ustart->size))
SizeAt(a) ==
  LET c == CellAt(a)
  IN  IF c = Zero THEN 0 ELSE IF c[1] = "size" THEN Size[c[2]] ELSE Garbage

\* find_offset_for_file: from header to header by their sizes, up to an empty
\* name; 0, the start of the archive, when the name is not found.
FindOffsetForFile(f) ==
  LET walk[a \in Nat] ==
        IF CellAt(a) = Zero THEN 0
        ELSE IF CellAt(a) = Name(f) THEN a + Block
        ELSE walk[a + Block + Aligned(SizeAt(a + 1))]
  IN  walk[0]

-----------------------------------------------------------------------------
TarfsInit ==
  /\ archive = Archive
  /\ offset = [f \in Files |-> 0]
  /\ cwd = Root

Fopen(f) == IF f \in Known THEN f ELSE Nothing

\* Mutant: what is left is the size, whatever was read before.
GrantedFromStart(f, n) == IF Size[f] < n THEN Size[f] ELSE n

\* What fread makes of nbytes.  The difference is unsigned: past the end it is
\* huge, and nothing is cut off.
Granted(f, n) ==
  IF offset[f] <= Size[f] /\ Size[f] - offset[f] < n
  THEN Size[f] - offset[f] ELSE n

\* The cells that fread copies.
Fetched(f, n) ==
  [k \in 1 .. Granted(f, n) |-> CellAt(FindOffsetForFile(f) + offset[f] + k - 1)]

Fread(f, n) ==
  /\ offset' = [offset EXCEPT ![f] = @ + Granted(f, n)]
  /\ UNCHANGED <<archive, cwd>>

\* Mutant of FwriteAt: the offset counts from the start of the archive.
FwriteAtStart(f) == offset[f]

FwriteAt(f) == addr[f] + offset[f]

\* fwrite adds the offset to the address of the header.
Fwrite(f, cells) ==
  /\ archive' = [a \in DOMAIN archive |->
                   IF a - FwriteAt(f) \in 0 .. Len(cells) - 1
                   THEN cells[a - FwriteAt(f) + 1] ELSE archive[a]]
  /\ offset' = [offset EXCEPT ![f] = @ + Len(cells)]
  /\ UNCHANGED cwd

\* Mutant of Fclose: the entry is left as it is.
FcloseKeepsOffset(f) == UNCHANGED tarfs

Fclose(f) ==
  /\ offset' = IF f \in Known THEN [offset EXCEPT ![f] = 0] ELSE offset
  /\ UNCHANGED <<archive, cwd>>

\* SEEK_SET, SEEK_CUR and SEEK_END, with no limit; any other whence gives -1, which
\* as an unsigned offset is the cell before the first.
Fseek(f, n, whence) ==
  /\ offset' = [offset EXCEPT ![f] = CASE whence = 0 -> n
                                       [] whence = 1 -> @ + n
                                       [] whence = 2 -> Size[f] + n
                                       [] OTHER -> -1]
  /\ UNCHANGED <<archive, cwd>>

\* chdir takes any name that opens, a directory or not.
Chdir(f) ==
  /\ cwd' = IF Fopen(f) = Nothing THEN cwd ELSE f
  /\ UNCHANGED <<archive, offset>>

-----------------------------------------------------------------------------
(* Directories are read from the order of the list and the names in it. *)

In(d, f) == <<d, f>> \in Begins

\* dopen: the entry after the directory, if it lies in it.
Dopen(f) ==
  IF f \in Known \cap Dirs /\ In(f, Order[Position(f) + 1])
  THEN Order[Position(f) + 1] ELSE Nothing

\* Mutant: the entries inside f are not passed over.
DreadNext(f) ==
  IF f \in Known /\ In(Parent[f], Order[Position(f) + 1])
  THEN Order[Position(f) + 1] ELSE Nothing

\* dread: the next entry of the directory f lies in, past every name that
\* begins with the name of f, as those of the entries inside f do.
Dread(f) ==
  LET later == {i \in DOMAIN Order :
                  /\ i > Position(f)
                  /\ \A j \in Position(f) + 1 .. i : In(Parent[f], Order[j])
                  /\ ~In(f, Order[i])}
  IN  IF f \notin Known \/ later = {} THEN Nothing
      ELSE Order[CHOOSE i \in later : \A j \in later : i <= j]

=============================================================================
