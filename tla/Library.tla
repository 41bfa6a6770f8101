------------------------------ MODULE Library ------------------------------
(***************************************************************************)
(* Programs on the file system, through libc/stdlib.c: readers that open,  *)
(* read, seek, write and close like cat and the shell's scripts, and one   *)
(* program that lists directories like ls and allocates memory besides.    *)
(* A system call is one step; the steps of the programs interleave.        *)
(***************************************************************************)
EXTENDS Tarfs, Malloc

CONSTANTS
  Readers,    \* programs that read files
  Counts,     \* the counts of their reads and writes
  Whences,    \* the whence arguments of their seeks
  Dirent,     \* sizeof(struct dirent)
  Sizes,      \* the sizes the lister allocates for itself
  MaxHeld,    \* bound: pointers it holds at a time
  MaxBlocks,  \* bound: blocks in its heap
  MaxWrites,  \* bound: writes to files
  MaxOffset   \* bound: offsets, which a seek or a write takes past the end of the file

ASSUME LibraryAssumption ==
  /\ Counts \subseteq Nat \ {0} /\ Whences \subseteq 0 .. 3
  /\ Dirent \in Nat \ {0} /\ Sizes \subseteq 0 .. Modulus - 1
  /\ MaxHeld \in Nat /\ MaxBlocks \in Nat /\ MaxWrites \in Nat
  /\ MaxOffset \in Nat

VARIABLES
  handle,   \* the file each reader opened
  stream,   \* what was read of each file since its close, until a write
  astray,   \* files sought outside of since a seek back into them or a close
  left,     \* files that a reader ended without closing, and nobody closed since
  written,  \* writes so far
  dir,      \* the directory being listed
  dit,      \* its handle: what opendir returned
  cursor,   \* the dirent the next readdir is called with
  entry,    \* the file each dirent in the heap describes
  listed,   \* the names seen
  finished, \* has readdir returned NULL?
  held      \* the pointers the program holds, with the sizes it asked for

readers == <<handle, stream, astray, left, written>>
lister  == <<dir, dit, cursor, entry, listed, finished, held>>
lvars   == <<tarfs, heap, readers, lister>>

LibraryInit ==
  /\ TarfsInit /\ MallocInit
  /\ handle = [r \in Readers |-> Nothing]
  /\ stream = [f \in Files |-> <<>>]
  /\ astray = {} /\ left = {} /\ written = 0
  /\ dir = Nothing /\ dit = Null /\ cursor = Null
  /\ entry = <<>> /\ listed = <<>> /\ finished = FALSE
  /\ held = {}

-----------------------------------------------------------------------------
(* Readers. *)

\* The last file of the archive, and no other, cannot be opened.
Open(r, f) ==
  /\ handle[r] = Nothing /\ f # Root
  /\ handle' = [handle EXCEPT ![r] = Fopen(f)]
  /\ UNCHANGED <<tarfs, heap, stream, astray, left, written, lister>>

Read(r, n) ==
  LET f == handle[r]
  IN  /\ f # Nothing
      /\ Fread(f, n)
      /\ offset'[f] <= MaxOffset
      /\ stream' = IF written > 0 \/ f \in astray THEN stream
                   ELSE [stream EXCEPT ![f] = @ \o Fetched(f, n)]
      /\ UNCHANGED <<heap, handle, astray, left, written, lister>>

Write(r, cells) ==
  /\ handle[r] # Nothing /\ written < MaxWrites
  /\ Fwrite(handle[r], cells)
  /\ offset'[handle[r]] <= MaxOffset
  /\ written' = written + 1
  /\ stream' = [f \in Files |-> <<>>] /\ astray' = {}
  /\ UNCHANGED <<heap, handle, left, lister>>

\* Nothing keeps a seek within the file.  One that does stay within it goes on
\* with what a reader of the whole file would have read so far.
Seek(r, n, whence) ==
  LET f      == handle[r]
      within == offset'[f] \in 0 .. Size[f]
  IN  /\ f # Nothing
      /\ Fseek(f, n, whence)
      /\ offset'[f] <= MaxOffset
      /\ IF written > 0 THEN UNCHANGED <<stream, astray>>
         ELSE /\ stream' = [stream EXCEPT ![f] =
                              IF within THEN SubSeq(Data(f), 1, offset'[f]) ELSE <<>>]
              /\ astray' = IF within THEN astray \ {f} ELSE astray \cup {f}
      /\ UNCHANGED <<heap, handle, left, written, lister>>

\* What fclose ends: the stream of the file, and who left it or sought outside.
Ended(f) ==
  /\ stream' = IF f \in Known THEN [stream EXCEPT ![f] = <<>>] ELSE stream
  /\ astray' = astray \ {f} /\ left' = left \ {f}

Close(r) ==
  /\ handle[r] # Nothing
  /\ Fclose(handle[r]) /\ Ended(handle[r])
  /\ handle' = [handle EXCEPT ![r] = Nothing]
  /\ UNCHANGED <<heap, written, lister>>

\* exit and kill close nothing.
Leave(r) ==
  /\ handle[r] # Nothing
  /\ handle' = [handle EXCEPT ![r] = Nothing]
  /\ left' = left \cup {handle[r]}
  /\ UNCHANGED <<tarfs, heap, stream, astray, written, lister>>

-----------------------------------------------------------------------------
(* The lister. *)

ChangeDir(f) ==
  /\ dit = Null
  /\ Chdir(f)
  /\ UNCHANGED <<heap, readers, lister>>

Remember(ptr, f) == [p \in DOMAIN entry \cup {ptr} |->
                       IF p = ptr THEN f ELSE entry[p]]

\* The directory to list: the last that anybody changed to.
Getcwd == cwd

\* opendir of the working directory.  getdents fills the dirent with the first
\* entry; when there is none opendir, whose test for that is unsigned, returns
\* the dirent all the same.
OpenDir ==
  /\ dit = Null /\ Len(blocks) < MaxBlocks
  /\ Allocate(Dirent)
  /\ LET first == Dopen(Getcwd)
     IN  /\ entry' = Remember(Allocated(Dirent), first)
         /\ listed' = IF first = Nothing THEN <<>> ELSE <<first>>
  /\ dir' = Getcwd /\ dit' = Allocated(Dirent) /\ cursor' = Allocated(Dirent)
  /\ finished' = FALSE
  /\ UNCHANGED <<tarfs, readers, held>>

\* The kernel's part of readdir, which writes the next entry to the new dirent and
\* over the one it was called with; at the end it writes to neither.
SystemReaddir(new, next) ==
  IF next = Nothing THEN Remember(new, Nothing)
  ELSE [Remember(new, next) EXCEPT ![cursor] = next]

\* readdir allocates a dirent.  A program goes on with that or with the old one.
ReadDir ==
  /\ dit # Null /\ ~finished /\ Len(blocks) < MaxBlocks
  /\ Allocate(Dirent)
  /\ LET new  == Allocated(Dirent)
         next == IF entry[cursor] = Nothing THEN Nothing ELSE Dread(entry[cursor])
     IN  /\ entry' = SystemReaddir(new, next)
         /\ IF next = Nothing THEN finished' = TRUE /\ UNCHANGED <<listed, cursor>>
            ELSE /\ listed' = Append(listed, next)
                 /\ cursor' \in {cursor, new}
                 /\ UNCHANGED finished
  /\ UNCHANGED <<tarfs, readers, dir, dit, held>>

\* closedir takes the dirent for a struct dir: the file it closes is the entry
\* that was written to the handle last.
CloseDir ==
  /\ dit # Null
  /\ IF entry[dit] = Nothing THEN UNCHANGED <<tarfs, stream, astray, left>>
     ELSE Fclose(entry[dit]) /\ Ended(entry[dit])
  /\ Free(dit)
  /\ dir' = Nothing /\ dit' = Null /\ cursor' = Null
  /\ entry' = <<>> /\ listed' = <<>> /\ finished' = FALSE
  /\ UNCHANGED <<handle, written, held>>

\* The calls of ls: open the working directory, read to the end, close; other
\* programs close before the end.
ShowFiles == OpenDir \/ ReadDir \/ CloseDir

\* Memory for other purposes.
Take(size) ==
  /\ Cardinality(held) < MaxHeld /\ Len(blocks) < MaxBlocks
  /\ Allocate(size)
  /\ held' = IF size = 0 THEN held
             ELSE held \cup {[ptr |-> Allocated(size), size |-> size]}
  /\ UNCHANGED <<tarfs, readers, dir, dit, cursor, entry, listed, finished>>

Give(h) ==
  /\ h \in held
  /\ Free(h.ptr)
  /\ held' = held \ {h}
  /\ UNCHANGED <<tarfs, readers, dir, dit, cursor, entry, listed, finished>>

LibraryNext ==
  \/ \E r \in Readers :
       \/ \E f \in Files : Open(r, f)
       \/ \E n \in Counts : Read(r, n)
       \/ \E n \in Counts, c \in {Text, Zero} : Write(r, [k \in 1 .. n |-> c])
       \/ \E n \in Counts, whence \in Whences : Seek(r, n, whence)
       \/ Close(r)
       \/ Leave(r)
  \/ \E f \in Files : ChangeDir(f)
  \/ ShowFiles
  \/ \E size \in Sizes : Take(size)
  \/ \E h \in held : Give(h)

LibrarySpec == LibraryInit /\ [][LibraryNext]_lvars

-----------------------------------------------------------------------------
\* However many programs read a file in turn through its one offset, together
\* they get its contents once, in order and to the last byte, from one close of
\* it to the next (fread, find_offset_for_file; only fwrite spoils it).  What a
\* seek outside does to it ends with the next seek inside or the next close.
StreamInOrder ==
  written = 0 =>
    \A f \in Known \ astray :
      stream[f] = [k \in 1 .. offset[f] |-> <<"data", f, k>>]

\* open does not rewind: a file nobody holds is at its start because whoever
\* held it closed it, and nothing else moves it away from there.  Only a file
\* that a program left open keeps its place, until somebody else closes it.
ClosedAtStart ==
  \A f \in Known \ left : offset[f] = 0 \/ \E r \in Readers : handle[r] = f

\* fwrite, though it starts from the header, changes no header and no byte of
\* another file, as long as the offset is within its own.
OthersUntouched ==
  [][\A a \in DOMAIN archive :
       archive'[a] # archive[a] =>
         \E r \in Readers :
           /\ handle[r] # Nothing
           /\ offset[handle[r]] \in 0 .. Size[handle[r]] =>
                a \in addr[handle[r]] .. DataFrom(handle[r]) + Size[handle[r]] - 1]_lvars

\* The names of a directory's entries, as far as none begins with another.
WellNamed(d) ==
  \A f, g \in Files : Parent[f] = d /\ Parent[g] = d /\ f \notin Dirs => ~In(f, g)
Children(d) == SelectSeq(Order, LAMBDA f : f # Root /\ Parent[f] = d)

\* A listing is complete and names nothing twice, whichever of the two dirents
\* readdir is called with: it overwrites both (opendir, dopen, readdir, dread).
ListsDirectory ==
  /\ IsPrefix(listed, Children(dir)) \/ ~WellNamed(dir)
  /\ finished /\ WellNamed(dir) => listed = Children(dir)

\* Every pointer the program may use, the dirents included, has the room it was
\* asked for, and none of it is another's or beyond brk.
Rooms ==
  held \cup {[ptr |-> p, size |-> Dirent] : p \in {dit, cursor} \ {Null}}
Room(h) == h.ptr .. h.ptr + h.size - 1
BlocksDisjoint ==
  /\ \A h \in Rooms : Room(h) \subseteq HeapStart .. brk - 1
  /\ \A h, k \in Rooms : h # k => Room(h) \cap Room(k) = {}
=============================================================================
