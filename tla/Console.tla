------------------------------ MODULE Console ------------------------------
(***************************************************************************)
(* The text console, sys/vgaconsole.c: video memory as one array of cells, *)
(* a cursor that moves over its first Rows rows, and below them a status   *)
(* row.  The column of the cursor has no limit: a long line goes on in the *)
(* cells of the next rows without moving the cursor there.                 *)
(*                                                                         *)
(* A character is a string; the attributes are left out.                   *)
(***************************************************************************)
EXTENDS Text

CONSTANTS
  Width, \* columns: 80
  Rows   \* rows that scroll: 24

ASSUME ConsoleAssumption == Width \in Nat \ {0} /\ Rows \in Nat \ {0}

Blank     == ""
Erase     == "backspace"
Tab       == "\t"
Carriage  == "\r"
TabStop   == 8

\* Bound: two rows of video memory below the status row.
Cells == 0 .. (Rows + 3) * Width - 1

\* vga_addr, cursor_x and cursor_y.
Cleared == [cells |-> [c \in Cells |-> Blank], x |-> 0, y |-> 0]

Pos(con)  == con.y * Width + con.x
StatusRow == Rows * Width

\* Row 24 is the end; the status row is not scrolled.
Scroll(con) ==
  IF con.y < Rows THEN con
  ELSE LET up   == con.y - Rows + 1
           kept == StatusRow - up * Width
       IN  [con EXCEPT !.y = Rows - 1,
              !.cells = [c \in Cells |-> CASE c < kept -> @[c + up * Width]
                                           [] c \in kept .. kept + Width - 1 -> Blank
                                           [] OTHER -> @[c]]]

\* Mutant: the character is erased, and the cursor stays.
EraseHere(con) ==
  IF con.x = 0 THEN con ELSE [con EXCEPT !.cells[Pos(con) - 1] = " "]

\* At the start of a row the cell that is erased is the one at the cursor, not
\* the one it goes to.
HandleBackspace(con) ==
  CASE con.x # 0 -> [con EXCEPT !.x = @ - 1, !.cells[Pos(con) - 1] = " "]
    [] con.x = 0 /\ con.y # 0 ->
         [con EXCEPT !.x = Width - 1, !.y = @ - 1, !.cells[Pos(con)] = " "]
    [] OTHER -> con

Putch(con, ch) ==
  Scroll(CASE ch = NewLine  -> [con EXCEPT !.x = 0, !.y = @ + 1]
           [] ch = Erase    -> HandleBackspace(con)
           [] ch = Tab      -> [con EXCEPT !.x = ((@ + TabStop) \div TabStop) * TabStop]
           [] ch = Carriage -> [con EXCEPT !.x = 0]
           [] OTHER         -> [con EXCEPT !.x = @ + 1, !.cells[Pos(con)] = ch])

\* A text ends at its first NUL, the character of a blank cell.
UpToNul(text) ==
  IF Blank \in Range(text) THEN SubSeq(text, 1, Min({n \in DOMAIN text : text[n] = Blank}) - 1)
  ELSE text

Puts(con, text) == FoldLeft(Putch, con, UpToNul(text))

\* puttimer: text in the status row; what was to the right of it stays.
PutStatus(con, column, text) ==
  [con EXCEPT !.cells = [c \in Cells |->
     IF c - StatusRow - column \in 0 .. Len(UpToNul(text)) - 1
     THEN text[c - StatusRow - column + 1] ELSE @[c]]]

\* The kernel's kprintf2 and kprintat.
Kprintf2(con, fmt, args) == Puts(con, Kvsprintf(fmt, args))
Kprintat(con, column, fmt, args) == PutStatus(con, column, Kvsprintf(fmt, args))

Clearscreen(con) ==
  [con EXCEPT !.x = 0, !.y = 0,
              !.cells = [c \in Cells |-> IF c < StatusRow THEN Blank ELSE @[c]]]

=============================================================================
