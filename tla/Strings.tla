------------------------------ MODULE Strings ------------------------------
(***************************************************************************)
(* The string functions: libc/string.c, sys/kstring.c and, in the first    *)
(* assignment, w1/libc/string.c, loop by loop as they are written there.   *)
(*                                                                         *)
(* A memory maps addresses to characters, a pointer is an address, and a   *)
(* text lies in the memory up to its NUL.  Functions that write return the *)
(* memory after them.                                                      *)
(***************************************************************************)
EXTENDS Integers, SequencesExt

CONSTANT Code \* the codes of the characters that are compared

NUL     == ""
Nowhere == -1  \* the pointer NULL

RECURSIVE Strlen(_, _)
Strlen(mem, p) == IF mem[p] = NUL THEN 0 ELSE 1 + Strlen(mem, p + 1)

Str(mem, p) == [k \in 1 .. Strlen(mem, p) |-> mem[p + k - 1]]

-----------------------------------------------------------------------------
(* Writers. *)

Memset(mem, p, ch, n) == [q \in DOMAIN mem |-> IF q \in p .. p + n - 1 THEN ch ELSE mem[q]]
Reset(mem, p, len)    == Memset(mem, p, NUL, len)

RECURSIVE Memcpy(_, _, _, _)
Memcpy(mem, d, s, n) ==
  IF n = 0 THEN mem ELSE Memcpy([mem EXCEPT ![d] = mem[s]], d + 1, s + 1, n - 1)

RECURSIVE Strcpy(_, _, _)
Strcpy(mem, d, s) ==
  LET copied == [mem EXCEPT ![d] = mem[s]]
  IN  IF mem[s] = NUL THEN copied ELSE Strcpy(copied, d + 1, s + 1)

\* Mutant: the copy ends with the text, what is behind it stays.
RECURSIVE StrncpyStops(_, _, _, _)
StrncpyStops(mem, d, s, count) ==
  LET copied == [mem EXCEPT ![d] = mem[s]]
  IN  CASE count = 0 -> mem
        [] count > 0 /\ mem[s] = NUL -> copied
        [] OTHER -> StrncpyStops(copied, d + 1, s + 1, count - 1)

\* All of the room is written; a text that fills it has no NUL.
RECURSIVE Strncpy(_, _, _, _)
Strncpy(mem, d, s, count) ==
  IF count = 0 THEN mem
  ELSE Strncpy([mem EXCEPT ![d] = mem[s]], d + 1, IF mem[s] = NUL THEN s ELSE s + 1, count - 1)

Strcat(mem, d, s) == Strcpy(mem, d + Strlen(mem, d), s)

-----------------------------------------------------------------------------
(* Readers. *)

IsSpace(ch) == ch \in {" ", "\t", "\n"}
IsDigit(ch) == ch \in {"0", "1", "2", "3", "4", "5", "6", "7", "8", "9"}

RECURSIVE Memcmp(_, _, _, _)
Memcmp(mem, s, t, n) ==
  CASE n = 0 -> 0
    [] n > 0 /\ mem[s] # mem[t] -> Code[mem[s]] - Code[mem[t]]
    [] OTHER -> Memcmp(mem, s + 1, t + 1, n - 1)

RECURSIVE Strcmp(_, _, _)
Strcmp(mem, s, t) ==
  CASE mem[s] # mem[t] -> IF Code[mem[s]] < Code[mem[t]] THEN -1 ELSE 1
    [] mem[s] = mem[t] /\ mem[s] = NUL -> 0
    [] OTHER -> Strcmp(mem, s + 1, t + 1)

\* From s on, where left characters are left, of which t needs need.
RECURSIVE StrstrFrom(_, _, _, _, _)
StrstrFrom(mem, s, t, left, need) ==
  CASE left < need -> Nowhere
    [] left >= need /\ Memcmp(mem, s, t, need) = 0 -> s
    [] OTHER -> StrstrFrom(mem, s + 1, t, left - 1, need)

Strstr(mem, s, t) ==
  IF Strlen(mem, t) = 0 THEN s
  ELSE StrstrFrom(mem, s, t, Strlen(mem, s), Strlen(mem, t))

\* The NUL can be looked for too.
RECURSIVE Strchr(_, _, _)
Strchr(mem, s, ch) ==
  CASE mem[s] = ch -> s
    [] mem[s] # ch /\ mem[s] = NUL -> Nowhere
    [] OTHER -> Strchr(mem, s + 1, ch)

RECURSIVE StrcspnFrom(_, _, _, _)
StrcspnFrom(mem, s, reject, count) ==
  IF mem[s] = NUL \/ Strchr(mem, reject, mem[s]) # Nowhere THEN count
  ELSE StrcspnFrom(mem, s + 1, reject, count + 1)

Strcspn(mem, s, reject) == StrcspnFrom(mem, s, reject, 0)

-----------------------------------------------------------------------------
(* The kernel's. *)

Kmemcpy(mem, d, s, n)      == Memcpy(mem, d, s, n)
Kmemset(mem, p, ch, n)     == Memset(mem, p, ch, n)
Kstrlen(mem, p)            == Strlen(mem, p)
Kstrcpy(mem, d, s)         == Strcpy(mem, d, s)
Kstrncpy(mem, d, s, count) == Strncpy(mem, d, s, count)
Kstrcat(mem, d, s)         == Strcat(mem, d, s)
Kstrcmp(mem, s, t)         == Strcmp(mem, s, t)

\* The sign only, where Memcmp has the difference; and it ends with the texts.
RECURSIVE Kstrncmp(_, _, _, _)
Kstrncmp(mem, s, t, size) ==
  CASE size = 0 -> 0
    [] size > 0 /\ mem[s] # mem[t] -> IF Code[mem[s]] < Code[mem[t]] THEN -1 ELSE 1
    [] size > 0 /\ mem[s] = mem[t] /\ mem[s] = NUL -> 0
    [] OTHER -> Kstrncmp(mem, s + 1, t + 1, size - 1)

\* val is a pair of bytes, of which the low one is written to count bytes: in
\* words of the screen, attributes become blanks too.
Memsetw(mem, d, val, count) == Memset(mem, d, val[1], count)

-----------------------------------------------------------------------------
(* Those of the first assignment, which has neither memset nor the copies   *)
(* of the kernel.                                                           *)

Memcmp1(mem, s, t, n)      == Memcmp(mem, s, t, n)
Memcpy1(mem, d, s, n)      == Memcpy(mem, d, s, n)
Strcpy1(mem, d, s)         == Strcpy(mem, d, s)
Strncpy1(mem, d, s, count) == Strncpy(mem, d, s, count)
Strlen1(mem, p)            == Strlen(mem, p)
Strcmp1(mem, s, t)         == Strcmp(mem, s, t)
Strstr1(mem, s, t)         == Strstr(mem, s, t)
Strcat1(mem, d, s)         == Strcat(mem, d, s)
IsSpace1(ch)               == IsSpace(ch)
Strchr1(mem, s, ch)        == Strchr(mem, s, ch)
IsDigit1(ch)               == IsDigit(ch)
Strcspn1(mem, s, reject)   == Strcspn(mem, s, reject)
Reset1(mem, p, len)        == Reset(mem, p, len)

-----------------------------------------------------------------------------
(* What they mean. *)

Cut(text, n) == SubSeq(text, 1, Min({n, Len(text)}))

\* The order of texts: as in a dictionary.
Compare(s, t) ==
  LET differ == {k \in 1 .. Min({Len(s), Len(t)}) : s[k] # t[k]}
  IN  CASE s = t -> 0
        [] s # t /\ differ = {} -> IF Len(s) < Len(t) THEN -1 ELSE 1
        [] OTHER -> IF Code[s[Min(differ)]] < Code[t[Min(differ)]] THEN -1 ELSE 1

Sign(n) == CASE n < 0 -> -1 [] n = 0 -> 0 [] n > 0 -> 1

\* mem with cells from p on.
Written(mem, p, cells) ==
  [q \in DOMAIN mem |-> IF q \in p .. p + Len(cells) - 1 THEN cells[q - p + 1] ELSE mem[q]]

Top      == 5
Memories == {mem \in [0 .. Top -> DOMAIN Code] : mem[Top] = NUL}

Apart(p, n, q, m) == p + n <= q \/ q + m <= p

Reads(mem, p, q) ==
  LET s      == Str(mem, p)
      t      == Str(mem, q)
      found  == {k \in p .. p + Len(s) : IsPrefix(t, Str(mem, k))}
      barred == {k \in DOMAIN s : s[k] \in Range(t)}
  IN  /\ Strcmp(mem, p, q) = Compare(s, t)
      /\ Strstr(mem, p, q) = (IF found = {} THEN Nowhere ELSE Min(found))
      /\ Strcspn(mem, p, q) = (IF barred = {} THEN Len(s) ELSE Min(barred) - 1)
      /\ \A n \in 0 .. Top :
           /\ Kstrncmp(mem, p, q, n) = Compare(Cut(s, n), Cut(t, n))
           /\ n <= Min({Len(s), Len(t)}) =>
                Sign(Memcmp(mem, p, q, n)) = Compare(Cut(s, n), Cut(t, n))

Writes(mem, p, q) ==
  LET s == Str(mem, p)
      t == Str(mem, q)
      room == Top + 1 - p
  IN  /\ Len(t) < room /\ Apart(p, Len(t) + 1, q, Len(t) + 1) =>
           Strcpy(mem, p, q) = Written(mem, p, Append(t, NUL))
      /\ Len(s) + Len(t) < room /\ Apart(p, Len(s) + Len(t) + 1, q, Len(t) + 1) =>
           Strcat(mem, p, q) = Written(mem, p, s \o Append(t, NUL))
      /\ \A n \in 0 .. room :
           /\ Apart(p, n, q, Len(t) + 1) =>
                Strncpy(mem, p, q, n)
                  = Written(mem, p, [k \in 1 .. n |-> IF k <= Len(t) THEN t[k] ELSE NUL])
           /\ q + n - 1 <= Top /\ (p <= q \/ Apart(p, n, q, n)) =>
                Memcpy(mem, p, q, n) = Written(mem, p, [k \in 1 .. n |-> mem[q + k - 1]])

\* The string functions do what the C library promises of them, on every text
\* and at every place of it, and write no byte beyond: comparing is the order of
\* the dictionary, strstr finds the first place, strncpy fills the rest of its
\* room with NULs and puts none behind a text that fills it (parseCommand
\* clears the room first), and memcpy to a lower place moves.
StringsAgree ==
  \A mem \in Memories : \A p, q \in 0 .. Top : Reads(mem, p, q) /\ Writes(mem, p, q)

=============================================================================
