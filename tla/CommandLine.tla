---------------------------- MODULE CommandLine ----------------------------
(***************************************************************************)
(* How bin/sbush/sbush.c takes a line apart: trim and parseCommand, which  *)
(* work in the line's own buffer, and the search of the path.              *)
(*                                                                         *)
(* Nothing looks inside a word, so one symbol stands for a run of letters; *)
(* a word is the sequence of its symbols, and <<>> the pointer NULL.       *)
(***************************************************************************)
EXTENDS Strings

CONSTANTS
  MaxLine, \* bound of the lines: MAX_LEN
  MaxArgs, \* MAX_ARG_COUNT
  Dirs     \* of each directory of the archive, the programs in it

Space  == " "
Bar    == "|"
Colon  == ":"
Slash  == "/"
Equals == "="
Null   == <<>>

\* input_line, with the byte below it and what parseCommand reads behind it.
Slots    == -1 .. MaxLine + 4
MaxCmd   == 5
NoTable  == [c \in 0 .. MaxCmd - 1 |-> [a \in 0 .. MaxArgs - 1 |-> Null]]

\* memset(b + p, 0, n)
Zeroed(b, p, n) == Memset(b, p, NUL, n)

\* The text without the white space around it, moved to p.
Trim(b, p) ==
  LET len   == Strlen(b, p)
      lead  == Min({n \in 0 .. len : ~IsSpace(b[p + n])})
      inner == Min({n \in 0 .. len : \A k \in lead + n .. len - 1 : IsSpace(b[p + k])})
  IN  IF lead = 0 THEN Zeroed(b, p + inner, len - inner)
      ELSE [s \in Slots |-> CASE s \in p .. p + inner - 1 -> b[s + lead]
                              [] s = p + inner -> NUL
                              [] s \in p + lead + inner .. p + len -> NUL
                              [] OTHER -> b[s]]

-----------------------------------------------------------------------------
(* A word lies in a block of the heap that has room for the rest of the     *)
(* line: the last word of a line fills its block and has no NUL.  The header *)
(* of the next block, which begins with its size, goes on where it ends.     *)

Size   == "#" \* a size, as a character that is in no name
Closed == <<>> \* no word is open

\* The next block is allocated: open is the row and the place of the word that
\* fills the last one.
Ended(table, open) ==
  IF open = Closed \/ table[open[1]][open[2]] = Null THEN table
  ELSE [table EXCEPT ![open[1]][open[2]] = Append(@, Size)]

\* The word is stored: fills, if it is all that is left of the line.
Stored(s, word, fills) ==
  IF word = Null THEN s
  ELSE [s EXCEPT !.table = [Ended(@, s.open) EXCEPT ![s.cmd][s.arg] = word],
                 !.open = IF fills THEN <<s.cmd, s.arg>> ELSE Closed,
                 !.arg = @ + 1]

\* The word at src, the bar or the spaces behind it.  A bar moves src and not i.
TakeWord(s, line, len) ==
  LET count == Min({n \in 0 .. len - s.i :
                        n = len - s.i \/ line[s.src + n] \in {Space, Bar}})
      bar   == line[s.src + count] = Bar
      text  == Trim(line, s.src)
      left  == Strlen(text, s.src)
      next  == Stored(s, [k \in 1 .. Min({count, left}) |-> text[s.src + k - 1]], count >= left)
      src   == s.src + count + (IF bar THEN 1 ELSE 0)
      gap   == Min({n \in 0 .. len - s.i - count :
                        n = len - s.i - count \/ text[src + n] # Space})
  IN  [next EXCEPT !.line = Zeroed(text, src, gap), !.str = s.src,
                   !.src = src + gap, !.i = s.i + count + gap,
                   !.cmd = IF bar THEN @ + 1 ELSE @, !.arg = IF bar THEN 0 ELSE @]

\* One turn of parseCommand's loop.  The text of the turn before is cleared
\* first, up to its end, not to that of its word.
Turn(s, len) ==
  TakeWord(s, IF s.str \notin Slots THEN s.line
              ELSE Zeroed(s.line, s.str, Strlen(s.line, s.str)), len)

RECURSIVE Turns(_, _)
Turns(s, len) == IF s.i >= len THEN s ELSE Turns(Turn(s, len), len)

\* Where the loop starts.
AtStart(line, table, open) ==
  [line |-> line, src |-> 0, i |-> 0, str |-> MaxLine + 5,
   table |-> table, open |-> open, cmd |-> 0, arg |-> 0]

\* The line it leaves, and the words, laid over those of the lines before.
ParseCommand(line, table, open) == Turns(AtStart(line, table, open), Strlen(line, 0))

\* The words that execve takes from a row.
Argv(row) == LET end == Min({a \in DOMAIN row : row[a] = Null})
             IN  [a \in 1 .. end |-> row[a - 1]]

Word(w) == <<w>>

-----------------------------------------------------------------------------
(* The environment: one string, PATH=directory:directory:.. *)

\* trim, of a text in no buffer: words and paths begin with no white space.
Trimmed(text) ==
  SubSeq(text, 1, Max({0} \cup {n \in DOMAIN text : ~IsSpace(text[n])}))

\* tokenizeWithKey: what is before the first key, and what is after it; a key in
\* the first place ends the search.
Tokens(text, key) ==
  LET keys == {n \in DOMAIN text : text[n] = key}
  IN  IF keys = {} THEN [before |-> Trimmed(text), after |-> Null]
      ELSE LET n == Min(keys)
           IN  [before |-> SubSeq(text, 1, n - 1),
                after  |-> IF n = 1 THEN Null ELSE Trimmed(SubSeq(text, n + 1, Len(text)))]

GetEnvironment(key, env) ==
  LET t == Tokens(env, Equals) IN IF t.before = key THEN t.after ELSE Null

\* open finds a file by its name in the archive.
Exists(file) ==
  \E d \in DOMAIN Dirs : \E program \in Dirs[d] : file = d \o <<Slash>> \o program

RECURSIVE Search(_, _)
Search(cmd, path) ==
  LET t    == Tokens(path, Colon)
      file == Trimmed(t.before \o <<Slash>> \o cmd)
  IN  CASE Exists(file) -> file
        [] ~Exists(file) /\ t.after = Null -> Null
        [] OTHER -> Search(cmd, t.after)

LookedUp(cmd) == cmd # <<"exit">> /\ ~Contains(cmd, Slash)

\* The first directory of the path with this program, or NULL; exit and a name
\* with a slash are not looked up.
GetAbsolutePath(cmd, env) ==
  IF LookedUp(cmd) THEN Search(cmd, GetEnvironment(<<"PATH">>, env)) ELSE cmd

SetPath(env, dir) == Trimmed(env) \o <<Colon>> \o dir

-----------------------------------------------------------------------------
(* What a line means. *)

\* Words and bars with spaces between them, the first word at the start.
Canonical(line) ==
  /\ line # <<>> /\ \A n \in DOMAIN line : IsSpace(line[n]) => line[n] = Space
  /\ \A n \in DOMAIN line :
       /\ n = 1 => line[n] \notin {Space, Bar}
       /\ n > 1 /\ line[n] # Space => line[n - 1] = Space
       /\ line[n] = Bar => \E m \in n + 1 .. Len(line) : line[m] # Space
       /\ \A m \in n + 1 .. Len(line) : line[n] = Bar /\ line[m] = Bar =>
            \E k \in n .. m : line[k] \notin {Space, Bar}

\* Its stages, each as its words.
StagesOf(line) ==
  FoldLeft(LAMBDA stages, ch :
             CASE ch = Bar   -> Append(stages, <<>>)
               [] ch = Space -> stages
               [] OTHER      -> [stages EXCEPT ![Len(stages)] = Append(@, <<ch>>)],
           << <<>> >>, line)

=============================================================================
