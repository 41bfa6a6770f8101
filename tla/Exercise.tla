------------------------------ MODULE Exercise ------------------------------
(***************************************************************************)
(* The first assignment, w1: the shell and the library on Linux, before    *)
(* there is a kernel of one's own.  A session takes what is typed by the   *)
(* line and runs it; it is a function of what it is given.                 *)
(***************************************************************************)
EXTENDS CommandLine, Text

CONSTANTS
  CommandLines, \* the lines tried
  Environments, \* the environments, each the sequence of its strings
  Files,        \* the scripts, each with its text
  MaxStages     \* the longest pipeline tried

\* MAX_CMD: a third stage is stored behind the array.
MaxRows == 2

-----------------------------------------------------------------------------
(* readInput. *)

\* What of the characters typed becomes the line, and what is left for the next.
ReadInput1(typed) ==
  FoldLeft(LAMBDA s, ch :
             CASE s.done -> [s EXCEPT !.rest = Append(@, ch)]
               [] ~s.done /\ s.bar /\ ch = Bar -> [s EXCEPT !.done = TRUE, !.line = Null]
               [] ~s.done /\ ch = NewLine -> [s EXCEPT !.done = ~s.bar]
               [] OTHER -> [s EXCEPT !.line = Append(@, ch),
                                     !.bar = ch = Bar \/ (@ /\ ch = Space)],
           [line |-> <<>>, bar |-> FALSE, done |-> FALSE, rest |-> <<>>], typed)

-----------------------------------------------------------------------------
(* parseCommand: the same loop, without the clearing, and with a NULL where *)
(* the next word goes.                                                      *)

\* Mutant: without the NULL.
TurnOpen(s, len) == TakeWord(s, s.line, len)

Terminated(s) == [s EXCEPT !.table[s.cmd][s.arg] = Null]

Turn1(s, len) == Terminated(TakeWord(s, s.line, len))

RECURSIVE Turns1(_, _)
Turns1(s, len) == IF s.i >= len THEN s ELSE Turns1(Turn1(s, len), len)

\* While a line has one bar, nothing behind its end is looked at but the NUL.
ParseCommand1(text, table, open) ==
  Turns1(AtStart([s \in Slots |-> IF s + 1 \in DOMAIN text THEN text[s + 1] ELSE NUL],
                 table, open), Len(text))

-----------------------------------------------------------------------------
(* The environment.  Its first string is passed over, and a search that    *)
(* comes to the end looks into the pointer NULL.                           *)

\* tokenizeWithKey: a variable's name and its value.
NameAndValue(variable) == Tokens(variable, Equals)

Mentions(env, key) == {k \in 2 .. Len(env) : Contains(env[k], key)}
Named(env, key)    == {k \in 2 .. Len(env) : NameAndValue(env[k]).before = Word(key)}

\* The value lies in a frame that is gone, and is copied before the frame is
\* written to.
GetEnvironment1(key, env) == NameAndValue(env[Min(Named(env, key))]).after

\* The first variable that mentions PATH.  The new string takes one byte more
\* than its block has, which the next block begins with: its size.
SetPath1(env, dir) ==
  [env EXCEPT ![Min(Mentions(env, "PATH"))] = @ \o <<Colon>> \o dir \o <<Size>>]

LookedUp1(cmd) == cmd \notin {Word("cd"), Word("exit")} /\ ~Contains(cmd, Slash)

GetAbsolutePath1(cmd, env) ==
  IF LookedUp1(cmd) THEN Search(cmd, GetEnvironment1("PATH", env)) ELSE cmd

-----------------------------------------------------------------------------
(* A program and its stack, as Linux lays it: the arguments, NULL, the      *)
(* environment, NULL.                                                       *)

LinuxStack(argv, env) == <<Len(argv)>> \o argv \o <<Null>> \o env \o <<Null>>

Main1(stack) ==
  LET argc == stack[1]
      envp == IF argc > 1 THEN argc + 3 ELSE 4
      end  == Min({k \in envp .. Len(stack) : stack[k] = Null})
  IN  [argv |-> SubSeq(stack, 2, argc + 1), env |-> SubSeq(stack, envp, end - 1)]

\* The library's calls return -1 where Linux says no; after execve the child
\* leaves then.
LinuxExecve(file) == IF Exists(file) THEN 0 ELSE -2
Call(res)         == IF res < 0 THEN -1 ELSE res

Execve1(file, argv, env) ==
  IF Call(LinuxExecve(file)) # -1 THEN [file |-> file, main |-> Main1(LinuxStack(argv, env))] ELSE Null

-----------------------------------------------------------------------------
(* executeProcess, executeProcessPipe and the commands of the shell itself. *)
(* A session is what stays from line to line: the words, the environment,   *)
(* whether the shell still runs, and what it has run since it started.      *)

NewSession(env) ==
  [table |-> NoTable, open |-> Closed, env |-> env, alive |-> TRUE, ran |-> <<>>]

Gone(s) == [s EXCEPT !.alive = FALSE]

\* commands[i][1] = NULL, for the first n.
Forgotten(table, n) ==
  [r \in DOMAIN table |-> IF r < n THEN [table[r] EXCEPT ![1] = Null] ELSE table[r]]

\* The files are there, or the shell says which are not.
RunFiles(s, files) ==
  IF Null \in Range(files) THEN s
  ELSE [s EXCEPT !.table = Forgotten(@, Len(files)),
                 !.ran = Append(@, [r \in DOMAIN files |->
                                      Execve1(files[r], Argv(s.table[r - 1]), s.env)])]

\* The pipeline of the first n rows; no script is one of its stages.  A fault: a
\* stage without a word, and a search without a PATH.
Programs(s, n) ==
  LET cmds   == [r \in 1 .. n |-> s.table[r - 1][0]]
      looked == \E r \in 1 .. n : LookedUp1(cmds[r])
  IN  IF Null \in Range(cmds) \/ (looked /\ Named(s.env, "PATH") = {}) THEN Gone(s)
      ELSE RunFiles([s EXCEPT !.open = IF looked THEN Closed ELSE @],
                    [r \in 1 .. n |-> GetAbsolutePath1(cmds[r], s.env)])

\* handleCommand, for a line without a bar.
SetsPS1(row)  == row[0] = Word("set") /\ Contains(row[1], "PS1")
SetsPath1(row) == row[0] = Word("set") /\ ~Contains(row[1], "PS1") /\ Contains(row[1], "PATH")
IsScript(row) == Contains(row[0], ".sbush")
Answers(row)  == row[0] \in {Word("env"), Word("$PATH"), Word("cd")}
IsBuiltIn1(row) ==
  SetsPS1(row) \/ SetsPath1(row) \/ IsScript(row) \/ Answers(row) \/ row[0] = Word("exit")

\* $PATH prints what is not there, cd goes home.
Lacks(row, env) ==
  \/ row[0] = Word("$PATH") /\ Named(env, "PATH") = {}
  \/ row[0] = Word("cd") /\ row[1] = Null /\ Named(env, "HOME") = {}
  \/ SetsPath1(row) /\ (row[2] = Null \/ Mentions(env, "PATH") = {})

RECURSIVE RunText(_, _), ExecuteScript1(_, _)

\* A script is read by the character; what its last newline leaves is not run.
ExecuteScript1(s, name) ==
  IF name \notin DOMAIN Files THEN s
  ELSE FoldLeft(LAMBDA f, ch :
                  CASE ch # NewLine -> [f EXCEPT !.cmd = Append(@, ch)]
                    [] ch = NewLine /\ Contains(f.cmd, "#!") -> [f EXCEPT !.cmd = <<>>]
                    [] OTHER -> [s |-> RunText(f.s, f.cmd), cmd |-> <<>>],
                [s |-> s, cmd |-> <<>>], Files[name]).s

HandleCommand1(s, row) ==
  CASE Lacks(row, s.env) \/ row[0] = Word("exit") -> Gone(s)
    [] ~Lacks(row, s.env) /\ SetsPath1(row) ->
         [s EXCEPT !.env = SetPath1(@, row[2]), !.open = Closed]
    [] IsScript(row) -> ExecuteScript1(s, row[0])
    [] OTHER -> s

RunRows(s, n) ==
  IF n = 1 /\ IsBuiltIn1(s.table[0]) THEN HandleCommand1(s, s.table[0]) ELSE Programs(s, n)

RunParsed(s, p) ==
  IF p.cmd >= MaxRows THEN Gone(s)
  ELSE RunRows([s EXCEPT !.table = p.table, !.open = p.open], p.cmd + 1)

\* A line is run, be it empty: the words of the line before are run again.
RunText(s, text) ==
  IF s.alive THEN RunParsed(s, ParseCommand1(text, s.table, s.open)) ELSE s

\* main: a line that is typed and not empty.
Enter1(s, text) == IF text = <<>> THEN s ELSE RunText(s, text)

-----------------------------------------------------------------------------
(* The descriptors of a pipeline.  pipe takes the two lowest that are free. *)

NoFile == <<"none", 0>>
Given  == <<"given", 0>> \* what the shell itself has
Fds    == 0 .. MaxStages + 4

Free(t)            == {f \in Fds : t[f] = NoFile}
PipeEnds(t)        == LET r == Min(Free(t)) IN [r |-> r, w |-> Min(Free(t) \ {r})]
Close(t, f)        == [t EXCEPT ![f] = NoFile]
Dup2(t, from, to)  == [t EXCEPT ![to] = t[from]]

\* What a stage does before execve, of which prev is the pipe before, unless 0.
Stage1(t, prev, fd) ==
  LET reads == IF prev = 0 THEN t ELSE Close(Dup2(t, prev, 0), prev)
  IN  IF fd.w = 1 THEN reads ELSE Close(Dup2(reads, fd.w, 1), fd.w)

\* The child of the shell makes a pipe and a process.
Forked(m, k, fd) ==
  LET files == [m.files EXCEPT ![fd.r] = <<"read", k>>, ![fd.w] = <<"write", k>>]
  IN  [files |-> files, prev |-> fd.r, stages |-> Append(m.stages, Stage1(files, m.prev, fd))]

\* Mutant: it keeps the end that it does not use.
NextStageKeeps(m, k) == Forked(m, k, PipeEnds(m.files))

\* One for each stage but the last, which is itself.
NextStage(m, k) ==
  LET fd == PipeEnds(m.files) IN [Forked(m, k, fd) EXCEPT !.files = Close(@, fd.w)]

WithLast(m) ==
  Append(m.stages, IF m.prev = 0 THEN m.files ELSE Dup2(m.files, m.prev, 0))

\* The descriptors of the stages, when the shell was started with some of its
\* own closed.
Stages1(n, shut) ==
  WithLast(FoldLeft(NextStage,
                  [files |-> [f \in Fds |-> IF f \in (0 .. 2) \ shut THEN Given ELSE NoFile],
                   prev |-> 0, stages |-> <<>>],
                  [k \in 1 .. n - 1 |-> k]))

-----------------------------------------------------------------------------
(* Numbers: htol knows the small letters only, scanf cuts the newline off.  *)

HtolDigit(ch) ==
  IF ch \in {"A", "B", "C", "D", "E", "F"} THEN DigitValue(ch) + 7 ELSE DigitValue(ch)
Htol(text) == FoldLeft(LAMBDA res, ch : Signed(16 * res + HtolDigit(ch), LongWord), 0, text)

Atoi1(text) == Atoi(text)

Scanf1(conv, data) ==
  LET kept == SubSeq(data, 1, Len(data) - 1)
  IN  CASE conv = "x" -> Htol(kept) [] conv = "d" -> Atoi1(kept) [] conv = "s" -> kept

\* skip_atoi, number and vsprintf are the same as later.
SkipAtoi1(fmt) == SkipAtoi(fmt)
Number1(num, base, size, precision, type) == Number(num, base, size, precision, type)
Vsprintf1(fmt, args) == Vsprintf(fmt, args)

\* printf has one buffer for all its calls, and clears it.
Printf1(fmt, args) == Vsprintf1(fmt, args).text

-----------------------------------------------------------------------------
\* The program of a stage: the first in the directories of PATH, with the words
\* and the whole environment.
Meant1(argv, env) ==
  LET path   == GetEnvironment1("PATH", env)
      places == {k \in DOMAIN path : /\ k = 1 \/ path[k - 1] = Colon
                                     /\ k = Len(path) \/ path[k + 1] = Colon
                                     /\ Exists(<<path[k], Slash>> \o argv[1])}
  IN  IF places = {} THEN Null
      ELSE [file |-> <<path[Min(places)], Slash>> \o argv[1],
            main |-> [argv |-> argv, env |-> env]]

Complete(stages) == IF Null \in Range(stages) THEN <<>> ELSE <<stages>>
MeantBy(stages, env) == Complete([k \in DOMAIN stages |-> Meant1(stages[k], env)])

Reserved == {"set", "env", "$PATH", "cd", "exit", "/", ".sbush"}
Plain(text) ==
  /\ Canonical(text) /\ Len(StagesOf(text)) <= MaxRows
  /\ \A w \in Range(text) : w \notin Reserved

\* From the session s the line text runs what it says.
RunsAsSaid(s, text) ==
  s.alive /\ Named(s.env, "PATH") # {} =>
    Enter1(s, text).alive /\ Enter1(s, text).ran = s.ran \o MeantBy(StagesOf(text), s.env)

\* A line of at most two stages runs what it says, whatever line ran before it:
\* the rows of words end where parseCommand puts NULL and executeProcess, which
\* both leave the words behind that in place.
FirstShellRuns ==
  \A env \in Environments : \A before, text \in CommandLines :
    Plain(text) => RunsAsSaid(Enter1(NewSession(env), before), text)

\* A line is the same when it is continued behind a bar.
Continued ==
  \A text \in CommandLines : \A k \in DOMAIN text : Canonical(text) /\ text[k] = Bar =>
    \A more \in CommandLines :
      LET read == ReadInput1(SubSeq(text, 1, k) \o <<NewLine>> \o SubSeq(text, k + 1, Len(text))
                             \o <<NewLine>> \o more)
      IN  read.done /\ read.line = text /\ read.rest = more

Wired(stages) ==
  /\ \A k \in 2 .. Len(stages) : stages[k][0] = <<"read", k - 1>>
  /\ \A k \in 1 .. Len(stages) - 1 :
       /\ stages[k][1] = <<"write", k>>
       /\ \A m \in DOMAIN stages : <<"write", k>> \in Range(stages[m]) => m = k

\* Each stage of a pipeline reads the pipe before it and writes the one behind
\* it, whichever of its descriptors the shell was started without, and nobody
\* else can write there: the reader finds the end of its input when the writer
\* is gone (executeProcessPipe, where the stages inherit all that their parent
\* has not closed).
PipesWired ==
  \A n \in 1 .. MaxStages : \A shut \in SUBSET (0 .. 2) :
    Wired(Stages1(n, shut))

\* scanf reads back what printf wrote, in hexadecimal with small letters and
\* in decimal without a sign.
HexReadsBack ==
  \A n \in Samples :
    /\ Scanf1("x", Append(Printf1(<<"%", "l", "x">>, <<n>>), NewLine)) = n
    /\ Scanf1("d", Append(Printf1(<<"%", "l", "d">>, <<n>>), NewLine)) = Signed(n, IntWord)

=============================================================================
