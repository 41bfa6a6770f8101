------------------------------ MODULE Terminal ------------------------------
(***************************************************************************)
(* The user, the keyboard interrupt that echoes what is typed, the shell   *)
(* that collects the same characters and runs the line, and the clock, on  *)
(* one screen.                                                             *)
(*                                                                         *)
(* The shell reads with scanf("%c"), so sys/kb.c hands over each character *)
(* at once.  The interrupt may come at any time; characters count only     *)
(* while a read is pending.  A program started with & runs on beside it.   *)
(***************************************************************************)
EXTENDS Console, CommandLine, Startup, TLC

CONSTANTS
  Kbdus, Shiftcodes, \* the characters of the scan codes, without and with shift
  Outputs,  \* what a program may print
  BootEnv,  \* the environment in main.c
  Scripts,  \* the lines of the files that hold commands
  FirstArgs, \* the script that a shell may be given, or Null
  ClockCol, GlyphCol, \* columns of the status row: 40 and 73
  Hz, Every,          \* ticks in a second: 100; the clock looks each 18th
  Sixty, Hours,       \* 60 and 24
  MaxTicks            \* bound of timer_ticks

ASSUME TerminalAssumption ==
  /\ GlyphCol + 2 <= Width /\ ClockCol + 5 <= GlyphCol
  /\ DOMAIN Kbdus = DOMAIN Shiftcodes

VARIABLES
  con,       \* the console
  phase,     \* where the shell is
  c, i, pipeFound, line, \* readInput's
  since,     \* where in the line the screen last showed something else than it
  flag,      \* kb.c: does a character count?
  jobs,      \* how many children the shell has
  control,   \* curentControl: the modifier pressed last
  table, ps1, env,              \* commands, PS1 and envp[0]
  open,                         \* the word at the end of the heap
  reading, unread, cmd,         \* executeScript: the scripts that run, what is
                                \* left of each file, and the line
  ran,       \* the programs of the last line, each with what its main gets
  clean,     \* have the lines so far left nothing behind?
  clock      \* timer_ticks, prev_secs, curr_time

input == <<c, i, pipeFound, line, since>>
files == <<reading, unread, cmd>>
shell == <<table, open, ps1, env, ran, clean>>
tvars == <<con, phase, control, flag, jobs, input, files, shell, clock>>

Dashes  == "dashes"
Welcome == <<NewLine, Dashes, NewLine, Tab, "Welcome", NewLine, Dashes, NewLine, NewLine, NewLine>>

\* A shell that is given a script runs it first, and then asks for commands.
TInit ==
  /\ \E file \in FirstArgs :
       IF file = Null THEN con = Puts(Cleared, Welcome) /\ phase = "prompt" /\ reading = <<>>
                      ELSE con = Cleared /\ phase = "script" /\ reading = <<file>>
  /\ unread = Scripts /\ cmd = [s \in Slots |-> NUL]
  /\ control = "NORMAL" /\ flag = FALSE /\ jobs = 0
  /\ c = Space /\ i = 0 /\ pipeFound = FALSE /\ since = 0
  /\ line = [s \in Slots |-> NUL]
  /\ table = NoTable /\ open = Closed /\ ps1 = <<>> /\ env = BootEnv /\ ran = <<>>
  /\ clean = TRUE
  /\ clock = [ticks |-> 0, secs |-> 0, hh |-> 0, mm |-> 0, ss |-> 0]

Says(text) == con' = Puts(con, text)

-----------------------------------------------------------------------------
(* The interrupts. *)

\* kb_handler: a modifier is remembered for one key.  That it is let go is
\* not looked at.
Modifier(m) ==
  /\ control' = m
  /\ UNCHANGED <<con, phase, flag, jobs, input, files, shell, clock>>

Typed(code) == IF control = "SHIFT" THEN Shiftcodes[code] ELSE Kbdus[code]

\* handlekey: the status row shows every key.  With count = 1 a backspace finds
\* nothing to erase in the kernel's line, and is delivered like the others.  When
\* a child's exit has ended the read, the flag is still set: the key is shown,
\* and delivered if the shell has not looked yet.
Key(code) ==
  /\ LET shown == Kprintat(con, GlyphCol, <<"glyph:", "%", "c">>, <<Typed(code)>>)
     IN  con' = IF flag THEN Kprintf2(shown, <<"%", "c">>, <<Typed(code)>>) ELSE shown
  /\ \/ flag /\ phase' = "got" /\ c' = Scanf("c", <<Typed(code)>>) /\ UNCHANGED since
     \/ flag /\ phase = "got" /\ UNCHANGED <<phase, c>> /\ since' = i + 1
     \/ ~flag /\ UNCHANGED <<phase, c, since>>
  /\ control' = "NORMAL" /\ flag' = FALSE
  /\ UNCHANGED <<i, pipeFound, line, jobs, files, shell, clock>>

\* Mutant: a new hour leaves the minutes.
NextSecondKeepsMinutes(t, secs) ==
  LET mm == IF secs % Sixty = 0 THEN t.mm + 1 ELSE t.mm
      hh == IF secs % Sixty = 0 /\ mm % Sixty = 0 THEN t.hh + 1 ELSE t.hh
  IN  [t EXCEPT !.secs = secs, !.ss = secs % Sixty, !.mm = mm,
                !.hh = IF hh > Hours THEN 0 ELSE hh]

\* A minute is counted when the seconds come round, an hour when the minutes do;
\* the hours run from 0 to 24.
NextSecond(t, secs) ==
  LET minute == secs % Sixty = 0
      hour   == minute /\ (t.mm + 1) % Sixty = 0
  IN  [t EXCEPT !.secs = secs, !.ss = secs % Sixty,
                !.mm = CASE hour -> 0 [] minute /\ ~hour -> @ + 1 [] OTHER -> @,
                !.hh = IF hour THEN (IF @ + 1 > Hours THEN 0 ELSE @ + 1) ELSE @]

ClockFormat == <<"%", "d", Colon, "%", "d", Colon, "%", "d">>

\* timer_handler, but for the tasks.
Tick ==
  /\ clock.ticks < MaxTicks
  /\ LET ticks == clock.ticks + 1
         t     == [clock EXCEPT !.ticks = ticks]
     IN  IF ticks % Every = 0 /\ ticks \div Hz # clock.secs
         THEN /\ clock' = NextSecond(t, ticks \div Hz)
              /\ con' = Kprintat(con, ClockCol, ClockFormat, <<clock'.hh, clock'.mm, clock'.ss>>)
         ELSE clock' = t /\ UNCHANGED con
  /\ UNCHANGED <<phase, control, flag, jobs, input, files, shell>>

-----------------------------------------------------------------------------
(* readInput. *)

Prompt == IF ps1 = <<>> THEN <<"$", Space>> ELSE ps1 \o <<"$", Space>>

PrintPrompt ==
  /\ phase = "prompt"
  /\ Says(Prompt)
  /\ phase' = "read" /\ flag' = TRUE
  /\ c' = Space /\ i' = 0 /\ pipeFound' = FALSE /\ since' = 0
  /\ UNCHANGED <<control, line, jobs, files, shell, clock>>

SecondBar ==
  /\ phase = "got" /\ pipeFound /\ c = Bar
  /\ Says(<<"error", NewLine>>)
  /\ phase' = "prompt"
  /\ UNCHANGED <<control, flag, jobs, input, files, shell, clock>>

\* A bar asks for more, until something else than a space follows it; that may
\* be a backspace.  Above, the line may have been erased beyond its start.
Collect ==
  /\ phase = "got" /\ ~(pipeFound /\ c = Bar)
  /\ IF c = NewLine /\ pipeFound THEN Says(<<">">>) ELSE UNCHANGED con
  /\ i' = CASE c = Erase -> i - 1 [] c = NewLine -> i [] OTHER -> i + 1
  /\ since' = IF c \in {NewLine, Tab, NUL} THEN i' ELSE Min({since, i'})
  /\ pipeFound' = (c = Bar \/ (pipeFound /\ c \in {Space, NewLine}))
  /\ LET over == c = NewLine /\ ~pipeFound'
     IN  /\ line' = IF c = Erase \/ over THEN [line EXCEPT ![i'] = NUL]
                    ELSE IF c = NewLine THEN line ELSE [line EXCEPT ![i] = c]
         /\ phase' = IF ~over THEN "read"
                     ELSE IF i < 1 \/ Strlen(line', 0) < 1 THEN "prompt" ELSE "run"
         /\ flag' = (flag \/ ~over)
  /\ UNCHANGED <<control, c, jobs, files, shell, clock>>

-----------------------------------------------------------------------------
(* executeScript.  A file is read by the character and never closed: when  *)
(* its script runs again, or from within itself, it goes on where it was.  *)
(* One cmd stands for those of scripts within scripts.                     *)

NextCommand ==
  /\ phase = "script" /\ unread[Head(reading)] # <<>>
  /\ LET text == Head(unread[Head(reading)])
     IN  /\ cmd' = [s \in Slots |-> CASE s \in 0 .. Len(text) - 1 -> text[s + 1]
                                      [] s = Len(text) -> NUL
                                      [] OTHER -> cmd[s]]
         /\ phase' = IF Contains(text, "#!") THEN "script" ELSE "command"
  /\ unread' = [unread EXCEPT ![Head(reading)] = Tail(@)]
  /\ UNCHANGED <<con, control, flag, jobs, input, reading, shell, clock>>

ScriptEnds ==
  /\ phase = "script" /\ unread[Head(reading)] = <<>>
  /\ reading' = Tail(reading)
  /\ phase' = IF reading' = <<>> THEN "prompt" ELSE "script"
  /\ UNCHANGED <<con, control, flag, jobs, input, unread, cmd, shell, clock>>

-----------------------------------------------------------------------------
(* The line is run: parseCommand, main, executeProcess, executeProcessPipe. *)

Buffer   == IF phase = "run" THEN line ELSE cmd
Parsed   == ParseCommand(Buffer, table, open)
Stages   == 1 .. Parsed.cmd + 1
Row(s)   == Parsed.table[s - 1]
File(s)  == GetAbsolutePath(Row(s)[0], env)

SetsWord(name) == Row(1)[0] = Word("set") /\ Contains(Row(1)[1], name)

\* handleCommand knows these, outside of pipelines.
IsBuiltIn ==
  /\ Parsed.cmd = 0
  /\ \/ SetsWord("PS1") \/ SetsWord("PATH")
     \/ Contains(Row(1)[0], ".sbush")
     \/ Row(1)[0] \in {Word("env"), Word("$PATH"), Word("exit"), Word("clear"),
                       Word("pwd"), Word("echo")}

\* A line typed may have three stages, one of a script any number.
TooLong == phase = "run" /\ Parsed.cmd >= 3
Runs    == ~TooLong /\ ~IsBuiltIn

\* strcmp, or strlen in setPath and in printf, of a null pointer; and in the
\* kernel, when a name with a slash is not in the archive.
IsFault ==
  \/ ~TooLong /\ \E s \in Stages : Row(s)[0] = Null
  \/ IsBuiltIn /\ SetsWord("PATH") /\ ~SetsWord("PS1") /\ Row(1)[2] = Null
  \/ IsBuiltIn /\ Row(1)[0] = Word("echo") /\ Row(1)[1] = Null
  \/ Runs /\ \E s \in Stages : Contains(Row(s)[0], Slash) /\ ~Exists(Row(s)[0])

Fault == /\ IsFault
         /\ phase' = "dead" /\ UNCHANGED <<con, ps1, env, table, open, ran, reading>>

\* The end of executeProcess: back to main, or to the next line of a script.
Back == phase' = IF reading' = <<>> THEN "prompt" ELSE "script"

Return(text) == Back /\ Says(text) /\ ran' = <<>>

KeepsHeap  == table' = Parsed.table /\ open' = Parsed.open

\* A block of MAX_LEN, in getAbsolutePath and for pwd: the low byte of its size
\* is 0 and ends the word.
TakesBlock == table' = Parsed.table /\ open' = Closed

SetPS1 ==
  /\ SetsWord("PS1")
  /\ ps1' = FoldLeft(LAMBDA s, w : s \o w \o <<Space>>, <<>>,
                     SubSeq(Argv(Row(1)), 3, Len(Argv(Row(1)))))
  /\ UNCHANGED <<env, reading>>
  /\ Return(IF ps1' = <<>> THEN <<"usage", NewLine>> ELSE <<>>) /\ KeepsHeap

\* The block that setPath takes to join the two ends the word before it does.
SetsPath ==
  /\ SetsWord("PATH") /\ ~SetsWord("PS1")
  /\ table' = Ended(Parsed.table, Parsed.open) /\ open' = Closed
  /\ env' = SetPath(env, table'[0][2])
  /\ UNCHANGED <<ps1, reading>>
  /\ Return(<<"path", NewLine>>)

RunScript ==
  /\ Contains(Row(1)[0], ".sbush")
  /\ reading' = IF Row(1)[0] \in DOMAIN Scripts THEN <<Row(1)[0]>> \o reading ELSE reading
  /\ UNCHANGED <<ps1, env>>
  /\ Return(<<>>) /\ KeepsHeap

Clear ==
  /\ Row(1)[0] = Word("clear")
  /\ con' = Clearscreen(Puts(con, <<"clear", NewLine>>))
  /\ UNCHANGED <<ps1, env, reading>> /\ Back /\ KeepsHeap /\ ran' = <<>>

Exit ==
  /\ Row(1)[0] = Word("exit")
  /\ Says(<<"in", Space, "exit", NewLine>>)
  /\ phase' = "gone" /\ UNCHANGED <<ps1, env, table, open, ran, reading>>

\* The directory that pwd prints belongs to the kernel: cd changes it for all.
Prints ==
  /\ UNCHANGED <<ps1, env, reading>>
  /\ \E out \in {[of |-> Word("env"),   text |-> <<NewLine, NewLine, "env">> \o env],
                  [of |-> Word("$PATH"), text |-> env],
                  [of |-> Word("pwd"),   text |-> <<"cwd">>],
                  [of |-> Word("echo"),  text |-> Row(1)[1]]} :
       Row(1)[0] = out.of /\ Return(Append(out.text, NewLine))
  /\ IF Row(1)[0] = Word("pwd") THEN TakesBlock ELSE KeepsHeap

BuiltIn ==
  /\ IsBuiltIn /\ ~IsFault
  /\ SetPS1 \/ SetsPath \/ RunScript \/ Clear \/ Exit \/ Prints

TooMany ==
  /\ TooLong
  /\ UNCHANGED <<ps1, env, reading>> /\ KeepsHeap /\ Return(<<"more than 2 pipes", NewLine>>)

\* The words of the line stay in the table.
NotFound ==
  /\ Runs /\ ~IsFault /\ \E s \in Stages : File(s) = Null
  /\ UNCHANGED <<ps1, env, reading>> /\ TakesBlock
  /\ Return(FoldLeft(LAMBDA text, s : text \o (IF File(s) # Null THEN <<>>
                                               ELSE <<"not found", NewLine>>),
                     <<>>, [s \in Stages |-> s]))

\* Mutant: commands[i][1] is left alone.
ForgetNothing(t, stages) == t

\* commands[i][1] = NULL
Forget(t, stages) == [s \in DOMAIN t |-> IF s + 1 \in stages THEN [t[s] EXCEPT ![1] = Null]
                                          ELSE t[s]]

\* executeProcess waits for the program unless & is its first argument, which it
\* gets too; a pipeline is waited for.
InBackground == Parsed.cmd = 0 /\ Row(1)[1] = Word("&")

\* fork, and execve in the child; exit among the stages is no program.
RunPrograms ==
  /\ Runs /\ ~IsFault /\ \A s \in Stages : File(s) # Null
  /\ ran' = [s \in Stages |->
               [file |-> File(s), main |-> IF File(s) = Word("exit") THEN Null
                                           ELSE Main(Execve(Argv(Row(s)), <<env>>))]]
  /\ table' = Forget(Parsed.table, Stages)
  /\ open' = IF \E s \in Stages : LookedUp(Row(s)[0]) THEN Closed ELSE Parsed.open
  /\ UNCHANGED <<con, ps1, env, reading>>
  /\ IF InBackground THEN Back ELSE phase' = "waitpid"

RunLine ==
  /\ phase \in {"run", "command"}
  /\ Fault \/ BuiltIn \/ TooMany \/ NotFound \/ RunPrograms
  /\ IF phase = "run" THEN line' = Parsed.line /\ UNCHANGED cmd
                      ELSE cmd' = Parsed.line /\ UNCHANGED line
  /\ jobs' = IF Runs /\ ran' # <<>> THEN jobs + 1 ELSE jobs
  /\ clean' = (clean /\ \A s \in Stages :
                           Row(s)[1] = Null \/ (Runs /\ ran' # <<>> /\ Row(s)[2] = Null))
  /\ UNCHANGED <<control, flag, c, i, pipeFound, since, unread, clock>>

\* waitpid: with no child left there is nothing to wait for.
Wait ==
  /\ phase = "waitpid"
  /\ UNCHANGED <<con, control, flag, jobs, input, files, shell, clock>>
  /\ IF jobs = 0 THEN Back ELSE phase' = "waits"

-----------------------------------------------------------------------------
(* The programs that run, a pipeline counted as one: its first child.      *)

Alive == phase \notin {"dead", "gone"}

ProgramPrints ==
  /\ jobs > 0 /\ Alive
  /\ \E text \in Outputs : Says(text)
  /\ since' = IF phase = "got" THEN i + 1 ELSE i
  /\ UNCHANGED <<phase, control, flag, jobs, c, i, pipeFound, line, files, shell, clock>>

\* exit makes the shell RUNNABLE, whatever it waits for: another program, or a
\* key; the buffer of scanf holds a NUL then.
ProgramExits ==
  /\ jobs > 0 /\ Alive
  /\ jobs' = jobs - 1
  /\ UNCHANGED reading
  /\ \/ phase = "waits" /\ Back /\ UNCHANGED c
     \/ phase = "read" /\ phase' = "got" /\ c' = NUL
     \/ phase \notin {"waits", "read"} /\ UNCHANGED <<phase, c>>
  /\ UNCHANGED <<con, control, flag, i, pipeFound, line, since, unread, cmd, shell, clock>>

\* What the shell and its programs do.
ShellNext ==
  \/ PrintPrompt \/ SecondBar \/ Collect \/ NextCommand \/ ScriptEnds \/ RunLine \/ Wait
  \/ ProgramPrints \/ ProgramExits

TNext ==
  \/ \E code \in DOMAIN Kbdus : Key(code)
  \/ \E m \in {"SHIFT", "ALT", "CONTROL"} : Modifier(m)
  \/ Tick
  \/ ShellNext

TSpec == TInit /\ [][TNext]_tvars

-----------------------------------------------------------------------------
\* The screen shows the line the shell holds: kb.c echoes a character and
\* sbush.c keeps its own copy, and on the screen the last characters before the
\* cursor are those of input_line, however they were erased and retyped, back to
\* the prompt or to where the screen last showed something that is no character of
\* the line in a cell of its own: the > that asks for more, a tab, a key without a
\* character, what a background program prints, or a key that an ended read lost.
\* A line that reached the status row is out of this.
EchoIsLine ==
  phase = "read" /\ Pos(con) <= StatusRow =>
    \A k \in since .. i - 1 : con.cells[Pos(con) - (i - k)] = line[k]

\* The clock tells the seconds since boot, in a day of Hours + 1 hours, though
\* timer.c looks at them each Every ticks only and counts minutes and hours by
\* the moments the seconds come round.
ClockIsTime ==
  /\ clock.ss + Sixty * (clock.mm + Sixty * clock.hh)
       = clock.secs % (Sixty * Sixty * (Hours + 1))
  /\ clock.ticks - Hz * clock.secs < Hz + Every

\* Where in PATH a directory stands that has the program.
Places(program) ==
  LET path == Trimmed(env)
  IN  {n \in 3 .. Len(path) : /\ path[n - 1] \in {Equals, Colon}
                              /\ n = Len(path) \/ path[n + 1] = Colon
                              /\ Exists(<<path[n], Slash>> \o program)}

\* Each program of the line runs from the first directory of PATH that has it, and
\* its main gets its words and the environment; if one is in none, none runs.
ProgramsRun(stages) ==
  (\A words \in Range(stages) : Head(words) \in UNION Range(Dirs)) =>
    IF \E words \in Range(stages) : Places(Head(words)) = {} THEN ran' = <<>>
    ELSE /\ DOMAIN ran' = DOMAIN stages
         /\ \A n \in DOMAIN stages :
              LET words == stages[n]
                  main  == ran'[n].main
              IN  /\ ran'[n].file = <<env[Min(Places(Head(words)))], Slash>> \o Head(words)
                  /\ main.env = env
                  /\ IsPrefix(words, main.argv)
                  /\ clean \/ table[n - 1][Len(words)] = Null => main.argv = words

\* set PATH adds the directory whole, if another word follows it.
DirectoryAdded(stages) ==
  \A words \in Range(stages) :
    Len(stages) = 1 /\ Len(words) > 3 /\ words[1] = Word("set") /\ words[2] = Word("PATH")
      => env' = Trimmed(env) \o <<Colon>> \o words[3]

\* The shell runs what the line says.  A line of words and bars, typed or read from
\* a script, is taken to its words; its programs are looked for in PATH as the lines
\* before have set it; and each main gets its arguments and the environment
\* (system_execve, setup_stack and _start, which place the environment by
\* different rules of argc).  Other words may follow the arguments only where an
\* earlier line left them: a second argument, or those of a line that ran no
\* program.  Out of this are lines behind which the buffer has a bar that a
\* syntax error left.
RunsLine ==
  [][LET text == Str(Buffer, 0)
     IN  /\ phase \in {"run", "command"} /\ phase' # phase /\ Canonical(text)
         /\ phase = "run" => Len(StagesOf(text)) <= 3
         /\ \A s \in Slots : s > Len(text) => Buffer[s] # Bar
         => ProgramsRun(StagesOf(text)) /\ DirectoryAdded(StagesOf(text))]_tvars

=============================================================================
