----------------------------- MODULE MCTerminal -----------------------------
(* Instances of Terminal for TLC. *)
EXTENDS Terminal, Exercise

\* The lines entered, the characters erased, and whether a program has printed since
\* the last line.
VARIABLES entered, erased, printed

CONSTANTS MaxEntered, MaxErased, MaxRetyped

MCDirs == (Word("bin") :> {Word("ls"), Word("wc")}) @@ (Word("d") :> {Word("wc"), Word("late")})

MCBootEnv == <<"PATH", "=", "bin">>

MCCode == NUL :> 0 @@ "a" :> 1 @@ "b" :> 2

Run       == <<"run", ".sbush">>
MCScripts == Run :> << <<"#!", "bin">>, <<"ls", " ", "x">>, <<"wc", " ", "|", " ", "ls">> >>

MCFirstArgs == {Null, Run}

MCLines ==
  {<<"ls">>, <<"ls", " ", "x">>, <<"ls", " ", "x", " ", "y">>, <<" ", "ls">>,
   <<"ls", " ", "|", " ", "wc", " ">>, <<"wc", "|", "ls">>, <<"wc", " ", " ", "x">>,
   <<"late">>, <<"late", " ", "x">>,
   <<"set", " ", "PATH", " ", "d">>, <<"set", " ", "PATH", " ", "d", " ", "x">>,
   <<"set", " ", "PS1", " ", "x">>,
   <<"env">>, <<"$PATH">>, <<"pwd">>, <<"clear">>, <<"exit">>, <<"echo", " ", "x">>,
   Run, <<"bin", "/", "ls">>, <<"d", "/", "ls">>,
   <<"ls", " ", "|", " ", "wc", " ", "x", " ", "|", " ", "ls", " ", "|", " ", "ls">>}

\* Lines with a tab, a key without a character, and a job in the background.
MCTyped == MCLines \cup {<<"ls", " ", "x", Tab>>, <<Tab, "ls">>, <<NUL, "ls">>, <<"ls", NUL, "x">>,
                         <<"ls", " ", "&">>}

\* For the shell on Linux.
MCEnvironments ==
  LET home == <<"HOME", "=", "h">>
      path == <<"PATH", "=", "bin", ":", "d">>
  IN  {<<home, path>>, <<home, <<"MAN", "PATH", "=", "m">>, <<"PATH", "=", "d">>, home>>, <<path>>}
MCCommandLines ==
  MCLines \cup {<<" ">>, <<"cd">>, <<"ls", " ", "x", " ", "|", " ", "wc", " ", "y">>}
MCFiles == Run :> <<"#!", "bin", "\n", "ls", " ", "x", "\n", "\n", "wc">>

\* A scan code is named by its character with shift; all but one have the same
\* without.
MCKeys       == {Erase, NewLine, Bar} \cup UNION {Range(l) : l \in MCTyped}
MCShiftcodes == [key \in MCKeys |-> key]
MCKbdus      == [key \in MCKeys |-> IF key = Bar THEN "\\" ELSE key]

MCOutputs == {<<Tab, "out", NewLine>>, <<"in", Carriage, "out">>}

NoKeyYet == con.cells[StatusRow + GlyphCol] = Blank

\* How each prefix of the lines goes on.
Ways == [p \in UNION {Prefixes(l) : l \in MCTyped} |->
           {l[Len(p) + 1] : l \in {m \in MCTyped : Len(m) > Len(p) /\ IsPrefix(p, m)}}]

\* Bounds.  The user types one of these lines, or of their prefixes, erasing up to
\* MaxErased of the first MaxRetyped characters of the first of them, or of the
\* prompt, and typing that many again.
TypedNext(now) ==
  (IF pipeFound \/ now \in MCTyped \cup {<<>>} \/ erased = MaxErased THEN {NewLine} ELSE {})
    \cup (IF i \in 0 .. MaxRetyped /\ entered = 0 /\ erased < MaxErased THEN {Erase} ELSE {})
    \cup (IF pipeFound THEN {Bar} ELSE {})
    \cup (IF (erased > 0 => i <= MaxRetyped) /\ now \in DOMAIN Ways THEN Ways[now] ELSE {})
MayType == TypedNext([k \in 1 .. i |-> line[k - 1]])

\* Shift is pressed for a bar, once another modifier in between.
MayPress(m) ==
  /\ phase = "read" /\ Bar \in MayType
  /\ \/ control = "NORMAL" /\ m = "SHIFT"
     \/ control = "SHIFT" /\ m # "SHIFT" /\ i = 0

\* A key typed ahead is an x, early in the first line; when a program's exit has
\* ended the read, a letter of a line.
Pressed ==
  CASE phase = "read" ->
         LET chars == MayType IN {code \in DOMAIN Kbdus : Typed(code) \in chars}
    [] phase = "got" /\ flag -> {"ls"}
    [] phase \in {"got", "waits"} /\ entered = 0 /\ i < 3 -> {"x"}
    [] OTHER -> {}

\* The clock runs until the first key, which comes after a second or never.
MayTick == NoKeyYet
MayKey  == NoKeyYet => clock.ticks = Hz + 1

\* The session ends after MaxEntered lines, or after one with erasures; a shell
\* with a script runs it and one line.
MayPrompt == phase = "prompt" => entered < MaxEntered /\ erased = 0

\* A program prints once, and leaves after that; while a line is typed, early.
MayPrint == ~printed /\ (phase \in {"read", "got"} => i \in 0 .. 3)
MayExit  == printed /\ (phase \in {"read", "got"} => i \in 0 .. 3)

Counts ==
  /\ erased' = IF phase = "read" /\ phase' = "got" /\ c' = Erase THEN erased + 1 ELSE erased
  /\ entered' = IF phase' = "prompt" /\ phase # "prompt" THEN entered + 1 ELSE entered
  /\ printed' = (jobs' >= jobs /\ (printed \/ ProgramPrints))

MCNext ==
  /\ \/ MayKey /\ \E code \in Pressed : Key(code)
     \/ \E m \in {"SHIFT", "ALT", "CONTROL"} : MayPress(m) /\ Modifier(m)
     \/ MayTick /\ Tick
     \/ /\ MayPrompt /\ ShellNext
        /\ ProgramPrints => MayPrint
        /\ jobs' < jobs => MayExit
  /\ Counts

\* The functions of Text, Strings and Exercise are looked at once, when the session starts.
Starts == /\ phase \in {"prompt", "script"} /\ control = "NORMAL"
          /\ entered = 0 /\ clock.ticks = 0 /\ unread = Scripts
LibraryAtStart  == Starts => NumbersReadBack /\ StringsAgree
ExerciseAtStart == Starts => FirstShellRuns /\ Continued /\ PipesWired /\ HexReadsBack

MCInit == TInit /\ entered = 0 /\ erased = 0 /\ printed = FALSE
MCSpec == MCInit /\ [][MCNext]_<<tvars, entered, erased, printed>>
=============================================================================
