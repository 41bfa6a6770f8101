------------------------------- MODULE Shell -------------------------------
(***************************************************************************)
(* The programs that run on the kernel: the shell bin/sbush/sbush.c, which *)
(* reads a command a character at a time and runs it in the foreground, in *)
(* the background or as a pipeline, and the programs it starts.            *)
(*                                                                         *)
(* A program is its next system call; what the code does between two calls *)
(* is done with the first of them.  A child inherits it with the memory.   *)
(***************************************************************************)
EXTENDS Pipe

CONSTANTS
  Commands, \* what is typed: programs in the order of the pipeline, and the &
  Programs, \* the calls each program makes
  Child     \* the calls of the child of a program that forks

VARIABLES
  prog, \* of each task, where it is and the variables of its program
  jobs  \* has the shell started a background job?

svars == <<pvars, prog, jobs>>

\* command, stage (i), prev and fd as in executeProcess and executeProcessPipe;
\* fd is fd[0], fd[1] being the next number; rest are the calls left to an image.
Gone == [at |-> "none", command |-> [progs |-> <<>>, amp |-> FALSE],
         stage |-> 1, prev |-> 0, fd |-> 0, child |-> 0, rest |-> <<>>]

SInit ==
  /\ PInit
  /\ prog = [t \in Tasks |-> IF t = Sbush THEN [Gone EXCEPT !.at = "prompt"]
                             ELSE Gone]
  /\ jobs = FALSE

At(t, label)   == prog[t].at = label
GoTo(t, label) == [prog[t] EXCEPT !.at = label]
Stages(t)      == Len(prog[t].command.progs)

\* t goes on as mine, a task it created as its.
GoOn(t, mine, its) ==
  prog' = [u \in Tasks |-> CASE u \in Listed' \ Listed -> its
                             [] u \in Listed \ Listed' -> Gone
                             [] OTHER -> IF u = t THEN mine ELSE prog[u]]

-----------------------------------------------------------------------------
(* The shell. *)

\* readInput.  Lines that run no program (empty, unknown, or a command of the
\* shell's own) are more characters.
ReadInput(t) ==
  /\ At(t, "prompt") \/ At(t, "typed")
  /\ ReadIn(t, 1)
  /\ GoOn(t, GoTo(t, "typed"), Gone) /\ UNCHANGED jobs

\* Mutant: the test for & the wrong way round.
WaitsForAmp(c) == Len(c.progs) > 1 \/ c.amp

\* Pipelines are waited for, with or without an &.
Waits(c) == Len(c.progs) > 1 \/ ~c.amp

\* The fork of executeProcess and of executeProcessPipe.
Run(t, c) ==
  /\ At(t, "typed")
  /\ PipeStep(t, Fork(t))
  /\ GoOn(t, [prog[t] EXCEPT !.at = IF Waits(c) THEN "wait" ELSE "prompt",
                             !.command = c, !.child = nextPid],
             [Gone EXCEPT !.at = IF Len(c.progs) > 1 THEN "pipe" ELSE "exec",
                          !.command = c])
  /\ jobs' = (jobs \/ c.amp)

Wait(t) ==
  /\ At(t, "wait")
  /\ \/ PipeStep(t, Waitpid(t, prog[t].child))
     \/ UserCode(t) /\ childCount[t] = 0 /\ UNCHANGED pvars
  /\ GoOn(t, GoTo(t, "prompt"), Gone) /\ UNCHANGED jobs

-----------------------------------------------------------------------------
(* Its children: one for a command, one for each stage of a pipeline.  The *)
(* child that makes the pipes executes the last stage itself.              *)

MakePipe(t) ==
  /\ At(t, "pipe")
  /\ SystemPipe(t)
  /\ GoOn(t, [GoTo(t, "fork") EXCEPT !.fd = fdCount], Gone)
  /\ UNCHANGED jobs

ForkStage(t) ==
  /\ At(t, "fork")
  /\ PipeStep(t, Fork(t))
  /\ GoOn(t, [prog[t] EXCEPT
                !.at = IF prog[t].stage + 1 < Stages(t) THEN "pipe" ELSE "input",
                !.prev = prog[t].fd, !.stage = @ + 1],
             GoTo(t, IF prog[t].prev # 0 THEN "input" ELSE "output"))
  /\ UNCHANGED jobs

RedirectInput(t) ==
  /\ At(t, "input")
  /\ Dup2(t, prog[t].prev, 0)
  /\ GoOn(t, GoTo(t, IF prog[t].stage = Stages(t) THEN "sleep" ELSE "output"),
          Gone)
  /\ UNCHANGED jobs

RedirectOutput(t) ==
  /\ At(t, "output")
  /\ Dup2(t, prog[t].fd + 1, 1)
  /\ GoOn(t, GoTo(t, "exec"), Gone) /\ UNCHANGED jobs

SleepOne(t) ==
  /\ At(t, "sleep")
  /\ PipeStep(t, Sleep(t, 1))
  /\ GoOn(t, GoTo(t, "exec"), Gone) /\ UNCHANGED jobs

Exec(t) ==
  /\ At(t, "exec")
  /\ PipeStep(t, Execve(t))
  /\ LET p == prog[t].command.progs[prog[t].stage]
     IN  GoOn(t, GoTo(t, "exit"), [Gone EXCEPT !.at = "image", !.rest = Programs[p]])
  /\ UNCHANGED jobs

Leave(t) ==
  /\ At(t, "exit") \/ (At(t, "image") /\ prog[t].rest = <<>>)
  /\ PipeStep(t, Exit(t))
  /\ GoOn(t, Gone, Gone) /\ UNCHANGED jobs

-----------------------------------------------------------------------------
(* The programs of bin and bin_backup: ls and others write, scan reads and *)
(* writes, bg loops, pipetest has a pipe of its own.                       *)

ImageCall(t, call, step) ==
  /\ At(t, "image") /\ prog[t].rest # <<>> /\ Head(prog[t].rest) = call
  /\ step
  /\ GoOn(t, [prog[t] EXCEPT !.rest = Tail(@),
                             !.fd = IF call = "pipe" THEN fdCount ELSE @],
             [prog[t] EXCEPT !.rest = Child])
  /\ UNCHANGED jobs

Image(t) ==
  \/ ImageCall(t, "write", WriteOut(t, 1))
  \/ ImageCall(t, "read", ReadIn(t, Line))
  \/ ImageCall(t, "pipe", SystemPipe(t))
  \/ ImageCall(t, "fork", PipeStep(t, Fork(t)))
  \/ ImageCall(t, "write end", WriteEnd(t, prog[t].fd + 1, 1))
  \/ ImageCall(t, "read end", ReadEnd(t, prog[t].fd, Line))
  \/ ImageCall(t, "close", Close(t, prog[t].fd))

Program(t) ==
  \/ ReadInput(t) \/ (\E c \in Commands : Run(t, c)) \/ Wait(t)
  \/ MakePipe(t) \/ ForkStage(t) \/ RedirectInput(t) \/ RedirectOutput(t)
  \/ SleepOne(t) \/ Exec(t) \/ Leave(t)
  \/ Image(t)

SNext ==
  \/ \E t \in Tasks : Program(t)
  \/ PipeStep(NULL, TimerIRQ) /\ UNCHANGED <<prog, jobs>>
  \/ (Key(Enter) \/ Key(Character)) /\ UNCHANGED <<pipes, prog, jobs>>

SSpec == SInit /\ [][SNext]_svars

-----------------------------------------------------------------------------
\* The prompt comes back only when the command is over: without background
\* jobs the shell reads the keyboard with no child alive, whatever else wakes
\* it, and a pipeline is over when its last stage is (executeProcessPipe).
PromptAfterCommand ==
  ~jobs /\ (At(Sbush, "prompt") \/ At(Sbush, "typed")) /\ current = Sbush
    => ChildrenOf(Sbush) = {}

\* The shell never waits for nobody: when it is blocked in waitpid some child
\* is alive that will wake it, though the child it names may be gone.
WaitsForSomebody ==
  At(Sbush, "prompt") /\ state[Sbush] = "WAITING" /\ Sbush \notin inRead
    => ChildrenOf(Sbush) # {}

=============================================================================
