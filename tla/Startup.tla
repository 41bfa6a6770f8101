------------------------------ MODULE Startup ------------------------------
(***************************************************************************)
(* How a program gets its arguments: system_execve copies them, setup_stack *)
(* lays them on the new stack (sys/process/elf.c), and _start takes them    *)
(* from there (crt/crt1.c).                                                 *)
(*                                                                         *)
(* The stack is the sequence of its words, from its top on; a pointer is    *)
(* the text it points to.  The texts themselves lie beyond.                 *)
(***************************************************************************)
EXTENDS Integers, Sequences

NoWord == <<>>   \* a word that nobody wrote, in a page that is clean

\* A word stays free behind the arguments and one behind the environment, or
\* two before the environment when there are no arguments.
SetupStack(argv, envp) ==
  <<Len(argv)>> \o argv
    \o (IF argv = <<>> THEN <<NoWord, NoWord>> \o envp
                       ELSE <<NoWord>> \o envp \o <<NoWord>>)

\* Of the environment only the first string is copied.
Execve(argv, envp) == SetupStack(argv, <<envp[1]>>)

\* _start: where main finds the environment depends on argc again.
Main(stack) ==
  LET argc == stack[1]
  IN  [argv |-> SubSeq(stack, 2, argc + 1),
       env  |-> stack[2 + (IF argc > 1 THEN argc + 1 ELSE 2)]]

=============================================================================
