------------------------------ MODULE MCShell ------------------------------
(* Instances of Shell for TLC. *)
EXTENDS Shell

Single(p)    == [progs |-> <<p>>, amp |-> FALSE]
Job(p)       == [progs |-> <<p>>, amp |-> TRUE]
Pipeline(ps) == [progs |-> ps, amp |-> FALSE]

MCCommands ==
  {Single("pipetest"), Job("ls"), Pipeline(<<"ls", "scan">>),
   Pipeline(<<"ls", "scan", "scan">>)}

MCPrograms == [ls       |-> <<"write", "write">>,
               scan     |-> <<"read", "read", "write">>,
               pipetest |-> <<"pipe", "fork", "read end">>]
MCChild    == <<"write end", "close">>

\* Bounds: a background job or a pipeline of three stages is the first command,
\* and after a job there are no pipelines.
Few ==
  current = Sbush /\ nextPid' # nextPid /\ prog[Sbush].command # Gone.command =>
    /\ prog'[Sbush].command \notin {Job("ls"), Pipeline(<<"ls", "scan", "scan">>)}
    /\ jobs => Len(prog'[Sbush].command.progs) = 1
MCSpec == SInit /\ [][SNext /\ Few]_svars

Symmetry == Permutations(Tasks \ Boot)
=============================================================================
