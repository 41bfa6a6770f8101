----------------------------- MODULE MCKeyboard -----------------------------
(* Instances of Keyboard for TLC.  Programs do as they like; quiet tells    *)
(* whether all of them have kept to the foreground until now.               *)
EXTENDS Keyboard, TLC

VARIABLE quiet

\* A program that reads, forks or execs in this step has no child left and is
\* no old image, the shell at the terminal does not replace itself, no child is
\* left behind, and none is killed.
ForegroundStep ==
  /\ nextPid' # nextPid \/ inRead' \ inRead # {} => Idle(current)
  /\ nextPid' # nextPid /\ current' = current => ppid[current] > 0
  /\ current \in Listed \ Listed' => childCount[current] = 0
  /\ cr3' = NULL => cr3 = NULL

MCInit == KInit /\ quiet = TRUE

\* The timer keeps interrupting, and the user ends the lines that are read.
MCSpec ==
  /\ MCInit
  /\ [][KNext /\ quiet' = (quiet /\ ForegroundStep)]_<<kvars, quiet>>
  /\ WF_kvars(ProcessStep(TimerIRQ)) /\ WF_kvars(Key(Enter))

\* The properties of Keyboard for programs without background jobs, until the
\* first of them starts one.
QuietSlotIsReader == quiet => SlotIsReader
QuietOwnLine      == quiet => OwnLine
QuietReadReturns  == []quiet => ReadReturns

=============================================================================
