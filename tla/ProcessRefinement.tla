------------------------- MODULE ProcessRefinement -------------------------
(* Process implements Dispatcher, as long as nobody kills hello or itself. *)
EXTENDS Process

readyTasks    == {t \in Listed : t # current /\ state[t] = "RUNNABLE"}
sleepingTasks == {t \in Listed : state[t] = "SLEEP"}
waitingTasks  == {t \in Listed : state[t] = "WAITING"}

Abstract == INSTANCE Dispatcher
  WITH Initial <- Boot, ready <- readyTasks, sleeping <- sleepingTasks,
       waiting <- waitingTasks, running <- current

\* The list walks, the counters and the clock of the code amount to the
\* dispatcher: a task in waitpid gets the CPU only after another task ended,
\* although get_next_task does not look at the state of the head; no runnable
\* task is forgotten, and none but the running one ends unless it is killed.
ImplementsDispatcher == Abstract!Spec

\* While hello lives it is the head of the list and can run; its presence there
\* is what makes dispatching the head without looking at its state correct.
HelloHeads ==
  /\ taskList # <<>> /\ Head(taskList) = Hello
  /\ state[Hello] \in {"RUNNING", "RUNNABLE"}

\* Page 0 is never loaded as a page table, whoever was killed.
NeverCrashes == ~crashed
=============================================================================
