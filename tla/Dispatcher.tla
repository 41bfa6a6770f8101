----------------------------- MODULE Dispatcher -----------------------------
(***************************************************************************)
(* What the process manager promises to programs, without lists, counters, *)
(* pids or page tables: the CPU goes to tasks that are ready, it is never  *)
(* idle once it was given out, and a task leaves it by the timer or by its *)
(* own call.  Sleepers are made ready by the clock, which any interrupt    *)
(* may advance, or by the end of one other task; those that wait by the    *)
(* end of one other task only.                                             *)
(***************************************************************************)
CONSTANTS
  Tasks,   \* tasks that may exist
  Initial, \* those that exist at boot
  NULL     \* no task

VARIABLES ready, sleeping, waiting, running

vars == <<ready, sleeping, waiting, running>>

Running == {running} \ {NULL}
Live    == ready \cup sleeping \cup waiting \cup Running

Init == ready = Initial /\ sleeping = {} /\ waiting = {} /\ running = NULL

\* The CPU goes to one task of R, the others of R wait for it.
Dispatch(R) == running' \in R /\ ready' = R \ {running'}

\* A timer interrupt may end the sleep of some tasks.
Preempt ==
  \E woken \in SUBSET sleeping :
    /\ Dispatch(ready \cup woken \cup Running)
    /\ sleeping' = sleeping \ woken
    /\ UNCHANGED waiting

\* The running task creates another one and keeps the CPU.
Create ==
  /\ running # NULL
  /\ \E t \in Tasks \ Live : ready' = ready \cup {t}
  /\ UNCHANGED <<sleeping, waiting, running>>

\* The running task creates another one and gives the CPU away.
Spawn ==
  /\ running # NULL
  /\ \E t \in Tasks \ Live, woken \in SUBSET sleeping :
       /\ Dispatch(ready \cup woken \cup {t, running})
       /\ sleeping' = sleeping \ woken
  /\ UNCHANGED waiting

\* The running task goes to sleep; that sleep may be over at once.
Sleep ==
  /\ running # NULL
  /\ \E woken \in SUBSET (sleeping \cup {running}) :
       /\ Dispatch(ready \cup woken)
       /\ sleeping' = (sleeping \cup {running}) \ woken
  /\ UNCHANGED waiting

\* The running task waits for the end of another one.
Wait ==
  /\ running # NULL
  /\ \E woken \in SUBSET sleeping :
       /\ Dispatch(ready \cup woken)
       /\ sleeping' = sleeping \ woken
  /\ waiting' = waiting \cup {running}

\* The running task ends, and one task that is blocked may be told so.
Terminate ==
  /\ running # NULL
  /\ \E told \in Tasks, woken \in SUBSET sleeping :
       LET released == woken \cup ({told} \cap (sleeping \cup waiting))
       IN  /\ Dispatch(ready \cup released)
           /\ sleeping' = sleeping \ released
           /\ waiting' = waiting \ released

\* The running task ends another one.
Destroy ==
  /\ running # NULL
  /\ \E t \in ready \cup sleeping \cup waiting :
       /\ ready' = ready \ {t}
       /\ sleeping' = sleeping \ {t}
       /\ waiting' = waiting \ {t}
  /\ UNCHANGED running

Next == Preempt \/ Create \/ Spawn \/ Sleep \/ Wait \/ Terminate \/ Destroy

Spec == Init /\ [][Next]_vars
=============================================================================
