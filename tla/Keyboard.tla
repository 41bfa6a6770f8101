------------------------------ MODULE Keyboard ------------------------------
(***************************************************************************)
(* Reading standard input: read(0, ..) of sys/syscall.c, which blocks its  *)
(* caller in the one wait slot of sys/kb.c, and the keyboard interrupt,    *)
(* which fills the line buffer, copies it to the reader and wakes it.  The *)
(* interrupt comes between two instructions of user code, like the timer's,*)
(* and does not reschedule.                                                *)
(*                                                                         *)
(* A typed character is represented by the task in the wait slot when it   *)
(* was typed.  Shift and the scan code tables only choose the character.   *)
(***************************************************************************)
EXTENDS Process

CONSTANTS
  Line,      \* the size of the line buffer a[], and scanf's %s and %d: 1024
  ReadSizes, \* the sizes programs read: 1 for scanf's %c, Line for the rest
  Background \* do programs start jobs and go on, or block, without them?

ASSUME KeyboardAssumption ==
  /\ Line \in Nat \ {0}
  /\ ReadSizes \subseteq 1 .. Line
  /\ Background \in BOOLEAN

VARIABLES
  flag,   \* flag: a read waits for the keyboard
  waiter, \* waiting_task, never reset
  want,   \* count: what the last read asked for
  typed,  \* a[0 .. i - 1]
  inRead  \* the tasks blocked in read(0, ..): where their kernel stacks are

keyboard == <<flag, waiter, want, typed, inRead>>
kvars    == <<vars, keyboard>>

KInit ==
  /\ Init
  /\ flag = FALSE /\ waiter = NULL /\ want = 0 /\ typed = <<>>
  /\ inRead = {}

StillIn(R) == inRead' = {t \in R : t \in Listed' /\ state'[t] = "WAITING"}

\* execve left this image on the task list; all it has to do is exit.
OldImage(t) == ppid[t] = 0 /\ parent[t] # NULL

\* Without background jobs a program waits for its child before it reads or
\* starts another.
Idle(t)    == childCount[t] = 0 /\ ~OldImage(t)
MayGoOn(t) == Background \/ Idle(t)

\* Nor does the shell at the terminal replace itself: its children exec.
MayExec(t) == MayGoOn(t) /\ (Background \/ ppid[t] > 0)

\* gets, set_flag, set_waiting_task.
WaitForLine(t, size) == flag' = TRUE /\ waiter' = t /\ want' = size

Read(t, size) ==
  /\ Calling(t, "read")
  /\ MayGoOn(t)
  /\ WaitForLine(t, size)
  /\ TimerInterrupt(taskList, [state EXCEPT ![t] = "WAITING"], sleepTime,
                    NULL, t)
  /\ UNCHANGED <<typed, family, lists, crashed>>
  /\ StillIn(inRead \cup {t})

\* Mutants of Deliver: the keyboard stays in scanf mode; i is not reset.
DeliverKeepsFlag ==
  /\ typed' = <<>>
  /\ state' = [state EXCEPT ![waiter] = "RUNNABLE"]
  /\ UNCHANGED <<flag, crashed, waiter, want>>
DeliverKeepsLine ==
  /\ flag' = FALSE
  /\ state' = [state EXCEPT ![waiter] = "RUNNABLE"]
  /\ UNCHANGED <<typed, crashed, waiter, want>>

\* The line goes to the address space of the task in the slot, which becomes
\* RUNNABLE whatever it does by now.  The page table of a freed task_struct is
\* page 0.
Deliver ==
  /\ flag' = FALSE /\ typed' = <<>>
  /\ IF waiter \in Freed
     THEN crashed' = TRUE /\ UNCHANGED state
     ELSE state' = [state EXCEPT ![waiter] = "RUNNABLE"] /\ UNCHANGED crashed
  /\ UNCHANGED <<waiter, want>>

Collect(line) == typed' = line /\ UNCHANGED <<flag, waiter, want, state, crashed>>

\* Mutant: an empty line is ignored.
EnterNotEmpty == flag /\ typed # <<>> /\ Deliver

Enter == flag /\ Deliver

\* Mutant: i > count instead of i >= count.
CharacterLate ==
  /\ flag
  /\ LET line == Append(typed, waiter)
     IN  IF Len(line) > want THEN Deliver ELSE Collect(line)

Character ==
  /\ flag
  /\ LET line == Append(typed, waiter)
     IN  IF Len(line) >= want THEN Deliver ELSE Collect(line)

\* With nothing to erase a backspace is a character.
Backspace ==
  /\ flag
  /\ IF typed # <<>> THEN Collect(SubSeq(typed, 1, Len(typed) - 1))
                     ELSE Character

Key(press) ==
  /\ ~crashed
  /\ press
  /\ UNCHANGED <<family, lists, sleepTime, current, cr3, ticks>>
  /\ StillIn(inRead)

ProcessStep(step) ==
  step /\ StillIn(inRead) /\ UNCHANGED <<flag, waiter, want, typed>>

KSyscall(t) ==
  /\ Syscall(t)
  /\ Fork(t) => MayGoOn(t)
  /\ Execve(t) => MayExec(t)

KNext ==
  \/ ProcessStep(TimerIRQ)
  \/ \E t \in Tasks : ProcessStep(KSyscall(t) \/ PageFault(t))
  \/ \E t \in Tasks, size \in ReadSizes : Read(t, size)
  \/ Key(Enter) \/ Key(Character) \/ Key(Backspace)

KSpec == KInit /\ [][KNext]_kvars

-----------------------------------------------------------------------------
\* Every variable has its type.
KTypeOK ==
  /\ TypeOK
  /\ flag \in BOOLEAN
  /\ waiter \in Tasks \cup {NULL}
  /\ want \in 0 .. Line
  /\ typed \in Seq(Tasks)
  /\ inRead \subseteq Tasks

\* a[] never overflows, though i is compared with the size of the last read
\* only, after the character is stored, and survives from one read to the next.
LineFits == Len(typed) < Line

(* Properties of programs without background jobs. *)

\* The wait slot and the tasks blocked in read agree: in scanf mode the task in
\* the slot is the one that is blocked, so that waiting_task is neither a freed
\* task_struct nor one woken by something else than the keyboard (exit wakes its
\* parent whatever it does); and no other reader is forgotten.
SlotIsReader == inRead = IF flag THEN {waiter} ELSE {}

\* The characters collected were typed for the task that gets them, and they
\* fit in its buffer, the newline included.
OwnLine ==
  flag => Len(typed) < want /\ \A i \in DOMAIN typed : typed[i] = waiter

\* A reader gets its line and the CPU.
ReadReturns == \A t \in Tasks : t \in inRead ~> current = t

=============================================================================
