----------------------------- MODULE Interrupts -----------------------------
(***************************************************************************)
(* How the registers of a program get from the CPU to its task_struct and  *)
(* back: the stubs of sys/isr.s and sys/irq.s, the handlers of sys/idt.c   *)
(* that begin with task->r = *r and end with *r = task->r, the switch in   *)
(* between (timer_handler, start_process), and the exceptions.             *)
(*                                                                         *)
(* A set of register values is a frame.  What matters of it is whose it    *)
(* is, whether it is the point which that program has reached, and where   *)
(* an iretq with it leads: to the program, back to the stub's own iretq,   *)
(* which faults for ever, or to the stub's address in user mode.  The      *)
(* flags are left out: start_process overwrites them.                      *)
(***************************************************************************)
EXTENDS Process

CONSTANT Exceptions     \* the exceptions programs raise

\* idt_install gives a gate to the 32 exceptions, the timer, the keyboard and
\* the system calls.
Vectors == 0 .. 33 \cup {128}
Timer      == 32
SystemCall == 128
PageFaults == 14

\* The page fault has an action of its own, vector 2 is not raised by a
\* program.  A program that loses itself ends and leaves its children.
ASSUME InterruptsAssumption ==
  /\ Exceptions \subseteq (0 .. 31) \ {2, PageFaults}
  /\ Exceptions # {} => OrphansAllowed /\ "exit" \in Calls

VARIABLES
  cpu,     \* the registers user code runs with
  saved,   \* task->r of every task_struct
  rsp0     \* the task on whose kstack the next interrupt from user mode pushes

frames == <<cpu, saved, rsp0>>
ivars  == <<vars, frames>>

Frames == [of: Tasks \cup {NULL}, now: BOOLEAN,
           at: {"program", "iretq", "lost", "halt"}]

-----------------------------------------------------------------------------
(* The stubs. *)

\* The registers in the order in which a stub pushes them, and pops them; ds to
\* gs by way of rdx, which it has pushed by then.
PUSHA == <<"rdi", "rax", "rbx", "rcx", "rdx", "rbp", "rsi", "r8", "r9", "r10",
           "r11", "r12", "r13", "r14", "r15", "ds", "es", "fs", "gs">>

\* Mutant: r8 and rsi change places.
POPACrossed ==
  <<"gs", "fs", "es", "ds", "r15", "r14", "r13", "r12", "r11", "r10", "r9",
    "rsi", "r8", "rbp", "rdx", "rcx", "rbx", "rax", "rdi">>

POPA  == <<"gs", "fs", "es", "ds", "r15", "r14", "r13", "r12", "r11", "r10", "r9",
           "r8", "rsi", "rbp", "rdx", "rcx", "rbx", "rax", "rdi">>

\* struct regs, as far as the stubs fill it, from the top of the stack on.
Regs  == <<"gs", "fs", "es", "ds", "r15", "r14", "r13", "r12", "r11", "r10", "r9",
           "r8", "rsi", "rbp", "rdx", "rcx", "rbx", "rax", "rdi">>

\* Every register is popped from the word it was pushed to, and the handler
\* finds it there.
InOrder ==
  /\ Len(POPA) = Len(PUSHA) /\ Len(Regs) = Len(PUSHA)
  /\ \A k \in 1 .. 19 : POPA[k] = PUSHA[20 - k] /\ Regs[k] = PUSHA[20 - k]

\* What each stub pushes before the registers.
TimerStub        == <<0, 32>>
SystemCallStub   == <<80, 80>>
ExceptionStub(n) == <<n>>
Stub(n) == CASE n = Timer      -> TimerStub
             [] n = SystemCall -> SystemCallStub
             [] OTHER          -> ExceptionStub(n)

\* What the CPU pushed below the return address.
ErrorCode(n) == IF n \in {8, 10, 11, 12, 13, 14, 17, 21, 29, 30} THEN 1 ELSE 0

\* Every stub drops two words and finds its return address, or does not.
Balanced(n) == Len(Stub(n)) + ErrorCode(n) = 2

\* divide_by_zero_handler halts with the interrupts masked; the other handlers
\* print and return.
ReturnAt(n) ==
  IF n = 0 THEN "halt" ELSE IF Balanced(n) THEN "program" ELSE "iretq"

\* task->r = *r, when there is a current task.
Enter == IF current = NULL THEN saved ELSE [saved EXCEPT ![current] = cpu]

\* *r = task->r and iretq: the program goes on from there, and the frame in
\* the task_struct is no longer where it is.
ReturnTo(t, f, n) ==
  /\ cpu' = [f[t] EXCEPT !.at = IF Balanced(n) THEN @ ELSE ReturnAt(n),
                         !.now = @ /\ InOrder]
  /\ saved' = [f EXCEPT ![t] = [@ EXCEPT !.now = FALSE]]

\* start_process makes the segments those of user mode, wherever the frame
\* points to.
UserMode(f, t) ==
  IF f[t].at = "iretq" THEN [f EXCEPT ![t].at = "lost"] ELSE f

\* How a timer interrupt ends that found the frames f and the current task
\* cur; schedule_process has chosen current'.
Switch(f, cur) ==
  IF current' = NULL THEN saved' = f /\ UNCHANGED <<cpu, rsp0>>
  ELSE IF current' = cur THEN ReturnTo(cur, f, Timer) /\ UNCHANGED rsp0
  ELSE /\ ReturnTo(current', UserMode(f, current'), Timer)
       /\ rsp0' = current'

-----------------------------------------------------------------------------
\* The frame readElf gives a task: the first instruction of its program.
Start(t) == [of |-> t, now |-> TRUE, at |-> "program"]

IInit ==
  /\ Init
  /\ cpu = [of |-> NULL, now |-> FALSE, at |-> "program"]
  /\ saved = [t \in Tasks |-> IF t \in Boot THEN Start(t)
                ELSE [of |-> NULL, now |-> FALSE, at |-> "program"]]
  /\ rsp0 = NULL

InProgram == cpu.at = "program"

\* create_new_task adds the task at the end of the list.
NewTask == taskList'[Len(taskList')]

ITimerIRQ ==
  /\ cpu.at # "halt"
  /\ TimerIRQ
  /\ Switch(Enter, current)

\* Mutant of IFork: the child starts from the parent's struct as it was saved
\* last, before this call.
IForkStale(t) ==
  /\ InProgram /\ Fork(t)
  /\ Switch([Enter EXCEPT ![NewTask] =
               [saved[t] EXCEPT !.of = IF @ = t THEN NewTask ELSE @]], NULL)

\* The child goes on from the call of its parent, with its own return value.
IFork(t) ==
  /\ InProgram /\ Fork(t)
  /\ Switch([Enter EXCEPT ![NewTask] =
               [Enter[t] EXCEPT !.of = IF @ = t THEN NewTask ELSE @]], NULL)

\* The calls that give the CPU away clear current_task before int $0x20, so
\* the timer's handler does not save the kernel's registers over the caller's.
IBlock(t) ==
  /\ InProgram
  /\ \/ Exit(t)
     \/ \E p \in 1 .. nextPid - 1 : Waitpid(t, p)
     \/ \E sec \in SleepArgs : Sleep(t, sec)
  /\ Switch(Enter, NULL)

IExecve(t) ==
  /\ InProgram /\ Execve(t)
  /\ ReturnTo(t, [Enter EXCEPT ![NewTask] = Start(NewTask)], SystemCall)
  /\ UNCHANGED rsp0

IKill(t) ==
  /\ InProgram /\ \E p \in 1 .. nextPid - 1 : Kill(t, p)
  /\ ReturnTo(t, Enter, SystemCall)
  /\ UNCHANGED rsp0

\* A call that returns at once, or a page fault that gets its page.
IReturn(t) ==
  /\ InProgram /\ current = t /\ cr3 = t /\ ~crashed
  /\ \E n \in {SystemCall, PageFaults} : ReturnTo(t, Enter, n)
  /\ UNCHANGED <<vars, rsp0>>

IPageFault(t) ==
  /\ InProgram /\ PageFault(t)
  /\ IF crashed' THEN UNCHANGED frames ELSE Switch(Enter, NULL)

\* Other exceptions save nothing and print: an unbalanced stub ends in the
\* #GP of its own iretq, whose handler returns to that iretq.
IException(t) ==
  /\ InProgram /\ current = t /\ cr3 = t /\ ~crashed
  /\ pid[t] # HelloPid
  /\ \E n \in Exceptions : cpu' = [cpu EXCEPT !.at = ReturnAt(n)]
  /\ UNCHANGED <<vars, saved, rsp0>>

\* User mode at an address of the kernel: the page fault handler calls
\* system_exit, in the task's own page table.
ILost(t) ==
  /\ cpu.at = "lost" /\ Exit(t)
  /\ Switch(Enter, NULL)

Halted == cpu.at = "halt" /\ UNCHANGED ivars

INext ==
  \/ ITimerIRQ
  \/ \E t \in Tasks :
       \/ IFork(t) \/ IBlock(t) \/ IExecve(t) \/ IKill(t) \/ IReturn(t)
       \/ IPageFault(t) \/ IException(t) \/ ILost(t)
  \/ Halted

ISpec == IInit /\ [][INext]_ivars

-----------------------------------------------------------------------------
\* A program goes on with its own registers, from the very point where it left
\* the CPU, whoever ran in between and however it was preempted, blocked,
\* forked, loaded or restarted (task->r = *r and *r = task->r in
\* timer_handler, syscall_handler and page_fault_handler; child->r =
\* parent->r); the next interrupt finds its own kernel stack; and hello, which
\* makes no call and raises no exception, is never lost to the exceptions of
\* the others.
RegistersKept ==
  current # NULL =>
    /\ cpu.of = current /\ cpu.now
    /\ rsp0 = current
    /\ pid[current] = HelloPid => cpu.at = "program"

=============================================================================
