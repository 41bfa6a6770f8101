------------------------------ MODULE Process ------------------------------
(***************************************************************************)
(* The process manager of the kernel: the two task lists of                *)
(* sys/process/process.c, the scheduler of sys/process/process_manager.c,  *)
(* the timer interrupt of sys/timer.c, and the system calls of             *)
(* sys/syscall.c that create, block, wake and destroy tasks.               *)
(*                                                                         *)
(* Every gate of the IDT is an interrupt gate, so kernel code runs with    *)
(* interrupts masked, and the one place that unmasks them (sti; int $0x20) *)
(* raises the timer interrupt before any other can be taken.  A system     *)
(* call is therefore ONE step, the rescheduling it ends with included, and *)
(* interrupts fall between two instructions of user code only.             *)
(***************************************************************************)
EXTENDS Integers, Sequences, FiniteSets, Functions

CONSTANTS
  Tasks,          \* the task_struct's kmalloc can hand out (a bound)
  Hello, Sbush,   \* those of the two programs that start() loads at boot
  NULL,           \* the null pointer; as cr3, the kernel's own page table
  Word,           \* 2^64: the modulus of the uint64_t counters
  TicksPerSecond, \* timer interrupts from one second to the next
  MaxPid,         \* bound: fork and execve stop once this pid was given out
  SleepArgs,      \* the arguments programs give to sleep()
  Calls,          \* the system calls programs make
  OrphansAllowed, \* may a program exit or exec before its children exited?
  AnyVictim       \* may a program kill itself, or hello?

CallNames == {"fork", "execve", "waitpid", "exit", "kill", "sleep", "read"}

ASSUME ProcessAssumption ==
  /\ NULL \notin Tasks
  /\ Hello \in Tasks /\ Sbush \in Tasks /\ Hello # Sbush
  /\ Word \in Nat /\ Word > 1
  /\ TicksPerSecond \in Nat \ {0}
  /\ MaxPid \in Nat
  /\ SleepArgs \subseteq 0 .. Word - 1
  /\ Calls \subseteq CallNames
  /\ OrphansAllowed \in BOOLEAN /\ AnyVictim \in BOOLEAN

VARIABLES
  taskList,   \* task_list, the chain of next pointers as a sequence
  freeList,   \* free_task_list, likewise
  state, pid, ppid, parent, childCount, waitFor, sleepTime, \* task_struct
  current,    \* current_task
  nextPid,    \* the static pid counter of process.c
  cr3,        \* whose page table the CPU walks
  ticks,      \* timer interrupts since the last second
  crashed     \* the CPU walks page 0 as a page table: nothing runs any more

family == <<pid, ppid, parent, childCount, waitFor>>
lists  == <<taskList, freeList, nextPid>>
clock  == <<state, sleepTime, current, cr3, ticks>>
vars   == <<family, lists, clock, crashed>>

States   == {"RUNNING", "RUNNABLE", "SLEEP", "WAITING", "STOPPED"}
HelloPid == 1
Listed   == Range(taskList)
Freed    == Range(freeList)

-----------------------------------------------------------------------------
(* The task lists. *)

\* Mutants of Unlink: prev->next is cleared instead of moved on; the entry
\* after t is taken out.
UnlinkCutsTail(s, t) ==
  IF t \in Range(s)
  THEN SubSeq(s, 1, (CHOOSE i \in DOMAIN s : s[i] = t) - 1) ELSE s
UnlinkNext(s, t) ==
  IF t \in Range(s)
  THEN LET k == CHOOSE i \in DOMAIN s : s[i] = t
       IN  SubSeq(s, 1, k) \o SubSeq(s, k + 2, Len(s))
  ELSE s

Unlink(s, t) ==
  IF t \in Range(s)
  THEN LET k == CHOOSE i \in DOMAIN s : s[i] = t
       IN  SubSeq(s, 1, k - 1) \o SubSeq(s, k + 1, Len(s))
  ELSE s

\* The first element of s in the set S, NULL when there is none.
First(s, S) ==
  LET I == {i \in DOMAIN s : s[i] \in S}
  IN  IF I = {} THEN NULL ELSE s[CHOOSE i \in I : \A j \in I : i <= j]

\* What follows t in the list it is on.  A task_struct off the task list that
\* is still current was appended to the free list last: nothing follows it.
After(s, t) ==
  IF t \in Range(s)
  THEN SubSeq(s, (CHOOSE i \in DOMAIN s : s[i] = t) + 1, Len(s))
  ELSE <<>>

\* The head of the free list, else fresh memory.
FreeTask ==
  IF freeList # <<>> THEN {Head(freeList)} ELSE Tasks \ Listed

GetTask(p) == First(taskList, {t \in Tasks : pid[t] = p})

-----------------------------------------------------------------------------
(* The timer interrupt.  Its arguments are the task list, the states, the  *)
(* sleep times, the current task and the page table the code before it     *)
(* left: IRQ0 finds those of the current state, the int $0x20 of a system  *)
(* call those that the call produced.                                      *)

\* Mutants of NextTask: every scan starts at the head; a state is not looked at.
NextTaskFromHead(list, st, cur) ==
  First(list, {t \in Tasks : t # cur /\ st[t] = "RUNNABLE"})
NextTaskAnyState(list, st, cur) ==
  IF cur = NULL \/ After(list, cur) = <<>>
  THEN IF list = <<>> THEN NULL ELSE Head(list)
  ELSE Head(After(list, cur))

NextTask(list, st, cur) ==
  LET ready == {t \in Tasks : t # cur /\ st[t] = "RUNNABLE"}
      ahead == First(After(list, cur), ready)
  IN  IF cur = NULL
      THEN IF list = <<>> THEN NULL ELSE Head(list)
      ELSE IF ahead # NULL THEN ahead ELSE First(list, ready)

\* Mutant: every task that is blocked counts as asleep.
SleepersAndWaiters(list, st) ==
  {t \in Range(list) : st[t] \in {"SLEEP", "WAITING"}}

Sleepers(list, st) == {t \in Range(list) : st[t] = "SLEEP"}

\* Mutant: sleepers are counted down and forgotten.
WakeNobody(list, st, slp) == st

WakeSleepers(list, st, slp) ==
  [t \in Tasks |-> IF t \in Sleepers(list, st) /\ slp[t] = 0
                   THEN "RUNNABLE" ELSE st[t]]

\* Mutant: the count of a sleeper that wakes goes down once more.
CountDownPastZero(list, st, slp) ==
  [t \in Tasks |-> IF t \in Sleepers(list, st) THEN slp[t] - 1 ELSE slp[t]]

CountDown(list, st, slp) ==
  [t \in Tasks |-> IF t \in Sleepers(list, st) /\ slp[t] # 0
                   THEN slp[t] - 1 ELSE slp[t]]

\* Mutants of Schedule: cr3 is loaded only when the kernel's page table was; the
\* preempted task stays RUNNING.
ScheduleKeepsCr3(list, st, cur, pt) ==
  LET next == NextTask(list, st, cur)
  IN  IF next = NULL THEN state' = st /\ current' = cur /\ cr3' = pt
      ELSE /\ state' = [t \in Tasks |-> IF t = next THEN "RUNNING"
                                        ELSE IF t = cur THEN "RUNNABLE"
                                        ELSE st[t]]
           /\ current' = next
           /\ cr3' = IF pt = NULL THEN next ELSE pt
ScheduleKeepsState(list, st, cur, pt) ==
  LET next == NextTask(list, st, cur)
  IN  IF next = NULL THEN state' = st /\ current' = cur /\ cr3' = pt
      ELSE /\ state' = [st EXCEPT ![next] = "RUNNING"]
           /\ current' = next /\ cr3' = next

Schedule(list, st, cur, pt) ==
  LET next == NextTask(list, st, cur)
  IN  IF next = NULL
      THEN state' = st /\ current' = cur /\ cr3' = pt
      ELSE /\ state' = [t \in Tasks |-> IF t = next THEN "RUNNING"
                                        ELSE IF t = cur THEN "RUNNABLE"
                                        ELSE st[t]]
           /\ current' = next
           /\ cr3' = next

TimerInterrupt(list, st, slp, cur, pt) ==
  LET second == ticks + 1 = TicksPerSecond
  IN  /\ ticks' = IF second THEN 0 ELSE ticks + 1
      /\ sleepTime' = IF second THEN CountDown(list, st, slp) ELSE slp
      /\ Schedule(list, IF second THEN WakeSleepers(list, st, slp) ELSE st,
                  cur, pt)

-----------------------------------------------------------------------------
(* Creation and destruction of task_struct's. *)

\* Mutants of CreateTask: the parent pointer is not set; the task is added at
\* the head of the list.
CreateTaskOrphan(t, newPid, ppids, newParent) ==
  /\ taskList' = Append(taskList, t)
  /\ freeList' = IF freeList = <<>> THEN freeList ELSE Tail(freeList)
  /\ nextPid' = nextPid + 1
  /\ pid' = [pid EXCEPT ![t] = newPid]
  /\ waitFor' = [waitFor EXCEPT ![t] = 0]
  /\ ppid' = ppids
  /\ UNCHANGED parent
CreateTaskAtHead(t, newPid, ppids, newParent) ==
  /\ taskList' = <<t>> \o taskList
  /\ freeList' = IF freeList = <<>> THEN freeList ELSE Tail(freeList)
  /\ nextPid' = nextPid + 1
  /\ pid' = [pid EXCEPT ![t] = newPid]
  /\ parent' = [parent EXCEPT ![t] = newParent]
  /\ waitFor' = [waitFor EXCEPT ![t] = 0]
  /\ ppid' = ppids

\* create_new_task, for the struct t.  Fork and execve then set the pid and the
\* parent it ends up with; ppids are the ppid's of all the tasks after the call.
CreateTask(t, newPid, ppids, newParent) ==
  /\ taskList' = Append(taskList, t)
  /\ freeList' = IF freeList = <<>> THEN freeList ELSE Tail(freeList)
  /\ nextPid' = nextPid + 1
  /\ pid' = [pid EXCEPT ![t] = newPid]
  /\ parent' = [parent EXCEPT ![t] = newParent]
  /\ waitFor' = [waitFor EXCEPT ![t] = 0]
  /\ ppid' = ppids

AddToFreeTaskList(t) == freeList' = Append(freeList, t)

\* free_task_struct; cc are the child counts its caller left.  The pid stays.
FreeTaskStruct(t, cc) ==
  /\ taskList' = Unlink(taskList, t)
  /\ AddToFreeTaskList(t)
  /\ ppid' = [ppid EXCEPT ![t] = 0]
  /\ parent' = [parent EXCEPT ![t] = NULL]
  /\ childCount' = [cc EXCEPT ![t] = 0]
  /\ waitFor' = [waitFor EXCEPT ![t] = 0]
  /\ UNCHANGED <<pid, nextPid>>

-----------------------------------------------------------------------------
Boot == {Hello, Sbush}

Init ==
  /\ taskList = <<Hello, Sbush>>
  /\ freeList = <<>>
  /\ state = [t \in Tasks |-> IF t \in Boot THEN "RUNNABLE" ELSE "STOPPED"]
  /\ pid = [t \in Tasks |-> IF t = Hello THEN HelloPid
                            ELSE IF t = Sbush THEN HelloPid + 1 ELSE 0]
  /\ ppid = [t \in Tasks |-> 0]
  /\ parent = [t \in Tasks |-> NULL]
  /\ childCount = [t \in Tasks |-> 0]
  /\ waitFor = [t \in Tasks |-> 0]
  /\ sleepTime = [t \in Tasks |-> 0]
  /\ current = NULL
  /\ nextPid = HelloPid + 2
  /\ cr3 = NULL
  /\ ticks = 0
  /\ crashed = FALSE

\* t executes user code and makes a call: its own page table is loaded.  The
\* program hello is while(1) and makes none.
Calling(t, call) ==
  /\ ~crashed
  /\ current = t /\ cr3 = t
  /\ call \in Calls
  /\ pid[t] # HelloPid

TimerIRQ ==
  /\ ~crashed
  /\ TimerInterrupt(taskList, state, sleepTime, current, cr3)
  /\ UNCHANGED <<family, lists, crashed>>

Fork(t) ==
  /\ Calling(t, "fork")
  /\ nextPid <= MaxPid
  /\ \E child \in FreeTask :
       /\ CreateTask(child, nextPid, [ppid EXCEPT ![child] = pid[t]], t)
       /\ childCount' = [[childCount EXCEPT ![child] = 0]
                           EXCEPT ![t] = (@ + 1) % Word]
       /\ TimerInterrupt(taskList',
                         [state EXCEPT ![child] = "RUNNABLE", ![t] = "RUNNABLE"],
                         [sleepTime EXCEPT ![child] = 0], NULL, t)
  /\ UNCHANGED crashed

\* Mutants of Execve: the old image keeps its ppid; the new image is made the
\* child of the old one.
ExecveTwoChildren(t) ==
  /\ Calling(t, "execve")
  /\ nextPid <= MaxPid
  /\ OrphansAllowed \/ childCount[t] = 0
  /\ \E image \in FreeTask :
       /\ CreateTask(image, pid[t], [ppid EXCEPT ![image] = ppid[t]], parent[t])
       /\ childCount' = [childCount EXCEPT ![image] = 0]
       /\ state' = [state EXCEPT ![image] = "RUNNABLE"]
       /\ sleepTime' = [sleepTime EXCEPT ![image] = 0]
  /\ UNCHANGED <<current, cr3, ticks, crashed>>
ExecveOwnChild(t) ==
  /\ Calling(t, "execve")
  /\ nextPid <= MaxPid
  /\ OrphansAllowed \/ childCount[t] = 0
  /\ \E image \in FreeTask :
       /\ CreateTask(image, pid[t],
                     [ppid EXCEPT ![image] = ppid[t], ![t] = 0], t)
       /\ childCount' = [childCount EXCEPT ![image] = 0]
       /\ state' = [state EXCEPT ![image] = "RUNNABLE"]
       /\ sleepTime' = [sleepTime EXCEPT ![image] = 0]
  /\ UNCHANGED <<current, cr3, ticks, crashed>>

\* The new image is a new task_struct with the caller's pid, ppid and parent;
\* the call returns to the old image, which stays on the task list.
Execve(t) ==
  /\ Calling(t, "execve")
  /\ nextPid <= MaxPid
  /\ OrphansAllowed \/ childCount[t] = 0
  /\ \E image \in FreeTask :
       /\ CreateTask(image, pid[t],
                     [ppid EXCEPT ![image] = ppid[t], ![t] = 0], parent[t])
       /\ childCount' = [childCount EXCEPT ![image] = 0]
       /\ state' = [state EXCEPT ![image] = "RUNNABLE"]
       /\ sleepTime' = [sleepTime EXCEPT ![image] = 0]
  /\ UNCHANGED <<current, cr3, ticks, crashed>>

\* Mutant: child_count is not looked at.
WaitpidAnyway(t, p) ==
  /\ Calling(t, "waitpid")
  /\ waitFor' = [waitFor EXCEPT ![t] = p]
  /\ TimerInterrupt(taskList, [state EXCEPT ![t] = "WAITING"], sleepTime,
                    NULL, t)
  /\ UNCHANGED <<pid, ppid, parent, childCount, lists, crashed>>

\* With no child the call returns -1 and changes nothing.
Waitpid(t, p) ==
  /\ Calling(t, "waitpid")
  /\ childCount[t] # 0
  /\ waitFor' = [waitFor EXCEPT ![t] = p]
  /\ TimerInterrupt(taskList, [state EXCEPT ![t] = "WAITING"], sleepTime,
                    NULL, t)
  /\ UNCHANGED <<pid, ppid, parent, childCount, lists, crashed>>

Sleep(t, sec) ==
  /\ Calling(t, "sleep")
  /\ TimerInterrupt(taskList, [state EXCEPT ![t] = "SLEEP"],
                    [sleepTime EXCEPT ![t] = (sec - 1) % Word], NULL, t)
  /\ UNCHANGED <<family, lists, crashed>>

\* remove_from_parent wakes the parent when it waits for this very child, but
\* exit has already made it RUNNABLE, whatever it was waiting for.
WakeWaiter(t, st) ==
  IF st[parent[t]] = "WAITING" /\ waitFor[parent[t]] = pid[t]
  THEN [st EXCEPT ![parent[t]] = "RUNNABLE"] ELSE st
ParentState(t) ==
  IF ppid[t] > 0 THEN WakeWaiter(t, [state EXCEPT ![parent[t]] = "RUNNABLE"])
                 ELSE state
\* Mutant: child_count is not decremented.
ParentCountKept(t) == childCount

ParentCount(t) ==
  IF ppid[t] > 0 THEN [childCount EXCEPT ![parent[t]] = (@ - 1) % Word]
                 ELSE childCount

ExitTask(t) ==
  /\ FreeTaskStruct(t, ParentCount(t))
  /\ TimerInterrupt(taskList', [ParentState(t) EXCEPT ![t] = "STOPPED"],
                    [sleepTime EXCEPT ![t] = 0], NULL, NULL)
  /\ UNCHANGED crashed

Exit(t) ==
  /\ Calling(t, "exit")
  /\ OrphansAllowed \/ childCount[t] = 0
  /\ ExitTask(t)

\* kill returns to its caller with the kernel's page table still loaded.  With
\* no task of that pid it returns -1 and changes nothing.
Kill(t, p) ==
  /\ Calling(t, "kill")
  /\ LET target == GetTask(p)
     IN  /\ target # NULL
         /\ AnyVictim \/ target \notin {t, Hello}
         /\ FreeTaskStruct(target, childCount)
         /\ state' = [state EXCEPT ![target] = "STOPPED"]
         /\ sleepTime' = [sleepTime EXCEPT ![target] = 0]
  /\ cr3' = NULL
  /\ UNCHANGED <<current, ticks, crashed>>

\* User code running under the kernel's page table faults on its next fetch.
\* The address is neither heap nor stack, so demand_paging calls exit; a task
\* that freed itself has no page table, and freeing it again loads page 0.
PageFault(t) ==
  /\ ~crashed
  /\ current = t /\ cr3 = NULL
  /\ IF t \in Listed
     THEN ExitTask(t)
     ELSE crashed' = TRUE /\ UNCHANGED <<family, lists, clock>>

Syscall(t) ==
  \/ Fork(t)
  \/ Execve(t)
  \/ Exit(t)
  \/ \E p \in 1 .. nextPid - 1 : Waitpid(t, p) \/ Kill(t, p)
  \/ \E sec \in SleepArgs : Sleep(t, sec)

Next ==
  \/ TimerIRQ
  \/ \E t \in Tasks : Syscall(t) \/ PageFault(t)

Spec == Init /\ [][Next]_vars

\* Programs that never call kill: none of them runs under the kernel's page
\* table, so PageFault has no part in it.
FamilyCall(t) ==
  \/ Fork(t)
  \/ Execve(t)
  \/ Exit(t)
  \/ \E p \in 1 .. nextPid - 1 : Waitpid(t, p)
  \/ \E sec \in SleepArgs : Sleep(t, sec)

FamilyNext == TimerIRQ \/ \E t \in Tasks : FamilyCall(t)

\* The PIT keeps interrupting at 100 Hz.
FairSpec == Init /\ [][FamilyNext]_vars /\ WF_vars(TimerIRQ)

-----------------------------------------------------------------------------
(* Properties that hold whatever the programs do. *)

Counter == 0 .. Word - 1

\* Every variable has its type.
TypeOK ==
  /\ taskList \in Seq(Tasks) /\ freeList \in Seq(Tasks)
  /\ state \in [Tasks -> States]
  /\ pid \in [Tasks -> Nat] /\ ppid \in [Tasks -> Nat]
  /\ parent \in [Tasks -> Tasks \cup {NULL}]
  /\ childCount \in [Tasks -> Counter] /\ sleepTime \in [Tasks -> Counter]
  /\ waitFor \in [Tasks -> Nat]
  /\ current \in Tasks \cup {NULL} /\ cr3 \in Tasks \cup {NULL}
  /\ nextPid \in Nat
  /\ ticks \in 0 .. TicksPerSecond - 1
  /\ crashed \in BOOLEAN

\* The two chains of next pointers share no task_struct, neither loops back
\* into itself, and a task_struct that was handed out is never lost from both
\* (add_to_task_list, remove_from_task_list, add_to_free_task_list,
\* get_free_task: they share the one field next).
ListsPartition ==
  /\ IsInjective(taskList) /\ IsInjective(freeList)
  /\ Listed \cap Freed = {}
  /\ \A t \in Tasks : pid[t] # 0 <=> t \in Listed \cup Freed

\* Only the current task is RUNNING.  get_next_task picks RUNNABLE tasks only:
\* one left RUNNING by a call that gave the CPU away would never run again.
OnlyCurrentRuns == \A t \in Tasks : state[t] = "RUNNING" => t = current

\* Of the task_struct's that share a pid (execve leaves the old image beside
\* the new one) at most one answers to the parent: a child exits once, so
\* child_count goes down once for each fork.
OneImageReports ==
  \A t, u \in Listed :
    t # u /\ pid[t] = pid[u] => ppid[t] = 0 \/ ppid[u] = 0

\* A task with a ppid has a parent pointer: remove_from_parent follows it
\* without the NULL test that is commented out there.
ChildHasParent == \A t \in Listed : ppid[t] > 0 => parent[t] # NULL

\* The task on the CPU runs in its own address space or, after a kill, in the
\* kernel's: never in that of another task.
OwnAddressSpace == current # NULL => cr3 \in {current, NULL}

\* A task_struct goes back to the free list only by its own exit or fault, or
\* by a kill: no step takes two tasks off the list, and none but the current
\* one leaves it unless the caller of kill stays on the CPU.
LeavesByExitOrKill ==
  [][\A t \in Listed :
       t \notin Listed' =>
         /\ Listed' = Listed \ {t}
         /\ t = current \/ current' = current]_vars

-----------------------------------------------------------------------------
(* Properties of programs that kill nothing and leave no orphan. *)

ChildrenOf(t) == {c \in Listed : ppid[c] > 0 /\ parent[c] = t}

\* child_count is the number of children that have not exited: an execve in
\* between neither loses the child nor counts it twice.
ChildCountExact == \A t \in Listed : childCount[t] = Cardinality(ChildrenOf(t))

\* The parent pointer of a child leads to a live task_struct that still has
\* the pid the child knows as its ppid.
ParentIsLive ==
  \A c \in Listed :
    ppid[c] > 0 => parent[c] \in Listed /\ pid[parent[c]] = ppid[c]

\* A task blocked in waitpid is made RUNNABLE only by the exit of a child.
WaiterWokenByChild ==
  [][\A t \in Listed :
       state[t] = "WAITING" /\ t \in Listed' /\ state'[t] # "WAITING"
         => \E c \in ChildrenOf(t) : c \notin Listed']_vars

\* A task blocked in waitpid(p) stays blocked until child p exited: the caller
\* that named a child gets that child.
WaitpidWaitsForChild ==
  [][\A t \in Listed : \A c \in ChildrenOf(t) :
       state[t] = "WAITING" /\ waitFor[t] = pid[c] /\ c \in Listed'
         => state'[t] = "WAITING"]_vars

\* Every sleep ends, and a RUNNABLE task gets the CPU however the calls of the
\* others restart the scan of the list at its head.
SleepEnds ==
  \A t \in Tasks : state[t] = "SLEEP" ~> state[t] # "SLEEP"
NoStarvation ==
  \A t \in Tasks : t \in Listed /\ state[t] = "RUNNABLE"
                     ~> current = t \/ t \notin Listed

=============================================================================
