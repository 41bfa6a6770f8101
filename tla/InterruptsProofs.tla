-------------------------- MODULE InterruptsProofs --------------------------
(***************************************************************************)
(* Theorems about Interrupts: the registers a program runs with are its    *)
(* own, for every number of tasks.                                         *)
(***************************************************************************)
EXTENDS ProcessProofs, Interrupts

\* In the frames f the program of t can go on where it left off.
Ready(f, t, pids) ==
  /\ f[t].of = t /\ f[t].now
  /\ pids[t] = HelloPid => f[t].at = "program"

FramesTyped ==
  cpu \in Frames /\ saved \in [Tasks -> Frames] /\ rsp0 \in Tasks \cup {NULL}

\* Whoever is not on the CPU has its frame in its task_struct.
FramesReady == \A t \in Listed \ {current} : Ready(saved, t, pid)

\* No fork hands out the pid of hello.
HelloPidGivenOut == nextPid > HelloPid

Kept == FramesTyped /\ FramesReady /\ RegistersKept /\ HelloPidGivenOut

JInv == IInv /\ Kept

-----------------------------------------------------------------------------
(* The pieces of a handler. *)

\* The stubs every running program goes through drop what they pushed.
LEMMA BalancedStubs ==
  Balanced(Timer) /\ Balanced(SystemCall) /\ Balanced(PageFaults)
BY DEF Balanced, Stub, TimerStub, SystemCallStub, ExceptionStub, ErrorCode, Timer,
       SystemCall, PageFaults

\* What a stub pops is where it pushed it, and where the handler looks for it.
LEMMA RegistersInOrder == InOrder
<1>1. Len(POPA) = 19 /\ Len(Regs) = 19 /\ Len(PUSHA) = 19
  BY DEF POPA, Regs, PUSHA
<1>2. ASSUME NEW k \in 1 .. 19 PROVE POPA[k] = PUSHA[20 - k] /\ Regs[k] = PUSHA[20 - k]
  <2>1. k \in 1 .. 6 \/ k \in 7 .. 12 \/ k \in 13 .. 19
    BY <1>2
  <2>2. CASE k \in 1 .. 6
    BY <2>2 DEF POPA, Regs, PUSHA
  <2>3. CASE k \in 7 .. 12
    BY <2>3 DEF POPA, Regs, PUSHA
  <2>4. CASE k \in 13 .. 19
    BY <2>4 DEF POPA, Regs, PUSHA
  <2> QED BY <2>1, <2>2, <2>3, <2>4
<1> QED BY <1>1, <1>2 DEF InOrder

\* After task->r = *r every task that may be chosen has its frame.
LEMMA EnterEffect ==
  ASSUME JInv
  PROVE  /\ Enter \in [Tasks -> Frames]
         /\ \A t \in Listed : Ready(Enter, t, pid)
         /\ current # NULL => current \in Tasks /\ Ready(Enter, current, pid)
<1>1. Listed \subseteq Tasks
  BY InRange DEF JInv, IInv, TypeOK, Listed
<1>2. current \in Tasks \cup {NULL}
  BY DEF JInv, IInv, TypeOK
<1>3. CASE current = NULL
  <2>1. Enter = saved
    BY <1>3 DEF Enter
  <2>2. NULL \notin Listed
    BY <1>1, ProcessAssumption
  <2> QED BY <1>3, <2>1, <2>2 DEF JInv, Kept, FramesTyped, FramesReady
<1>4. CASE current # NULL
  <2>1. Enter = [saved EXCEPT ![current] = cpu]
    BY <1>4 DEF Enter
  <2>2. Enter \in [Tasks -> Frames]
    BY <2>1 DEF JInv, Kept, FramesTyped
  <2>3. Enter[current] = cpu /\ \A t \in Tasks \ {current} : Enter[t] = saved[t]
    BY <1>2, <1>4, <2>1 DEF JInv, Kept, FramesTyped
  <2>4. Ready(Enter, current, pid)
    BY <1>4, <2>3 DEF JInv, Kept, RegistersKept, Ready
  <2>5. \A t \in Listed \ {current} : Ready(Enter, t, pid)
    BY <1>1, <2>3 DEF JInv, Kept, FramesReady, Ready
  <2> QED BY <1>2, <1>4, <2>2, <2>4, <2>5
<1> QED BY <1>3, <1>4

\* *r = task->r puts the program of t on the CPU.
LEMMA ReturnEffect ==
  ASSUME NEW f \in [Tasks -> Frames], NEW t \in Tasks, NEW n, Balanced(n),
         Ready(f, t, pid'), ReturnTo(t, f, n)
  PROVE  /\ cpu' = f[t] /\ cpu' \in Frames
         /\ saved' \in [Tasks -> Frames]
         /\ \A u \in Tasks \ {t} : saved'[u] = f[u]
<1>1. f[t] \in Frames
  OBVIOUS
<1>2. [f[t] EXCEPT !.at = f[t].at, !.now = f[t].now /\ InOrder] = f[t]
  BY <1>1, RegistersInOrder DEF Frames
<1>3. cpu' = f[t]
  BY <1>2 DEF ReturnTo
<1>4. [f[t] EXCEPT !.now = FALSE] \in Frames
  BY <1>1 DEF Frames
<1>5. saved' = [f EXCEPT ![t] = [f[t] EXCEPT !.now = FALSE]]
  BY DEF ReturnTo
<1>6. saved' \in [Tasks -> Frames]
  BY <1>4, <1>5
<1>7. \A u \in Tasks \ {t} : saved'[u] = f[u]
  BY <1>5
<1> QED BY <1>1, <1>3, <1>6, <1>7

\* A handler that returns to its caller.
LEMMA ReturnKeeps ==
  ASSUME JInv, IInv',
         NEW f \in [Tasks -> Frames], NEW t \in Tasks, NEW n, Balanced(n),
         current = t, current' = t, UNCHANGED rsp0, HelloPidGivenOut',
         \A u \in Listed' : Ready(f, u, pid'), Ready(f, t, pid'),
         ReturnTo(t, f, n)
  PROVE  JInv'
<1>1. /\ cpu' = f[t] /\ cpu' \in Frames
      /\ saved' \in [Tasks -> Frames]
      /\ \A u \in Tasks \ {t} : saved'[u] = f[u]
  BY ReturnEffect
<1>2. Listed' \subseteq Tasks
  BY InRange DEF IInv, TypeOK, Listed
<1>3. FramesTyped'
  BY <1>1 DEF FramesTyped, JInv, Kept
<1>4. RegistersKept'
  BY <1>1, ProcessAssumption DEF RegistersKept, Ready, JInv, Kept
<1>5. FramesReady'
  BY <1>1, <1>2 DEF FramesReady, Ready
<1> QED BY <1>3, <1>4, <1>5 DEF JInv, Kept

\* A timer interrupt puts the task it has chosen on the CPU.
LEMMA SwitchKeeps ==
  ASSUME JInv, IInv',
         NEW f \in [Tasks -> Frames], NEW cur \in {NULL, current},
         current' = cur \/ current' \in Listed', HelloPidGivenOut',
         \A u \in Listed' : Ready(f, u, pid'),
         cur # NULL => Ready(f, cur, pid'),
         Switch(f, cur)
  PROVE  JInv'
<1>1. Listed' \subseteq Tasks
  BY InRange DEF IInv, TypeOK, Listed
<1>2. current' \in Tasks \cup {NULL} /\ NULL \notin Tasks
  BY ProcessAssumption DEF IInv, TypeOK
<1>3. CASE current' = NULL
  <2>1. saved' = f /\ UNCHANGED <<cpu, rsp0>>
    BY <1>3 DEF Switch
  <2> QED BY <1>3, <2>1 DEF JInv, Kept, FramesTyped, FramesReady, RegistersKept
<1>4. CASE current' # NULL /\ current' = cur
  <2>1. ReturnTo(cur, f, Timer) /\ UNCHANGED rsp0 /\ cur = current
    BY <1>4 DEF Switch
  <2> QED BY <1>2, <1>4, <2>1, BalancedStubs, ReturnKeeps
<1>5. CASE current' # NULL /\ current' # cur
  <2> DEFINE g == UserMode(f, current')
  <2>1. ReturnTo(current', g, Timer) /\ rsp0' = current'
    BY <1>5 DEF Switch
  <2>2. current' \in Listed' /\ current' \in Tasks
    BY <1>2, <1>5
  <2>3. f[current'] \in Frames /\ Ready(f, current', pid')
    BY <2>2
  <2>4. /\ g \in [Tasks -> Frames]
        /\ \A u \in Tasks \ {current'} : g[u] = f[u]
        /\ Ready(g, current', pid')
    <3>1. CASE f[current'].at # "iretq"
      BY <2>3, <3>1 DEF UserMode
    <3>2. CASE f[current'].at = "iretq"
      <4> DEFINE lost == [f[current'] EXCEPT !.at = "lost"]
      <4>1. lost \in Frames /\ lost.of = f[current'].of
            /\ lost.now = f[current'].now
        BY <2>3 DEF Frames
      <4>2. g = [f EXCEPT ![current'] = lost]
        BY <3>2 DEF UserMode
      <4> HIDE DEF lost, g
      <4>3. /\ g \in [Tasks -> Frames] /\ g[current'] = lost
            /\ \A u \in Tasks \ {current'} : g[u] = f[u]
        BY <2>2, <4>1, <4>2
      <4>4. pid'[current'] # HelloPid
        BY <2>3, <3>2 DEF Ready
      <4> QED BY <2>3, <4>1, <4>3, <4>4 DEF Ready
    <3> QED BY <3>1, <3>2
  <2> HIDE DEF g
  <2>6. /\ cpu' = g[current'] /\ cpu' \in Frames
        /\ saved' \in [Tasks -> Frames]
        /\ \A u \in Tasks \ {current'} : saved'[u] = g[u]
    BY <2>1, <2>2, <2>4, BalancedStubs, ReturnEffect
  <2>7. FramesTyped' /\ RegistersKept'
    BY <2>1, <2>2, <2>4, <2>6 DEF FramesTyped, RegistersKept, Ready
  <2>8. FramesReady'
    BY <1>1, <2>4, <2>6 DEF FramesReady, Ready
  <2> QED BY <2>7, <2>8 DEF JInv, Kept
<1> QED BY <1>3, <1>4, <1>5

\* schedule_process chooses a task of the list, or changes nothing.
LEMMA TimerChooses ==
  ASSUME NEW list \in Seq(Tasks), NEW st, NEW slp, NEW cur, NEW pt,
         TimerInterrupt(list, st, slp, cur, pt)
  PROVE  current' = cur \/ current' \in Range(list)
<1>1. \A s : NextTask(list, s, cur) \in Range(list) \cup {NULL}
  BY NextTaskEffect
<1>2. PICK s : Schedule(list, s, cur, pt)
  BY DEF TimerInterrupt
<1> QED BY <1>1, <1>2 DEF Schedule

-----------------------------------------------------------------------------
(* The actions. *)

\* Every action is one of Process, or leaves its variables alone.
LEMMA StepIInv ==
  ASSUME JInv, [Next]_vars
  PROVE  IInv'
BY NextIInv DEF JInv

\* After the set-up the invariant of the registers holds.
THEOREM InitJInv == IInit => JInv
<1> SUFFICES ASSUME IInit PROVE JInv
  OBVIOUS
<1>1. IInv
  BY InitIInv DEF IInit
<1>2. Listed = Boot
  BY DEF IInit, Init, Listed, Range, Boot
<1>3. FramesTyped
  BY DEF IInit, FramesTyped, Frames, Start
<1>4. FramesReady
  <2>1. ASSUME NEW t \in Boot PROVE saved[t] = Start(t)
    BY ProcessAssumption DEF IInit, Boot
  <2>2. \A t : /\ Start(t).of = t /\ Start(t).now = TRUE
               /\ Start(t).at = "program"
    BY DEF Start
  <2>3. \A t \in Boot : Ready(saved, t, pid)
    BY <2>1, <2>2 DEF Ready
  <2> QED BY <1>2, <2>3 DEF FramesReady
<1>5. RegistersKept /\ HelloPidGivenOut
  BY DEF IInit, Init, RegistersKept, HelloPidGivenOut, HelloPid
<1> QED BY <1>1, <1>3, <1>4, <1>5 DEF JInv, Kept

LEMMA TimerKeeps ==
  ASSUME JInv, ITimerIRQ
  PROVE  JInv'
<1>1. IInv'
  BY StepIInv DEF ITimerIRQ, Next
<1>2. Listed' = Listed /\ pid' = pid /\ HelloPidGivenOut'
  BY DEF ITimerIRQ, TimerIRQ, family, lists, Listed, JInv, Kept,
         HelloPidGivenOut
<1>3. current' = current \/ current' \in Listed'
  BY <1>2, TimerChooses DEF ITimerIRQ, TimerIRQ, JInv, IInv, TypeOK, Listed
<1> QED BY <1>1, <1>2, <1>3, EnterEffect, SwitchKeeps DEF ITimerIRQ

\* The child is the last task of the list.
LEMMA NewTaskIs ==
  ASSUME JInv, NEW t \in FreeTask, NEW p \in Nat \ {0}, NEW q, NEW r,
         CreateTask(t, p, q, r)
  PROVE  /\ NewTask = t /\ t \in Tasks /\ t \notin Listed
         /\ Listed' = Listed \cup {t}
         /\ taskList' \in Seq(Tasks)
         /\ pid' = [pid EXCEPT ![t] = p]
         /\ HelloPidGivenOut'
<1>1. /\ t \in Tasks /\ t \notin Listed /\ Listed' = Listed \cup {t}
      /\ taskList' \in Seq(Tasks)
  BY CreateTaskEffect DEF JInv, IInv, TypeOK, ListsTyped
<1>2. taskList \in Seq(Tasks) /\ nextPid \in Nat
  BY DEF JInv, IInv, TypeOK
<1>3. NewTask = t
  <2> DEFINE longer == Append(taskList, t)
  <2>1. taskList' = longer
    BY DEF CreateTask
  <2>2. Len(longer) = Len(taskList) + 1 /\ longer[Len(taskList) + 1] = t
    BY <1>1, <1>2, AppendProperties
  <2>3. NewTask = longer[Len(longer)]
    BY <2>1, Zenon DEF NewTask
  <2> HIDE DEF longer
  <2> QED BY <2>2, <2>3
<1>4. HelloPidGivenOut'
  BY <1>2 DEF CreateTask, HelloPidGivenOut, JInv, Kept, HelloPid
<1> QED BY <1>1, <1>3, <1>4 DEF CreateTask

LEMMA ForkKeeps ==
  ASSUME JInv, NEW t \in Tasks, IFork(t)
  PROVE  JInv'
<1>1. IInv'
  BY StepIInv DEF IFork, Next, Syscall
<1>2. t \in Listed /\ current = t
  BY CallerListed DEF IFork, Fork, JInv
<1>3. PICK child \in FreeTask :
        /\ CreateTask(child, nextPid, [ppid EXCEPT ![child] = pid[t]], t)
        /\ TimerInterrupt(taskList',
                          [state EXCEPT ![child] = "RUNNABLE", ![t] = "RUNNABLE"],
                          [sleepTime EXCEPT ![child] = 0], NULL, t)
  BY DEF IFork, Fork
<1>4. nextPid \in Nat /\ nextPid # 0 /\ nextPid # HelloPid
  BY DEF JInv, IInv, TypeOK, PidsGivenOut, Kept, HelloPidGivenOut, HelloPid
<1>5. /\ NewTask = child /\ child \in Tasks /\ child \notin Listed
      /\ Listed' = Listed \cup {child}
      /\ taskList' \in Seq(Tasks)
      /\ pid' = [pid EXCEPT ![child] = nextPid]
      /\ HelloPidGivenOut'
  BY <1>3, <1>4, NewTaskIs
<1> DEFINE f == [Enter EXCEPT ![child] =
                   [Enter[t] EXCEPT !.of = IF @ = t THEN child ELSE @]]
<1>6. /\ Enter \in [Tasks -> Frames] /\ Enter[t] \in Frames
      /\ \A u \in Listed : Ready(Enter, u, pid)
  BY EnterEffect
<1>7. [Enter[t] EXCEPT !.of = IF @ = t THEN child ELSE @] \in Frames
  BY <1>5, <1>6 DEF Frames
<1>8. f \in [Tasks -> Frames]
  BY <1>6, <1>7
<1>9. Ready(f, child, pid')
  <2>1. pid'[child] # HelloPid
    BY <1>4, <1>5 DEF JInv, IInv, TypeOK
  <2>2. Enter[t].of = t /\ Enter[t].now
    BY <1>2, <1>6 DEF Ready
  <2>3. f[child].of = child /\ f[child].now = Enter[t].now
    BY <1>5, <1>6, <2>2 DEF Frames
  <2> QED BY <2>1, <2>2, <2>3 DEF Ready
<1>10. \A u \in Listed : Ready(f, u, pid')
  <2>1. Listed \subseteq Tasks
    BY InRange DEF JInv, IInv, TypeOK, Listed
  <2>2. \A u \in Listed : f[u] = Enter[u] /\ pid'[u] = pid[u]
    BY <1>5, <1>6, <2>1 DEF JInv, IInv, TypeOK
  <2> HIDE DEF f
  <2> QED BY <1>6, <2>2 DEF Ready
<1>11. Switch(f, NULL)
  BY <1>5 DEF IFork
<1>12. current' = NULL \/ current' \in Listed'
  BY <1>3, <1>5, TimerChooses DEF Listed
<1> HIDE DEF f
<1> QED BY <1>1, <1>5, <1>8, <1>9, <1>10, <1>11, <1>12, SwitchKeeps

\* A call after which the caller is not current, and only the list and the
\* scheduler's variables changed.
LEMMA GiveUpKeeps ==
  ASSUME JInv, IInv', Listed' \subseteq Listed, pid' = pid,
         nextPid' = nextPid, NEW st, NEW slp, NEW pt,
         TimerInterrupt(taskList', st, slp, NULL, pt), Switch(Enter, NULL)
  PROVE  JInv'
<1>1. HelloPidGivenOut'
  BY DEF JInv, Kept, HelloPidGivenOut
<1>2. current' = NULL \/ current' \in Listed'
  BY TimerChooses DEF IInv, TypeOK, Listed
<1> QED BY <1>1, <1>2, EnterEffect, SwitchKeeps

LEMMA ExitKeeps ==
  ASSUME JInv, IInv', NEW t \in Listed, ExitTask(t), Switch(Enter, NULL)
  PROVE  JInv'
<1>1. Listed' = Listed \ {t} /\ pid' = pid /\ nextPid' = nextPid
  <2>1. FreeTaskStruct(t, ParentCount(t))
    BY DEF ExitTask
  <2>2. Listed' = Listed \ {t}
    BY <2>1, FreeTaskEffect DEF JInv, IInv, TypeOK, ListsTyped
  <2> QED BY <2>1, <2>2 DEF FreeTaskStruct
<1>2. TimerInterrupt(taskList', [ParentState(t) EXCEPT ![t] = "STOPPED"],
                     [sleepTime EXCEPT ![t] = 0], NULL, NULL)
  BY DEF ExitTask
<1> QED BY <1>1, <1>2, GiveUpKeeps

LEMMA BlockKeeps ==
  ASSUME JInv, NEW t \in Tasks, IBlock(t)
  PROVE  JInv'
<1>1. IInv'
  BY StepIInv DEF IBlock, Next, Syscall
<1>2. Switch(Enter, NULL)
  BY DEF IBlock
<1>3. CASE Exit(t)
  <2>1. t \in Listed
    BY <1>3, CallerListed DEF Exit, JInv
  <2> QED BY <1>1, <1>2, <1>3, <2>1, ExitKeeps DEF Exit
<1>4. ASSUME NEW p \in 1 .. nextPid - 1, Waitpid(t, p) PROVE JInv'
  <2>1. Listed' = Listed /\ pid' = pid /\ nextPid' = nextPid
        /\ TimerInterrupt(taskList', [state EXCEPT ![t] = "WAITING"],
                          sleepTime, NULL, t)
    BY <1>4 DEF Waitpid, lists, Listed
  <2> QED BY <1>1, <1>2, <2>1, GiveUpKeeps
<1>5. ASSUME NEW sec \in SleepArgs, Sleep(t, sec) PROVE JInv'
  <2>1. Listed' = Listed /\ pid' = pid /\ nextPid' = nextPid
        /\ TimerInterrupt(taskList', [state EXCEPT ![t] = "SLEEP"],
                          [sleepTime EXCEPT ![t] = (sec - 1) % Word], NULL, t)
    BY <1>5 DEF Sleep, family, lists, Listed
  <2> QED BY <1>1, <1>2, <2>1, GiveUpKeeps
<1> QED BY <1>3, <1>4, <1>5 DEF IBlock

LEMMA ExecveKeeps ==
  ASSUME JInv, NEW t \in Tasks, IExecve(t)
  PROVE  JInv'
<1>1. IInv'
  BY StepIInv DEF IExecve, Next, Syscall
<1>2. t \in Listed /\ current = t /\ current' = t
  BY CallerListed DEF IExecve, Execve, JInv
<1>3. PICK image \in FreeTask :
        CreateTask(image, pid[t],
                   [ppid EXCEPT ![image] = ppid[t], ![t] = 0], parent[t])
  BY DEF IExecve, Execve
<1>4. pid[t] \in Nat \ {0}
  BY <1>2 DEF JInv, IInv, TypeOK, ListsPartition
<1>5. /\ NewTask = image /\ image \in Tasks /\ image \notin Listed
      /\ Listed' = Listed \cup {image}
      /\ pid' = [pid EXCEPT ![image] = pid[t]]
      /\ HelloPidGivenOut'
  BY <1>3, <1>4, NewTaskIs
<1> DEFINE f == [Enter EXCEPT ![image] = Start(image)]
<1>6. /\ Enter \in [Tasks -> Frames]
      /\ \A u \in Listed : Ready(Enter, u, pid)
  BY EnterEffect
<1>7. f \in [Tasks -> Frames] /\ f[image] = Start(image)
  BY <1>5, <1>6 DEF Frames, Start
<1>8. Ready(f, image, pid')
  BY <1>7 DEF Ready, Start
<1>9. \A u \in Listed : Ready(f, u, pid')
  <2>1. Listed \subseteq Tasks
    BY InRange DEF JInv, IInv, TypeOK, Listed
  <2>2. \A u \in Listed : f[u] = Enter[u] /\ pid'[u] = pid[u]
    BY <1>5, <1>6, <2>1 DEF JInv, IInv, TypeOK
  <2> HIDE DEF f
  <2> QED BY <1>6, <2>2 DEF Ready
<1>10. ReturnTo(t, f, SystemCall) /\ UNCHANGED rsp0
  BY <1>5 DEF IExecve
<1> HIDE DEF f
<1> QED BY <1>1, <1>2, <1>5, <1>7, <1>8, <1>9, <1>10, BalancedStubs, ReturnKeeps

LEMMA KillKeeps ==
  ASSUME JInv, NEW t \in Tasks, IKill(t)
  PROVE  JInv'
<1>1. IInv'
  BY StepIInv DEF IKill, Next, Syscall
<1>2. PICK p \in 1 .. nextPid - 1 : Kill(t, p)
  BY DEF IKill
<1>3. t \in Listed /\ current = t /\ current' = t
  BY <1>2, CallerListed DEF Kill, JInv
<1>4. Listed' \subseteq Listed /\ pid' = pid /\ HelloPidGivenOut'
  <2>1. GetTask(p) \in Listed /\ FreeTaskStruct(GetTask(p), childCount)
    BY <1>2, FirstFound DEF Kill, GetTask, JInv, IInv, TypeOK, Listed
  <2>2. Listed' = Listed \ {GetTask(p)}
    BY <2>1, FreeTaskEffect DEF JInv, IInv, TypeOK, ListsTyped
  <2> QED BY <2>1, <2>2 DEF FreeTaskStruct, JInv, Kept, HelloPidGivenOut
<1>5. ReturnTo(t, Enter, SystemCall) /\ UNCHANGED rsp0
  BY DEF IKill
<1>6. /\ Enter \in [Tasks -> Frames]
      /\ \A u \in Listed' : Ready(Enter, u, pid')
      /\ Ready(Enter, t, pid')
  BY <1>3, <1>4, EnterEffect
<1> QED BY <1>1, <1>3, <1>4, <1>5, <1>6, BalancedStubs, ReturnKeeps

LEMMA ReturnsKeeps ==
  ASSUME JInv, NEW t \in Tasks, IReturn(t)
  PROVE  JInv'
<1>1. UNCHANGED vars /\ IInv'
  BY StepIInv DEF IReturn
<1>2. /\ current = t /\ current' = t /\ Listed' = Listed /\ pid' = pid
      /\ UNCHANGED rsp0 /\ HelloPidGivenOut'
  BY <1>1 DEF IReturn, vars, family, lists, clock, Listed, JInv, Kept,
              HelloPidGivenOut
<1>3. PICK n \in {SystemCall, PageFaults} : ReturnTo(t, Enter, n)
  BY DEF IReturn
<1>4. Balanced(n)
  BY BalancedStubs
<1>5. /\ Enter \in [Tasks -> Frames]
      /\ \A u \in Listed' : Ready(Enter, u, pid')
      /\ Ready(Enter, t, pid')
  BY <1>2, EnterEffect, ProcessAssumption
<1> QED BY <1>1, <1>2, <1>3, <1>4, <1>5, ReturnKeeps

\* No register moves.
LEMMA SameFramesKeep ==
  ASSUME JInv, IInv', UNCHANGED <<saved, rsp0, taskList, pid, nextPid, current>>,
         cpu' \in Frames, cpu'.of = cpu.of, cpu'.now = cpu.now,
         current # NULL /\ pid[current] = HelloPid => cpu' = cpu
  PROVE  JInv'
BY DEF JInv, Kept, FramesTyped, FramesReady, RegistersKept, HelloPidGivenOut,
       Ready, Listed

LEMMA PageFaultKeeps ==
  ASSUME JInv, NEW t \in Tasks, IPageFault(t)
  PROVE  JInv'
<1>1. IInv'
  BY StepIInv DEF IPageFault, Next
<1>2. CASE t \in Listed
  <2>1. ExitTask(t) /\ crashed' = crashed /\ ~crashed
    BY <1>2 DEF IPageFault, PageFault, ExitTask
  <2>2. Switch(Enter, NULL)
    BY <2>1 DEF IPageFault
  <2> QED BY <1>1, <1>2, <2>1, <2>2, ExitKeeps
<1>3. CASE t \notin Listed
  <2>1. UNCHANGED <<family, lists, clock, frames>>
    BY <1>3 DEF IPageFault, PageFault
  <2> QED BY <1>1, <2>1, SameFramesKeep
          DEF family, lists, clock, frames, JInv, Kept, FramesTyped
<1> QED BY <1>2, <1>3

LEMMA ExceptionKeeps ==
  ASSUME JInv, NEW t \in Tasks, IException(t)
  PROVE  JInv'
<1>1. UNCHANGED <<vars, saved, rsp0>> /\ IInv'
  BY StepIInv DEF IException
<1>2. PICK n \in Exceptions : cpu' = [cpu EXCEPT !.at = ReturnAt(n)]
  BY DEF IException
<1>3. cpu \in Frames /\ ReturnAt(n) \in {"program", "iretq", "halt"}
  BY DEF ReturnAt, JInv, Kept, FramesTyped
<1>4. cpu' \in Frames /\ cpu'.of = cpu.of /\ cpu'.now = cpu.now
  BY <1>2, <1>3 DEF Frames
<1> QED BY <1>1, <1>4, SameFramesKeep
        DEF IException, vars, family, lists, clock

LEMMA LostKeeps ==
  ASSUME JInv, NEW t \in Tasks, ILost(t)
  PROVE  JInv'
<1>1. IInv'
  BY StepIInv DEF ILost, Next, Syscall
<1>2. t \in Listed
  BY CallerListed DEF ILost, Exit, JInv
<1> QED BY <1>1, <1>2, ExitKeeps DEF ILost, Exit

\* Every handler, from its stub to the iretq, preserves it.
THEOREM NextJInv == JInv /\ [INext]_ivars => JInv'
<1> SUFFICES ASSUME JInv, [INext]_ivars PROVE JInv'
  OBVIOUS
<1>1. CASE UNCHANGED ivars
  <2>1. UNCHANGED vars /\ UNCHANGED frames /\ IInv'
    BY <1>1, StepIInv DEF ivars
  <2> QED BY <2>1, SameFramesKeep
          DEF vars, family, lists, clock, frames, JInv, Kept, FramesTyped
<1>2. CASE Halted
  BY <1>1, <1>2 DEF Halted
<1> QED BY <1>1, <1>2, TimerKeeps, ForkKeeps, BlockKeeps, ExecveKeeps,
           KillKeeps, ReturnsKeeps, PageFaultKeeps, ExceptionKeeps, LostKeeps
        DEF INext

-----------------------------------------------------------------------------
(* The theorems. *)

\* So frames and structs always hold the registers of the task they belong to.
THEOREM JInvHolds == ISpec => []JInv
BY InitJInv, NextJInv, PTL DEF ISpec

\* A program goes on with its own registers where it left the CPU, and its next
\* interrupt pushes on its own kernel stack.
THEOREM RegistersAreKept == ISpec => []RegistersKept
BY JInvHolds, PTL DEF JInv, Kept

\* The registers add nothing to what the processes do: every step is one of
\* Process or leaves its variables alone.
THEOREM InterruptsImplementProcess == ISpec => Spec
<1>1. IInit => Init
  BY DEF IInit
<1>2. [INext]_ivars => [Next]_vars
  BY DEF INext, ivars, Next, Syscall, ITimerIRQ, IFork, IBlock, IExecve, IKill,
         IReturn, IPageFault, IException, ILost, Halted
<1> QED BY <1>1, <1>2, PTL DEF ISpec, Spec

=============================================================================
