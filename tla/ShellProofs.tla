----------------------------- MODULE ShellProofs -----------------------------
(***************************************************************************)
(* Theorems about pipes and the shell, for every set of commands and every *)
(* program: redirections lead to pipes that the task has; the shell waits  *)
(* only while there is a child to wake it, and prompts only when there is  *)
(* none.                                                                   *)
(***************************************************************************)
EXTENDS KeyboardProofs, Shell

-----------------------------------------------------------------------------
(* What the calls of programs and pipes are to the process manager and to  *)
(* the keyboard.                                                           *)

LEMMA BufferedKept ==
  ASSUME KIInv, IInv', StillIn(inRead), UNCHANGED <<flag, waiter, want, typed>>
  PROVE  KIInv'
<1>1. Buffered'
  BY StillInTasks DEF KIInv, Buffered, LineFits, SlotSet
<1> QED BY <1>1 DEF KIInv

\* Any call that gives the CPU away.
LEMMA CallBlocks ==
  ASSUME IInv, NEW t \in Tasks, current = t, NEW b \in {"SLEEP", "WAITING"},
         NEW slp \in [Tasks -> Counter],
         TimerInterrupt(taskList, [state EXCEPT ![t] = b], slp, NULL, t),
         UNCHANGED <<family, lists, crashed>>
  PROVE  IInv'
<1> DEFINE st == [state EXCEPT ![t] = b]
<1>1. /\ st \in [Tasks -> States] /\ st[t] # "RUNNING"
      /\ \A u \in Tasks \ {t} : st[u] = state[u]
  BY DEF IInv, TypeOK, States
<1>2. /\ waitFor' \in [Tasks -> Nat]
      /\ UNCHANGED <<pid, ppid, parent, childCount, lists, crashed>>
  BY DEF family, IInv, TypeOK
<1> HIDE DEF st
<1>3. TimerInterrupt(taskList, st, slp, NULL, t)
  BY DEF st
<1> QED BY <1>1, <1>2, <1>3, BlockIInv

LEMMA SleepOneIInv ==
  ASSUME IInv, NEW t \in Tasks, Sleep(t, 1)
  PROVE  IInv'
<1> DEFINE slp == [sleepTime EXCEPT ![t] = (1 - 1) % Word]
<1>1. (1 - 1) % Word \in Counter
  BY ProcessAssumption DEF Counter
<1>2. slp \in [Tasks -> Counter]
  BY <1>1 DEF IInv, TypeOK
<1>3. current = t
  BY CallerListed DEF Sleep
<1>4. /\ TimerInterrupt(taskList, [state EXCEPT ![t] = "SLEEP"], slp, NULL, t)
      /\ UNCHANGED <<family, lists, crashed>>
  BY DEF Sleep
<1> HIDE DEF slp
<1> QED BY <1>2, <1>3, <1>4, CallBlocks

LEMMA BlockedKIInv ==
  ASSUME KIInv, NEW t \in Tasks, NEW n, ReadBlocked(t, n)
  PROVE  KIInv'
<1>1. IInv'
  <2>1. /\ IInv /\ current = t /\ sleepTime \in [Tasks -> Counter]
        /\ UNCHANGED <<family, lists, crashed>>
        /\ TimerInterrupt(taskList, [state EXCEPT ![t] = "WAITING"], sleepTime,
                          NULL, t)
    BY DEF ReadBlocked, AddToQueue, UserCode, KIInv, IInv, TypeOK
  <2> QED BY <2>1, CallBlocks
<1>2. StillIn(inRead) /\ UNCHANGED <<flag, waiter, want, typed>>
  BY DEF ReadBlocked
<1> QED BY <1>1, <1>2, BufferedKept

LEMMA WriteOutKIInv ==
  ASSUME KIInv, NEW t \in Tasks, NEW n, WriteOut(t, n)
  PROVE  KIInv'
<1>1. state' = state \/ \E q : state' = [state EXCEPT ![q] = "RUNNABLE"]
  BY DEF WriteOut, WakeUp
<1>2. /\ state' \in [Tasks -> States]
      /\ \A u \in Tasks : state'[u] = "RUNNING" => state[u] = "RUNNING"
  BY <1>1 DEF KIInv, IInv, TypeOK, States
<1>3. /\ crashed' \in BOOLEAN
      /\ UNCHANGED <<family, lists, sleepTime, current, cr3, ticks>>
      /\ StillIn(inRead) /\ UNCHANGED <<flag, waiter, want, typed>>
  BY DEF WriteOut, KIInv, IInv, TypeOK
<1>4. IInv'
  BY <1>2, <1>3, KeyIInv DEF KIInv
<1> QED BY <1>3, <1>4, BufferedKept

\* Standard input.
LEMMA ReadInKIInv ==
  ASSUME KIInv, NEW t \in Tasks, NEW n \in 1 .. Line, ReadIn(t, n)
  PROVE  KIInv'
<1>1. CASE ReadFlagged(t, n)
  BY <1>1, KStutter DEF ReadFlagged
<1>2. CASE ReadBlocked(t, n)
  BY <1>2, BlockedKIInv
<1>3. CASE Read(t, n)
  BY <1>3, ReadKIInv
<1> QED BY <1>1, <1>2, <1>3 DEF ReadIn

\* The calls of a program that are steps of Process.
ProcessCall(t) ==
  \/ Fork(t) \/ Execve(t) \/ Exit(t) \/ Sleep(t, 1)
  \/ \E p \in Nat : Waitpid(t, p)

LEMMA PipeStepKIInv ==
  ASSUME KIInv, NEW t, NEW u \in Tasks, PipeStep(t, TimerIRQ \/ ProcessCall(u))
  PROVE  KIInv'
<1>1. /\ TimerIRQ \/ ProcessCall(u)
      /\ StillIn(inRead) /\ UNCHANGED <<flag, waiter, want, typed>>
  BY DEF PipeStep
<1>2. IInv
  BY DEF KIInv
<1>3. CASE TimerIRQ \/ Fork(u) \/ Execve(u) \/ Exit(u)
  <2>1. Next
    BY <1>3 DEF Next, Syscall
  <2> QED BY <1>1, <1>2, <2>1, NextIInv, BufferedKept
<1>4. CASE Sleep(u, 1)
  BY <1>1, <1>2, <1>4, SleepOneIInv, BufferedKept
<1>5. ASSUME NEW p \in Nat, Waitpid(u, p) PROVE KIInv'
  BY <1>1, <1>2, <1>5, WaitpidIInv, BufferedKept
<1> QED BY <1>1, <1>3, <1>4, <1>5 DEF ProcessCall

-----------------------------------------------------------------------------
(* The tables of descriptors and redirections.                             *)

Fields == {"at", "command", "stage", "prev", "fd", "child", "rest"}
Entry  == [addr : Nat, offset : Int]

\* The program p of a task with the descriptors D and the redirections w and r
\* has what it will use next: the ends of its pipes while it builds a pipeline;
\* and what it may close is not both of its redirections, for close clears one.
Fits(p, D, w, r) ==
  /\ DOMAIN p = Fields /\ p.fd \in Nat /\ p.child \in Nat
  /\ p.at \in {"pipe", "fork", "input"} => p.prev \in D \cup {0}
  /\ p.at = "fork" => p.fd \in D
  /\ p.at \in {"fork", "input", "output"} => p.fd + 1 \in D
  /\ p.at = "image" => p.fd = 0 \/ p.fd # w \/ p.fd # r

TablesTyped ==
  /\ DOMAIN files = Tasks /\ DOMAIN prog = Tasks
  /\ \A t \in Tasks : \A fd \in DOMAIN files[t] :
       fd \in FirstFd .. fdCount - 1 /\ files[t][fd] \in Entry
  /\ writeFd \in [Tasks -> Nat] /\ readFd \in [Tasks -> Nat]
  /\ fdCount \in Nat /\ FirstFd <= fdCount
  /\ readQueue \in Tasks \cup {NULL} /\ asked \in Nat

Redirected ==
  /\ \A t \in Tasks : {writeFd[t], readFd[t]} \ {0} \subseteq DOMAIN files[t]
  /\ \A t, u \in Tasks : \A fd \in DOMAIN files[t] \cap DOMAIN files[u] :
       files[t][fd].addr = files[u][fd].addr
  /\ \A t \in Tasks : Fits(prog[t], DOMAIN files[t], writeFd[t], readFd[t])

PipeInv == KIInv /\ TablesTyped /\ Redirected

\* A task that is on no list has neither descriptors nor redirections.
LEMMA NoneFits == DOMAIN None = {} /\ Fits(Gone, DOMAIN None, 0, 0)
BY DEF None, Gone, Fits, Fields

\* fork, execve and exit: tables are copied and cleared, never changed.
LEMMA InheritStep ==
  ASSUME TablesTyped, Redirected,
         NEW t \in Tasks, t \in Listed, Listed' \subseteq Tasks,
         files' = Inherited(files, t, None),
         writeFd' = Inherited(writeFd, t, 0),
         readFd' = Inherited(readFd, t, 0),
         UNCHANGED <<fdCount, readQueue, asked>>,
         NEW mine, NEW its, GoOn(t, mine, its),
         t \in Listed' => Fits(mine, DOMAIN files[t], writeFd[t], readFd[t]),
         Listed' \ Listed # {}
           => Fits(its, DOMAIN files[t], writeFd[t], readFd[t])
  PROVE  TablesTyped' /\ Redirected'
<1> DEFINE new == Listed' \ Listed
           old == Listed \ Listed'
<1>1. /\ \A u \in new : /\ files'[u] = files[t] /\ writeFd'[u] = writeFd[t]
                        /\ readFd'[u] = readFd[t] /\ prog'[u] = its
      /\ \A u \in Tasks \cap old : /\ files'[u] = None /\ writeFd'[u] = 0
                                   /\ readFd'[u] = 0 /\ prog'[u] = Gone
      /\ \A u \in Tasks \ (new \cup old) :
           /\ files'[u] = files[u] /\ writeFd'[u] = writeFd[u]
           /\ readFd'[u] = readFd[u]
           /\ prog'[u] = IF u = t THEN mine ELSE prog[u]
  BY DEF Inherited, GoOn
<1>2. /\ DOMAIN files' = Tasks /\ DOMAIN prog' = Tasks
      /\ writeFd' \in [Tasks -> Nat] /\ readFd' \in [Tasks -> Nat]
  BY DEF Inherited, GoOn, TablesTyped
<1> HIDE DEF new, old
<1>3. \A u \in Tasks :
        \/ \E v \in Tasks : /\ files'[u] = files[v] /\ writeFd'[u] = writeFd[v]
                            /\ readFd'[u] = readFd[v]
        \/ files'[u] = None /\ writeFd'[u] = 0 /\ readFd'[u] = 0
  BY <1>1
<1>4. \A u \in Tasks : \A fd \in DOMAIN files'[u] :
        \E v \in Tasks : fd \in DOMAIN files[v] /\ files'[u][fd] = files[v][fd]
  BY <1>3, NoneFits
<1>5. TablesTyped'
  BY <1>2, <1>4 DEF TablesTyped
<1>6. \A u \in Tasks : {writeFd'[u], readFd'[u]} \ {0} \subseteq DOMAIN files'[u]
  BY <1>3 DEF Redirected
<1>7. \A u, v \in Tasks : \A fd \in DOMAIN files'[u] \cap DOMAIN files'[v] :
        files'[u][fd].addr = files'[v][fd].addr
  BY <1>4 DEF Redirected
<1>8. ASSUME NEW u \in Tasks
      PROVE  Fits(prog'[u], DOMAIN files'[u], writeFd'[u], readFd'[u])
  <2>1. CASE u \in new
    BY <1>1, <2>1 DEF new
  <2>2. CASE u \in old
    BY <1>1, <2>2, NoneFits
  <2>3. CASE u \notin new \cup old /\ u = t
    BY <1>1, <2>3 DEF old
  <2>4. CASE u \notin new \cup old /\ u # t
    BY <1>1, <2>4 DEF Redirected
  <2> QED BY <2>1, <2>2, <2>3, <2>4
<1>9. Redirected'
  BY <1>6, <1>7, <1>8 DEF Redirected
<1> QED BY <1>5, <1>9

\* A step in which one task changes its tables at most.
LEMMA TableStep ==
  ASSUME TablesTyped, Redirected, NEW t \in Tasks,
         TablesTyped',
         fdCount <= fdCount',
         \A u \in Tasks \ {t} :
           /\ DOMAIN files'[u] = DOMAIN files[u] /\ prog'[u] = prog[u]
           /\ writeFd'[u] = writeFd[u] /\ readFd'[u] = readFd[u],
         \A u \in Tasks : \A fd \in DOMAIN files[u] \cap DOMAIN files'[u] :
           files'[u][fd].addr = files[u][fd].addr,
         \A fd \in DOMAIN files'[t] \ DOMAIN files[t] : fd >= fdCount,
         {writeFd'[t], readFd'[t]} \ {0} \subseteq DOMAIN files'[t],
         Fits(prog'[t], DOMAIN files'[t], writeFd'[t], readFd'[t])
  PROVE  Redirected'
<1>1. \A u \in Tasks : {writeFd'[u], readFd'[u]} \ {0} \subseteq DOMAIN files'[u]
  BY DEF Redirected
<1>2. \A u \in Tasks : Fits(prog'[u], DOMAIN files'[u], writeFd'[u], readFd'[u])
  BY DEF Redirected
<1>3. \A u, v \in Tasks : \A fd \in DOMAIN files'[u] \cap DOMAIN files'[v] :
        files'[u][fd].addr = files'[v][fd].addr
  <2> SUFFICES ASSUME NEW u \in Tasks, NEW v \in Tasks,
                      NEW fd \in DOMAIN files'[u] \cap DOMAIN files'[v]
               PROVE  files'[u][fd].addr = files'[v][fd].addr
    OBVIOUS
  <2>1. CASE fd \in DOMAIN files[u] /\ fd \in DOMAIN files[v]
    BY <2>1 DEF Redirected
  <2>2. CASE u = v
    BY <2>2
  <2>3. CASE ~(fd \in DOMAIN files[u] /\ fd \in DOMAIN files[v]) /\ u # v
    <3>1. fd >= fdCount /\ (u # t \/ v # t)
      BY <2>3
    <3>2. \A w \in Tasks : fd \in DOMAIN files[w] => fd < fdCount
      BY DEF TablesTyped
    <3>3. fd \in DOMAIN files[u] \/ fd \in DOMAIN files[v]
      BY <2>3
    <3> QED BY <3>1, <3>2, <3>3 DEF TablesTyped
  <2> QED BY <2>1, <2>2, <2>3
<1> QED BY <1>1, <1>2, <1>3 DEF Redirected

-----------------------------------------------------------------------------
(* The calls on descriptors. *)

\* The offsets of f may be others than those of the files.
FilesLike(f) ==
  /\ DOMAIN f = Tasks
  /\ \A t \in Tasks : DOMAIN f[t] = DOMAIN files[t]
  /\ \A t \in Tasks : \A fd \in DOMAIN files[t] :
       f[t][fd] \in Entry /\ f[t][fd].addr = files[t][fd].addr

LEMMA AdvancedLike ==
  ASSUME NEW f, FilesLike(f), NEW t \in Tasks, NEW fd, NEW n \in Nat
  PROVE  FilesLike(Advanced(f, t, fd, n))
<1>1. CASE ~IsPipe(t, fd)
  BY <1>1 DEF Advanced
<1>2. CASE IsPipe(t, fd)
  <2> DEFINE e == [f[t][fd] EXCEPT !.offset = @ + n]
             d == [f[t] EXCEPT ![fd] = e]
             g == [f EXCEPT ![t] = d]
  <2>1. f[t][fd] \in Entry /\ f[t][fd].addr = files[t][fd].addr
    BY <1>2 DEF IsPipe, FilesLike
  <2>2. e \in Entry /\ e.addr = files[t][fd].addr
    BY <2>1 DEF Entry
  <2>3. Advanced(f, t, fd, n) = g
    BY <1>2 DEF Advanced
  <2> HIDE DEF e
  <2>4. /\ DOMAIN d = DOMAIN f[t] /\ d[fd] = e
        /\ \A h \in DOMAIN f[t] \ {fd} : d[h] = f[t][h]
    BY <1>2 DEF FilesLike, IsPipe
  <2> HIDE DEF d
  <2>5. DOMAIN g = Tasks /\ g[t] = d /\ \A u \in Tasks \ {t} : g[u] = f[u]
    BY DEF FilesLike
  <2> HIDE DEF g
  <2>6. FilesLike(g)
    BY <2>2, <2>4, <2>5 DEF FilesLike
  <2> QED BY <2>3, <2>6
<1> QED BY <1>1, <1>2

LEMMA FilesAreLike == TablesTyped => FilesLike(files)
BY DEF TablesTyped, FilesLike

\* A step of t that moves offsets at most.
LEMMA OffsetStep ==
  ASSUME TablesTyped, Redirected, FilesLike(files'), NEW t \in Tasks,
         UNCHANGED <<writeFd, readFd, fdCount>>,
         readQueue' \in Tasks \cup {NULL}, asked' \in Nat,
         DOMAIN prog' = Tasks, \A u \in Tasks \ {t} : prog'[u] = prog[u],
         Fits(prog'[t], DOMAIN files[t], writeFd[t], readFd[t])
  PROVE  TablesTyped' /\ Redirected'
<1>1. TablesTyped'
  BY DEF TablesTyped, FilesLike
<1>2. \A u \in Tasks : DOMAIN files'[u] = DOMAIN files[u]
  BY DEF FilesLike
<1>3. \A u \in Tasks : \A fd \in DOMAIN files[u] :
        files'[u][fd].addr = files[u][fd].addr
  BY DEF FilesLike
<1>4. {writeFd'[t], readFd'[t]} \ {0} \subseteq DOMAIN files'[t]
  BY <1>2 DEF Redirected
<1>5. fdCount <= fdCount'
  BY DEF TablesTyped
<1> QED BY <1>1, <1>2, <1>3, <1>4, <1>5, TableStep

\* The program of the task that makes the step, and of the others.
LEMMA OnlyMine ==
  ASSUME NEW t \in Tasks, NEW mine, NEW its, GoOn(t, mine, its),
         Listed' = Listed
  PROVE  /\ DOMAIN prog' = Tasks /\ prog'[t] = mine
         /\ \A u \in Tasks \ {t} : prog'[u] = prog[u]
BY DEF GoOn

LEMMA AddPipeEffect ==
  ASSUME NEW f, DOMAIN f = Tasks, NEW t \in Tasks, NEW fd, NEW addr
  PROVE  LET g == AddPipe(f, t, fd, addr) IN
         /\ DOMAIN g = Tasks
         /\ \A u \in Tasks \ {t} : g[u] = f[u]
         /\ DOMAIN g[t] = DOMAIN f[t] \cup {fd}
         /\ \A h \in DOMAIN f[t] : h # fd => g[t][h] = f[t][h]
         /\ g[t][fd] = [addr |-> addr, offset |-> 0]
BY DEF AddPipe

LEMMA SystemPipeTables ==
  ASSUME TablesTyped, Redirected, NEW t \in Tasks, SystemPipe(t),
         DOMAIN prog' = Tasks, \A u \in Tasks \ {t} : prog'[u] = prog[u],
         Fits(prog'[t], DOMAIN files[t] \cup {fdCount, fdCount + 1},
              writeFd[t], readFd[t])
  PROVE  TablesTyped' /\ Redirected'
<1> DEFINE new == {fdCount, fdCount + 1}
<1>1. fdCount \in Nat /\ fdCount >= FirstFd /\ FirstFd \in Nat
  BY PipeAssumption DEF TablesTyped
<1>2. PICK f : /\ f = AddPipe(files, t, fdCount, fdCount)
               /\ files' = AddPipe(f, t, fdCount + 1, fdCount)
  BY DEF SystemPipe
<1>3. /\ DOMAIN files' = Tasks
      /\ \A u \in Tasks \ {t} : files'[u] = files[u]
      /\ DOMAIN files'[t] = DOMAIN files[t] \cup new
      /\ \A fd \in DOMAIN files[t] : files'[t][fd] = files[t][fd]
      /\ \A fd \in new : files'[t][fd] = [addr |-> fdCount, offset |-> 0]
  <2>1. /\ DOMAIN f = Tasks
        /\ \A u \in Tasks \ {t} : f[u] = files[u]
        /\ DOMAIN f[t] = DOMAIN files[t] \cup {fdCount}
        /\ \A h \in DOMAIN files[t] : h # fdCount => f[t][h] = files[t][h]
        /\ f[t][fdCount] = [addr |-> fdCount, offset |-> 0]
    BY <1>2, AddPipeEffect DEF TablesTyped
  <2>2. /\ DOMAIN files' = Tasks
        /\ \A u \in Tasks \ {t} : files'[u] = f[u]
        /\ DOMAIN files'[t] = DOMAIN f[t] \cup {fdCount + 1}
        /\ \A h \in DOMAIN f[t] : h # fdCount + 1 => files'[t][h] = f[t][h]
        /\ files'[t][fdCount + 1] = [addr |-> fdCount, offset |-> 0]
    BY <1>2, <2>1, AddPipeEffect
  <2>3. fdCount + 1 # fdCount /\ \A fd \in DOMAIN files[t] : fd < fdCount
    BY <1>1 DEF TablesTyped
  <2>4. \A fd \in DOMAIN files[t] : fd # fdCount /\ fd # fdCount + 1
    BY <1>1, <2>3
  <2> QED BY <2>1, <2>2, <2>3, <2>4
<1>4. [addr |-> fdCount, offset |-> 0] \in Entry
  BY <1>1 DEF Entry
<1>5. /\ fdCount' = fdCount + 2
      /\ UNCHANGED <<writeFd, readFd, readQueue, asked>>
  BY DEF SystemPipe
<1> HIDE DEF new
<1>6. \A fd \in new : fd \in FirstFd .. fdCount' - 1 /\ fd >= fdCount
  BY <1>1, <1>5 DEF new
<1>7. TablesTyped'
  <2>1. ASSUME NEW u \in Tasks, NEW fd \in DOMAIN files'[u]
        PROVE  fd \in FirstFd .. fdCount' - 1 /\ files'[u][fd] \in Entry
    <3>1. CASE fd \in DOMAIN files[u]
      <4>1. files'[u][fd] = files[u][fd]
        BY <1>3, <3>1
      <4>2. fd \in FirstFd .. fdCount - 1 /\ files[u][fd] \in Entry
        BY <3>1 DEF TablesTyped
      <4> QED BY <1>1, <1>5, <4>1, <4>2
    <3>2. CASE fd \notin DOMAIN files[u]
      BY <1>3, <1>4, <1>6, <2>1, <3>2
    <3> QED BY <3>1, <3>2
  <2> QED BY <1>1, <1>3, <1>5, <2>1 DEF TablesTyped
<1>8. \A u \in Tasks : \A fd \in DOMAIN files[u] \cap DOMAIN files'[u] :
        files'[u][fd].addr = files[u][fd].addr
  BY <1>3
<1>9. /\ {writeFd'[t], readFd'[t]} \ {0} \subseteq DOMAIN files'[t]
      /\ fdCount <= fdCount'
      /\ \A fd \in DOMAIN files'[t] \ DOMAIN files[t] : fd >= fdCount
  BY <1>1, <1>3, <1>5, <1>6 DEF Redirected
<1>10. Fits(prog'[t], DOMAIN files'[t], writeFd'[t], readFd'[t])
  BY <1>3, <1>5 DEF new
<1> QED BY <1>3, <1>5, <1>7, <1>8, <1>9, <1>10, TableStep

LEMMA Dup2Tables ==
  ASSUME TablesTyped, Redirected, NEW t \in Tasks, NEW dst, NEW src,
         dst \in DOMAIN files[t] \cup {0}, Dup2(t, dst, src),
         DOMAIN prog' = Tasks, \A u \in Tasks \ {t} : prog'[u] = prog[u],
         Fits(prog'[t], DOMAIN files[t], writeFd'[t], readFd'[t])
  PROVE  TablesTyped' /\ Redirected'
<1>1. /\ UNCHANGED <<files, fdCount, readQueue, asked>>
      /\ writeFd' = IF src = 1 THEN [writeFd EXCEPT ![t] = dst] ELSE writeFd
      /\ readFd' = IF src = 0 THEN [readFd EXCEPT ![t] = dst] ELSE readFd
  BY DEF Dup2
<1>2. dst \in Nat
  BY PipeAssumption DEF TablesTyped
<1>3. writeFd' \in [Tasks -> Nat] /\ readFd' \in [Tasks -> Nat]
  BY <1>1, <1>2 DEF TablesTyped
<1>4. TablesTyped'
  BY <1>1, <1>3 DEF TablesTyped
<1>5. \A u \in Tasks \ {t} : writeFd'[u] = writeFd[u] /\ readFd'[u] = readFd[u]
  BY <1>1 DEF TablesTyped
<1>6. writeFd'[t] \in {dst, writeFd[t]} /\ readFd'[t] \in {dst, readFd[t]}
  BY <1>1 DEF TablesTyped
<1>7. {writeFd'[t], readFd'[t]} \ {0} \subseteq DOMAIN files'[t]
  BY <1>1, <1>6 DEF Redirected
<1>8. fdCount <= fdCount'
  BY <1>1 DEF TablesTyped
<1> QED BY <1>1, <1>4, <1>5, <1>7, <1>8, TableStep

\* close clears one redirection to the descriptor, never both: the program has
\* it as one of them at most.
LEMMA CloseTables ==
  ASSUME TablesTyped, Redirected, NEW t \in Tasks, NEW fd, Close(t, fd),
         fd = 0 \/ fd # writeFd[t] \/ fd # readFd[t],
         DOMAIN prog' = Tasks, \A u \in Tasks \ {t} : prog'[u] = prog[u],
         Fits(prog'[t], DOMAIN files[t] \ {fd}, writeFd'[t], readFd'[t])
  PROVE  TablesTyped' /\ Redirected'
<1>1. fd # 0 /\ fd \in DOMAIN files[t]
  BY PipeAssumption DEF TablesTyped, Close, IsPipe
<1>2. /\ DOMAIN files' = Tasks
      /\ \A u \in Tasks \ {t} : files'[u] = files[u]
      /\ files'[t] = [g \in DOMAIN files[t] \ {fd} |-> files[t][g]]
  BY DEF Close, RemovePipe, TablesTyped
<1>3. /\ DOMAIN files'[t] = DOMAIN files[t] \ {fd}
      /\ \A g \in DOMAIN files[t] \ {fd} : files'[t][g] = files[t][g]
  BY <1>2
<1>4. /\ UNCHANGED <<fdCount, readQueue, asked>>
      /\ writeFd' = IF writeFd[t] = fd THEN [writeFd EXCEPT ![t] = 0] ELSE writeFd
      /\ readFd' = IF readFd[t] = fd /\ writeFd[t] # fd
                   THEN [readFd EXCEPT ![t] = 0] ELSE readFd
  BY DEF Close
<1>5. /\ writeFd' \in [Tasks -> Nat] /\ readFd' \in [Tasks -> Nat]
      /\ \A u \in Tasks \ {t} : writeFd'[u] = writeFd[u] /\ readFd'[u] = readFd[u]
  BY <1>4 DEF TablesTyped
<1>6. /\ writeFd'[t] \in {0, writeFd[t]} \ {fd}
      /\ readFd'[t] \in {0, readFd[t]} \ {fd}
  BY <1>1, <1>4 DEF TablesTyped
<1>7. TablesTyped'
  BY <1>2, <1>3, <1>4, <1>5 DEF TablesTyped
<1>8. {writeFd'[t], readFd'[t]} \ {0} \subseteq DOMAIN files'[t]
  BY <1>3, <1>6 DEF Redirected
<1>9. /\ fdCount <= fdCount'
      /\ \A u \in Tasks : \A g \in DOMAIN files[u] \cap DOMAIN files'[u] :
           files'[u][g].addr = files[u][g].addr
  BY <1>2, <1>3, <1>4 DEF TablesTyped
<1>10. Fits(prog'[t], DOMAIN files'[t], writeFd'[t], readFd'[t])
  BY <1>3
<1>11. \A g \in DOMAIN files'[t] \ DOMAIN files[t] : g >= fdCount
  BY <1>3
<1> QED BY <1>2, <1>5, <1>7, <1>8, <1>9, <1>10, <1>11, TableStep

LEMMA WriteOutLike ==
  ASSUME TablesTyped, NEW t \in Tasks, NEW n \in Nat, WriteOut(t, n)
  PROVE  /\ FilesLike(files') /\ Listed' = Listed
         /\ UNCHANGED <<writeFd, readFd, fdCount, readQueue, asked>>
<1> DEFINE f == Advanced(files, t, writeFd[t], n)
<1>1. FilesLike(files) /\ FilesLike(f)
  BY FilesAreLike, AdvancedLike
<1>2. asked \in Nat /\ readQueue \in Tasks \cup {NULL}
  BY DEF TablesTyped
<1> HIDE DEF f
<1>3. readQueue # NULL => FilesLike(Advanced(f, readQueue, readFd[readQueue], asked))
  BY <1>1, <1>2, AdvancedLike
<1>4. files' = files \/ WakeUp(f)
  BY DEF WriteOut, f
<1>5. FilesLike(files')
  BY <1>1, <1>3, <1>4 DEF WakeUp
<1> QED BY <1>5 DEF WriteOut, lists, Listed

LEMMA ReadInLike ==
  ASSUME TablesTyped, NEW t \in Tasks, NEW n \in Nat, ReadIn(t, n)
  PROVE  /\ FilesLike(files') /\ Listed' = Listed
         /\ UNCHANGED <<writeFd, readFd, fdCount>>
         /\ readQueue' \in Tasks \cup {NULL} /\ asked' \in Nat
<1>1. FilesLike(files) /\ FilesLike(Advanced(files, t, readFd[t], n))
  BY FilesAreLike, AdvancedLike
<1>2. asked \in Nat /\ readQueue \in Tasks \cup {NULL}
  BY DEF TablesTyped
<1>3. CASE ReadFlagged(t, n)
  BY <1>1, <1>2, <1>3 DEF ReadFlagged, kvars, vars, lists, Listed
<1>4. CASE ReadBlocked(t, n)
  BY <1>1, <1>4 DEF ReadBlocked, AddToQueue, tables, lists, Listed
<1>5. CASE Read(t, n) /\ UNCHANGED pipes
  BY <1>1, <1>2, <1>5 DEF Read, pipes, tables, lists, Listed
<1> QED BY <1>3, <1>4, <1>5 DEF ReadIn

-----------------------------------------------------------------------------
(* The steps of programs. *)

LEMMA GoneFits == ASSUME NEW D, NEW w, NEW r PROVE Fits(Gone, D, w, r)
BY DEF Gone, Fits, Fields

\* The fields that Fits looks at, of the program of t as it goes on.
LEMMA GoToKeeps ==
  ASSUME NEW t, NEW label, DOMAIN prog[t] = Fields
  PROVE  /\ DOMAIN GoTo(t, label) = Fields /\ GoTo(t, label).at = label
         /\ GoTo(t, label).fd = prog[t].fd
         /\ GoTo(t, label).prev = prog[t].prev
         /\ GoTo(t, label).child = prog[t].child
BY DEF GoTo, Fields

\* Labels at which a program has nothing of a pipeline.
Outside == {"none", "prompt", "typed", "wait", "exec", "exit", "sleep"}

LEMMA OutsideFits ==
  ASSUME NEW t, NEW label \in Outside, NEW D, NEW w, NEW r,
         Fits(prog[t], DOMAIN files[t], writeFd[t], readFd[t])
  PROVE  Fits(GoTo(t, label), D, w, r)
BY GoToKeeps DEF Fits, Outside

\* A call of the process manager.
LEMMA ProcessStepPipeInv ==
  ASSUME PipeInv, NEW t \in Tasks, PipeStep(t, ProcessCall(t)),
         NEW mine, NEW its, GoOn(t, mine, its),
         Fits(mine, DOMAIN files[t], writeFd[t], readFd[t]),
         Fits(its, DOMAIN files[t], writeFd[t], readFd[t])
  PROVE  PipeInv'
<1>1. KIInv'
  BY PipeStepKIInv DEF PipeInv, PipeStep
<1>2. t \in Listed
  BY CallerListed
     DEF PipeStep, ProcessCall, Fork, Execve, Exit, Sleep, Waitpid, PipeInv, KIInv
<1>3. Listed' \subseteq Tasks
  BY <1>1, InRange DEF KIInv, IInv, TypeOK, Listed
<1>4. /\ files' = Inherited(files, t, None)
      /\ writeFd' = Inherited(writeFd, t, 0)
      /\ readFd' = Inherited(readFd, t, 0)
      /\ UNCHANGED <<fdCount, readQueue, asked>>
  BY DEF PipeStep
<1> QED BY <1>1, <1>2, <1>3, <1>4, InheritStep DEF PipeInv

\* A call that creates no task and moves offsets at most.
LEMMA OffsetStepPipeInv ==
  ASSUME PipeInv, KIInv', FilesLike(files'), Listed' = Listed, NEW t \in Tasks,
         UNCHANGED <<writeFd, readFd, fdCount>>,
         readQueue' \in Tasks \cup {NULL}, asked' \in Nat,
         NEW mine, NEW its, GoOn(t, mine, its),
         Fits(mine, DOMAIN files[t], writeFd[t], readFd[t])
  PROVE  PipeInv'
<1>1. /\ DOMAIN prog' = Tasks /\ prog'[t] = mine
      /\ \A u \in Tasks \ {t} : prog'[u] = prog[u]
  BY OnlyMine
<1> QED BY <1>1, OffsetStep DEF PipeInv

LEMMA QuietKernel ==
  ASSUME PipeInv, UNCHANGED kvars PROVE KIInv' /\ Listed' = Listed
BY KStutter DEF PipeInv, kvars, vars, lists, Listed

LEMMA PipeInvHas ==
  ASSUME PipeInv, NEW t \in Tasks
  PROVE  /\ TablesTyped /\ Redirected /\ KIInv /\ nextPid \in Nat
         /\ Fits(prog[t], DOMAIN files[t], writeFd[t], readFd[t])
         /\ DOMAIN prog[t] = Fields
BY DEF PipeInv, Redirected, KIInv, IInv, TypeOK, Fits

LEMMA ShellPipeInv ==
  ASSUME PipeInv, NEW t \in Tasks,
         ReadInput(t) \/ (\E c \in Commands : Run(t, c)) \/ Wait(t)
  PROVE  PipeInv'
<1> DEFINE MayBe(p) == Fits(p, DOMAIN files[t], writeFd[t], readFd[t])
<1>1. /\ TablesTyped /\ KIInv /\ nextPid \in Nat /\ MayBe(prog[t])
      /\ DOMAIN prog[t] = Fields
  BY PipeInvHas
<1>2. CASE ReadInput(t)
  <2>1. ReadIn(t, 1) /\ GoOn(t, GoTo(t, "typed"), Gone)
    BY <1>2 DEF ReadInput
  <2>2. 1 \in 1 .. Line /\ 1 \in Nat
    BY KeyboardAssumption
  <2>3. KIInv'
    BY <1>1, <2>1, <2>2, ReadInKIInv
  <2>4. /\ FilesLike(files') /\ Listed' = Listed
        /\ UNCHANGED <<writeFd, readFd, fdCount>>
        /\ readQueue' \in Tasks \cup {NULL} /\ asked' \in Nat
    BY <1>1, <2>1, <2>2, ReadInLike
  <2>5. MayBe(GoTo(t, "typed"))
    BY <1>1, OutsideFits DEF Outside
  <2> QED BY <2>1, <2>3, <2>4, <2>5, OffsetStepPipeInv
<1>3. ASSUME NEW c \in Commands, Run(t, c) PROVE PipeInv'
  <2> DEFINE mine == [prog[t] EXCEPT !.at = IF Waits(c) THEN "wait" ELSE "prompt",
                                     !.command = c, !.child = nextPid]
             its == [Gone EXCEPT !.at = IF Len(c.progs) > 1 THEN "pipe" ELSE "exec",
                                 !.command = c]
  <2>1. PipeStep(t, ProcessCall(t)) /\ GoOn(t, mine, its)
    BY <1>3 DEF Run, PipeStep, ProcessCall
  <2>2. /\ DOMAIN mine = Fields /\ mine.fd = prog[t].fd /\ mine.child = nextPid
        /\ mine.at \in {"wait", "prompt"}
    BY <1>1 DEF Fields
  <2>3. /\ DOMAIN its = Fields /\ its.fd = 0 /\ its.child = 0 /\ its.prev = 0
        /\ its.at \in {"pipe", "exec"}
    BY DEF Gone, Fields
  <2> HIDE DEF mine, its
  <2>4. MayBe(mine) /\ MayBe(its)
    BY <1>1, <2>2, <2>3 DEF Fits
  <2> QED BY <2>1, <2>4, ProcessStepPipeInv
<1>4. CASE Wait(t)
  <2>1. GoOn(t, GoTo(t, "prompt"), Gone)
    BY <1>4 DEF Wait
  <2>2. MayBe(GoTo(t, "prompt")) /\ MayBe(Gone)
    BY <1>1, OutsideFits, GoneFits DEF Outside
  <2>3. CASE PipeStep(t, Waitpid(t, prog[t].child))
    <3>1. prog[t].child \in Nat
      BY <1>1 DEF Fits
    <3>2. PipeStep(t, ProcessCall(t))
      BY <2>3, <3>1 DEF PipeStep, ProcessCall
    <3> QED BY <2>1, <2>2, <3>2, ProcessStepPipeInv
  <2>4. CASE UNCHANGED pvars
    <3>1. UNCHANGED <<kvars, writeFd, readFd, fdCount, files, readQueue, asked>>
      BY <2>4 DEF pvars, pipes, tables
    <3>2. FilesLike(files') /\ readQueue' \in Tasks \cup {NULL} /\ asked' \in Nat
      BY <1>1, <3>1, FilesAreLike DEF TablesTyped
    <3> QED BY <2>1, <2>2, <3>1, <3>2, QuietKernel, OffsetStepPipeInv
  <2> QED BY <1>4, <2>3, <2>4 DEF Wait
<1> QED BY <1>2, <1>3, <1>4

LEMMA PipelinePipeInv ==
  ASSUME PipeInv, NEW t \in Tasks,
         \/ MakePipe(t) \/ ForkStage(t) \/ RedirectInput(t) \/ RedirectOutput(t)
         \/ SleepOne(t) \/ Exec(t) \/ Leave(t)
  PROVE  PipeInv'
<1> DEFINE D == DOMAIN files[t]
           MayBe(p) == Fits(p, D, writeFd[t], readFd[t])
<1>1. /\ TablesTyped /\ Redirected /\ KIInv /\ MayBe(prog[t])
      /\ DOMAIN prog[t] = Fields
  BY PipeInvHas
<1>2. CASE MakePipe(t)
  <2> DEFINE mine == [GoTo(t, "fork") EXCEPT !.fd = fdCount]
  <2>1. /\ At(t, "pipe") /\ SystemPipe(t) /\ UNCHANGED kvars
        /\ GoOn(t, mine, Gone)
    BY <1>2 DEF MakePipe, SystemPipe
  <2>2. KIInv' /\ Listed' = Listed
    BY <2>1, QuietKernel
  <2>3. /\ DOMAIN prog' = Tasks /\ prog'[t] = mine
        /\ \A u \in Tasks \ {t} : prog'[u] = prog[u]
    BY <2>1, <2>2, OnlyMine
  <2>4. /\ DOMAIN mine = Fields /\ mine.fd = fdCount
        /\ mine.prev = prog[t].prev /\ mine.child = prog[t].child
        /\ mine.at = "fork"
    BY <1>1, GoToKeeps DEF Fields
  <2> HIDE DEF mine
  <2>5. prog[t].prev \in D \cup {0} /\ fdCount \in Nat
    BY <1>1, <2>1 DEF At, Fits, TablesTyped
  <2>6. Fits(mine, D \cup {fdCount, fdCount + 1}, writeFd[t], readFd[t])
    BY <1>1, <2>4, <2>5 DEF Fits
  <2>7. TablesTyped' /\ Redirected'
    BY <1>1, <2>1, <2>3, <2>6, SystemPipeTables
  <2> QED BY <2>2, <2>7 DEF PipeInv
<1>3. CASE ForkStage(t)
  <2> DEFINE mine == [prog[t] EXCEPT
                        !.at = IF prog[t].stage + 1 < Stages(t)
                               THEN "pipe" ELSE "input",
                        !.prev = prog[t].fd, !.stage = @ + 1]
             its == GoTo(t, IF prog[t].prev # 0 THEN "input" ELSE "output")
  <2>1. At(t, "fork") /\ PipeStep(t, ProcessCall(t)) /\ GoOn(t, mine, its)
    BY <1>3 DEF ForkStage, PipeStep, ProcessCall
  <2>2. /\ prog[t].prev \in D \cup {0} /\ prog[t].fd \in D
        /\ prog[t].fd + 1 \in D /\ prog[t].child \in Nat /\ prog[t].fd \in Nat
    BY <1>1, <2>1 DEF At, Fits
  <2>3. /\ DOMAIN mine = Fields /\ mine.fd = prog[t].fd
        /\ mine.prev = prog[t].fd /\ mine.child = prog[t].child
        /\ mine.at \in {"pipe", "input"}
    BY <1>1 DEF Fields
  <2>4. /\ DOMAIN its = Fields /\ its.fd = prog[t].fd
        /\ its.prev = prog[t].prev /\ its.child = prog[t].child
        /\ its.at \in {"input", "output"}
    BY <1>1, GoToKeeps
  <2> HIDE DEF mine, its
  <2>5. MayBe(mine) /\ MayBe(its)
    BY <2>2, <2>3, <2>4 DEF Fits
  <2> QED BY <2>1, <2>5, ProcessStepPipeInv
<1>4. CASE RedirectInput(t)
  <2> DEFINE label == IF prog[t].stage = Stages(t) THEN "sleep" ELSE "output"
             mine == GoTo(t, label)
  <2>1. /\ At(t, "input") /\ Dup2(t, prog[t].prev, 0) /\ UNCHANGED kvars
        /\ GoOn(t, mine, Gone)
    BY <1>4 DEF RedirectInput, Dup2
  <2>2. KIInv' /\ Listed' = Listed
    BY <2>1, QuietKernel
  <2>3. /\ DOMAIN prog' = Tasks /\ prog'[t] = mine
        /\ \A u \in Tasks \ {t} : prog'[u] = prog[u]
    BY <2>1, <2>2, OnlyMine
  <2>4. /\ DOMAIN mine = Fields /\ mine.fd = prog[t].fd
        /\ mine.child = prog[t].child /\ mine.at \in {"sleep", "output"}
    BY <1>1, GoToKeeps
  <2> HIDE DEF mine
  <2>5. Fits(mine, D, writeFd'[t], readFd'[t]) /\ prog[t].prev \in D \cup {0}
    BY <1>1, <2>1, <2>4 DEF At, Fits
  <2>6. TablesTyped' /\ Redirected'
    BY <1>1, <2>1, <2>3, <2>5, Dup2Tables
  <2> QED BY <2>2, <2>6 DEF PipeInv
<1>5. CASE RedirectOutput(t)
  <2>1. /\ At(t, "output") /\ Dup2(t, prog[t].fd + 1, 1) /\ UNCHANGED kvars
        /\ GoOn(t, GoTo(t, "exec"), Gone)
    BY <1>5 DEF RedirectOutput, Dup2
  <2>2. KIInv' /\ Listed' = Listed
    BY <2>1, QuietKernel
  <2>3. /\ DOMAIN prog' = Tasks /\ prog'[t] = GoTo(t, "exec")
        /\ \A u \in Tasks \ {t} : prog'[u] = prog[u]
    BY <2>1, <2>2, OnlyMine
  <2>4. Fits(GoTo(t, "exec"), D, writeFd'[t], readFd'[t])
    BY <1>1, OutsideFits DEF Outside
  <2>5. prog[t].fd + 1 \in D
    BY <1>1, <2>1 DEF At, Fits
  <2>6. TablesTyped' /\ Redirected'
    BY <1>1, <2>1, <2>3, <2>4, <2>5, Dup2Tables
  <2> QED BY <2>2, <2>6 DEF PipeInv
<1>6. CASE SleepOne(t)
  <2>1. PipeStep(t, ProcessCall(t)) /\ GoOn(t, GoTo(t, "exec"), Gone)
    BY <1>6 DEF SleepOne, PipeStep, ProcessCall
  <2>2. MayBe(GoTo(t, "exec")) /\ MayBe(Gone)
    BY <1>1, OutsideFits, GoneFits DEF Outside
  <2> QED BY <2>1, <2>2, ProcessStepPipeInv
<1>7. CASE Exec(t)
  <2>1. PICK its : /\ its = [Gone EXCEPT !.at = "image",
                       !.rest = Programs[prog[t].command.progs[prog[t].stage]]]
                   /\ GoOn(t, GoTo(t, "exit"), its)
                   /\ PipeStep(t, ProcessCall(t))
    BY <1>7 DEF Exec, PipeStep, ProcessCall
  <2>2. MayBe(GoTo(t, "exit"))
    BY <1>1, OutsideFits DEF Outside
  <2>3. /\ DOMAIN its = Fields /\ its.fd = 0 /\ its.child = 0
        /\ its.at = "image"
    BY <2>1 DEF Gone, Fields
  <2>4. MayBe(its)
    BY <2>3 DEF Fits
  <2> QED BY <2>1, <2>2, <2>4, ProcessStepPipeInv
<1>8. CASE Leave(t)
  <2>1. PipeStep(t, ProcessCall(t)) /\ GoOn(t, Gone, Gone)
    BY <1>8 DEF Leave, PipeStep, ProcessCall
  <2> QED BY <2>1, GoneFits, ProcessStepPipeInv
<1> QED BY <1>2, <1>3, <1>4, <1>5, <1>6, <1>7, <1>8

\* What an image is after a call, and the child it forks.
LEMMA ImageGoesOn ==
  ASSUME PipeInv, NEW t \in Tasks, NEW call, NEW step, ImageCall(t, call, step)
  PROVE  \E mine, its :
           /\ step /\ GoOn(t, mine, its)
           /\ DOMAIN mine = Fields /\ DOMAIN its = Fields
           /\ mine.at = "image" /\ its.at = "image"
           /\ mine.child \in Nat /\ its.child \in Nat /\ prog[t].fd \in Nat
           /\ mine.fd = IF call = "pipe" THEN fdCount ELSE prog[t].fd
           /\ its.fd = prog[t].fd
           /\ prog[t].fd = 0 \/ prog[t].fd # writeFd[t] \/ prog[t].fd # readFd[t]
<1> DEFINE mine == [prog[t] EXCEPT !.rest = Tail(@),
                                   !.fd = IF call = "pipe" THEN fdCount ELSE @]
           its == [prog[t] EXCEPT !.rest = Child]
<1>1. /\ step /\ GoOn(t, mine, its) /\ prog[t].at = "image"
  BY DEF ImageCall, At
<1>2. /\ DOMAIN prog[t] = Fields /\ prog[t].fd \in Nat /\ prog[t].child \in Nat
      /\ prog[t].fd = 0 \/ prog[t].fd # writeFd[t] \/ prog[t].fd # readFd[t]
  BY <1>1, PipeInvHas DEF Fits
<1>3. /\ DOMAIN mine = Fields /\ mine.at = prog[t].at
      /\ mine.child = prog[t].child
      /\ mine.fd = IF call = "pipe" THEN fdCount ELSE prog[t].fd
  BY <1>2 DEF Fields
<1>4. /\ DOMAIN its = Fields /\ its.at = prog[t].at
      /\ its.child = prog[t].child /\ its.fd = prog[t].fd
  BY <1>2 DEF Fields
<1> HIDE DEF mine, its
<1> QED BY <1>1, <1>2, <1>3, <1>4

LEMMA ImagePipeInv ==
  ASSUME PipeInv, NEW t \in Tasks, Image(t)
  PROVE  PipeInv'
<1> DEFINE fd == prog[t].fd
           MayBe(p) == Fits(p, DOMAIN files[t], writeFd[t], readFd[t])
<1>1. TablesTyped /\ Redirected /\ KIInv
  BY PipeInvHas
<1>2. Line \in 1 .. Line /\ Line \in Nat /\ 1 \in Nat
  BY KeyboardAssumption
\* Calls that move offsets at most.
<1>3. ASSUME NEW call, NEW step, ImageCall(t, call, step), call # "pipe",
             step => /\ KIInv' /\ FilesLike(files') /\ Listed' = Listed
                     /\ UNCHANGED <<writeFd, readFd, fdCount>>
                     /\ readQueue' \in Tasks \cup {NULL} /\ asked' \in Nat
      PROVE  PipeInv'
  <2>1. PICK mine, its :
          /\ step /\ GoOn(t, mine, its)
          /\ DOMAIN mine = Fields /\ mine.at = "image"
          /\ mine.child \in Nat /\ mine.fd = fd /\ fd \in Nat
          /\ fd = 0 \/ fd # writeFd[t] \/ fd # readFd[t]
    BY <1>3, ImageGoesOn
  <2>2. MayBe(mine)
    BY <2>1 DEF Fits
  <2>3. /\ KIInv' /\ FilesLike(files') /\ Listed' = Listed
        /\ UNCHANGED <<writeFd, readFd, fdCount>>
        /\ readQueue' \in Tasks \cup {NULL} /\ asked' \in Nat
    BY <1>3, <2>1
  <2> QED BY <2>1, <2>2, <2>3, OffsetStepPipeInv
<1>4. CASE ImageCall(t, "write", WriteOut(t, 1))
  <2>1. WriteOut(t, 1) =>
          /\ KIInv' /\ FilesLike(files') /\ Listed' = Listed
          /\ UNCHANGED <<writeFd, readFd, fdCount>>
          /\ readQueue' \in Tasks \cup {NULL} /\ asked' \in Nat
    BY <1>1, <1>2, WriteOutKIInv, WriteOutLike DEF TablesTyped
  <2> QED BY <1>3, <1>4, <2>1
<1>5. CASE ImageCall(t, "read", ReadIn(t, Line))
  <2>1. ReadIn(t, Line) =>
          /\ KIInv' /\ FilesLike(files') /\ Listed' = Listed
          /\ UNCHANGED <<writeFd, readFd, fdCount>>
          /\ readQueue' \in Tasks \cup {NULL} /\ asked' \in Nat
    BY <1>1, <1>2, ReadInKIInv, ReadInLike
  <2> QED BY <1>3, <1>5, <2>1
<1>6. ASSUME UNCHANGED <<kvars, writeFd, readFd, fdCount, readQueue, asked>>,
             NEW n \in Nat, NEW g, files' = Advanced(files, t, g, n)
      PROVE  /\ KIInv' /\ FilesLike(files') /\ Listed' = Listed
             /\ UNCHANGED <<writeFd, readFd, fdCount>>
             /\ readQueue' \in Tasks \cup {NULL} /\ asked' \in Nat
  <2>1. FilesLike(files')
    BY <1>1, <1>6, FilesAreLike, AdvancedLike
  <2> QED BY <1>1, <1>6, <2>1, QuietKernel DEF TablesTyped
<1>7. CASE ImageCall(t, "write end", WriteEnd(t, fd + 1, 1))
  <2>1. WriteEnd(t, fd + 1, 1) =>
          /\ KIInv' /\ FilesLike(files') /\ Listed' = Listed
          /\ UNCHANGED <<writeFd, readFd, fdCount>>
          /\ readQueue' \in Tasks \cup {NULL} /\ asked' \in Nat
    BY <1>2, <1>6 DEF WriteEnd
  <2> QED BY <1>3, <1>7, <2>1
<1>8. CASE ImageCall(t, "read end", ReadEnd(t, fd, Line))
  <2>1. ReadEnd(t, fd, Line) =>
          /\ KIInv' /\ FilesLike(files') /\ Listed' = Listed
          /\ UNCHANGED <<writeFd, readFd, fdCount>>
          /\ readQueue' \in Tasks \cup {NULL} /\ asked' \in Nat
    BY <1>2, <1>6 DEF ReadEnd
  <2> QED BY <1>3, <1>8, <2>1
<1>9. CASE ImageCall(t, "fork", PipeStep(t, Fork(t)))
  <2>1. PICK mine, its :
          /\ PipeStep(t, Fork(t)) /\ GoOn(t, mine, its)
          /\ DOMAIN mine = Fields /\ mine.at = "image"
          /\ DOMAIN its = Fields /\ its.at = "image"
          /\ mine.child \in Nat /\ its.child \in Nat /\ fd \in Nat
          /\ mine.fd = fd /\ its.fd = fd
          /\ fd = 0 \/ fd # writeFd[t] \/ fd # readFd[t]
    BY <1>9, ImageGoesOn
  <2>2. MayBe(mine) /\ MayBe(its)
    BY <2>1 DEF Fits
  <2>3. PipeStep(t, ProcessCall(t))
    BY <2>1 DEF PipeStep, ProcessCall
  <2> QED BY <2>1, <2>2, <2>3, ProcessStepPipeInv
<1>10. CASE ImageCall(t, "pipe", SystemPipe(t))
  <2>1. PICK mine, its :
          /\ SystemPipe(t) /\ GoOn(t, mine, its)
          /\ DOMAIN mine = Fields /\ mine.at = "image"
          /\ mine.child \in Nat /\ mine.fd = fdCount
    BY <1>10, ImageGoesOn
  <2>2. KIInv' /\ Listed' = Listed
    BY <2>1, QuietKernel DEF SystemPipe
  <2>3. /\ DOMAIN prog' = Tasks /\ prog'[t] = mine
        /\ \A u \in Tasks \ {t} : prog'[u] = prog[u]
    BY <2>1, <2>2, OnlyMine
  \* The new descriptors are above all that there were.
  <2>4. fdCount \in Nat /\ fdCount # writeFd[t]
    <3>1. /\ writeFd[t] \in DOMAIN files[t] \cup {0} /\ fdCount \in Nat
          /\ FirstFd <= fdCount /\ FirstFd > 2 /\ FirstFd \in Nat
      BY <1>1, PipeAssumption DEF Redirected, TablesTyped
    <3>2. \A g \in DOMAIN files[t] : g < fdCount
      BY <1>1, <3>1 DEF TablesTyped
    <3> QED BY <3>1, <3>2
  <2>5. Fits(mine, DOMAIN files[t] \cup {fdCount, fdCount + 1},
             writeFd[t], readFd[t])
    BY <2>1, <2>4 DEF Fits
  <2>6. TablesTyped' /\ Redirected'
    BY <1>1, <2>1, <2>3, <2>5, SystemPipeTables
  <2> QED BY <2>2, <2>6 DEF PipeInv
<1>11. CASE ImageCall(t, "close", Close(t, fd))
  <2>1. PICK mine, its :
          /\ Close(t, fd) /\ GoOn(t, mine, its)
          /\ DOMAIN mine = Fields /\ mine.at = "image"
          /\ mine.child \in Nat /\ mine.fd = fd /\ fd \in Nat
          /\ fd = 0 \/ fd # writeFd[t] \/ fd # readFd[t]
    BY <1>11, ImageGoesOn
  <2>2. KIInv' /\ Listed' = Listed
    BY <2>1, QuietKernel DEF Close
  <2>3. /\ DOMAIN prog' = Tasks /\ prog'[t] = mine
        /\ \A u \in Tasks \ {t} : prog'[u] = prog[u]
    BY <2>1, <2>2, OnlyMine
  <2>4. fd = 0 \/ fd # writeFd'[t]
    BY <1>1, <2>1 DEF Close, TablesTyped
  <2>5. Fits(mine, DOMAIN files[t] \ {fd}, writeFd'[t], readFd'[t])
    BY <2>1, <2>4 DEF Fits
  <2>6. TablesTyped' /\ Redirected'
    BY <1>1, <2>1, <2>3, <2>5, CloseTables
  <2> QED BY <2>2, <2>6 DEF PipeInv
<1> QED BY <1>4, <1>5, <1>7, <1>8, <1>9, <1>10, <1>11 DEF Image

LEMMA TimerPipeInv ==
  ASSUME PipeInv, PipeStep(NULL, TimerIRQ), UNCHANGED prog
  PROVE  PipeInv'
<1>1. Hello \in Tasks
  BY ProcessAssumption
<1>2. KIInv'
  <2>1. PipeStep(NULL, TimerIRQ \/ ProcessCall(Hello))
    BY DEF PipeStep
  <2> QED BY <1>1, <2>1, PipeStepKIInv DEF PipeInv
<1>3. Listed' = Listed
  BY DEF PipeStep, TimerIRQ, lists, Listed
<1>4. /\ files' = [u \in Tasks |-> files[u]]
      /\ writeFd' = [u \in Tasks |-> writeFd[u]]
      /\ readFd' = [u \in Tasks |-> readFd[u]]
      /\ UNCHANGED <<fdCount, readQueue, asked>>
  BY <1>3 DEF PipeStep, Inherited
<1>5. UNCHANGED <<writeFd, readFd>>
  BY <1>4 DEF PipeInv, TablesTyped
<1>6. FilesLike(files')
  BY <1>4, FilesAreLike DEF PipeInv, FilesLike
<1>7. /\ TablesTyped /\ Redirected /\ DOMAIN prog' = Tasks
      /\ readQueue' \in Tasks \cup {NULL} /\ asked' \in Nat
      /\ Fits(prog'[Hello], DOMAIN files[Hello], writeFd[Hello], readFd[Hello])
  BY <1>1, <1>4 DEF PipeInv, TablesTyped, Redirected
<1> QED BY <1>1, <1>2, <1>4, <1>5, <1>6, <1>7, OffsetStep DEF PipeInv

LEMMA SNextPipeInv == PipeInv /\ [SNext]_svars => PipeInv'
<1> SUFFICES ASSUME PipeInv, [SNext]_svars PROVE PipeInv'
  OBVIOUS
<1>1. ASSUME NEW t \in Tasks, Program(t) PROVE PipeInv'
  BY <1>1, ShellPipeInv, PipelinePipeInv, ImagePipeInv DEF Program
<1>2. CASE PipeStep(NULL, TimerIRQ) /\ UNCHANGED prog
  BY <1>2, TimerPipeInv
<1>3. CASE KIInv' /\ UNCHANGED <<pipes, prog>>
  BY <1>3 DEF PipeInv, TablesTyped, Redirected, pipes, tables
<1>4. CASE (Key(Enter) \/ Key(Character)) /\ UNCHANGED <<pipes, prog>>
  BY <1>3, <1>4, KeyKIInv DEF PipeInv
<1>5. CASE UNCHANGED svars
  BY <1>3, <1>5, QuietKernel DEF svars, pvars
<1> QED BY <1>1, <1>2, <1>4, <1>5 DEF SNext

LEMMA SInitPipeInv == SInit => PipeInv
<1> SUFFICES ASSUME SInit PROVE PipeInv
  OBVIOUS
<1>1. KIInv /\ NULL \in Tasks \cup {NULL}
  BY KInitKIInv DEF SInit, PInit
<1>2. \A t \in Tasks : files[t] = None /\ writeFd[t] = 0 /\ readFd[t] = 0
  BY DEF SInit, PInit
<1>3. TablesTyped
  BY <1>2, NoneFits, PipeAssumption DEF SInit, PInit, TablesTyped
<1>4. \A t \in Tasks : Fits(prog[t], DOMAIN files[t], writeFd[t], readFd[t])
  BY DEF SInit, Gone, Fits, Fields
<1>5. Redirected
  BY <1>2, <1>4, NoneFits DEF Redirected
<1> QED BY <1>1, <1>3, <1>5 DEF PipeInv

\* The process manager, the keyboard and the pipes stay well formed under the
\* shell, whatever is typed and whatever the programs call.
THEOREM PipeInvHolds == SSpec => []PipeInv
BY SInitPipeInv, SNextPipeInv, PTL DEF SSpec

\* What a redirected task writes and reads always goes to a pipe it has, and a
\* descriptor stands for the same page wherever it was inherited: in every
\* pipeline, for every length of it, while its stages start, run and leave.
THEOREM PipesLead == SSpec => []RedirectionsOpen
<1>1. PipeInv => RedirectionsOpen
  BY InRange DEF PipeInv, Redirected, RedirectionsOpen, KIInv, IInv, TypeOK, Listed
<1> QED BY <1>1, PipeInvHolds, PTL

-----------------------------------------------------------------------------
(* The shell and its children.  The shell never exits, execs or redirects  *)
(* its input, so its children stay its own and its count of them is exact  *)
(* modulo 2^64, whatever the programs it starts leave behind.              *)

Kids    == ChildrenOf(Sbush)
Blocked == state[Sbush] = "WAITING"

\* child_count wraps: it is the number of children but for a multiple of 2^64.
Counted ==
  IsFiniteSet(Kids) /\ \E q \in Nat : Cardinality(Kids) = childCount[Sbush] + q * Word

\* hello is at the head of the list, where a call that gave the CPU away finds
\* it; it makes no call.
HelloIdles == taskList # <<>> /\ Head(taskList) = Hello /\ prog[Hello].at = "none"

\* The shell blocks in read and waitpid only, and gives the CPU away when it
\* does; when it waits for a command there is a child.
ShellUp ==
  /\ HelloIdles /\ Sbush \in Listed
  /\ prog[Sbush].at \in {"prompt", "typed", "wait"}
  /\ readFd[Sbush] = 0 /\ readQueue # Sbush
  /\ current = Sbush => ~Blocked
  /\ Counted
  /\ At(Sbush, "prompt") /\ Blocked => Kids # {}

\* Without background jobs it has one child at most, and waits until that one
\* exits: only then is the keyboard its own.
Front ==
  ~jobs =>
    /\ At(Sbush, "typed") => Kids = {}
    /\ At(Sbush, "prompt") => Kids = {} \/ (Blocked /\ Cardinality(Kids) = 1)
    /\ At(Sbush, "wait") => Cardinality(Kids) <= 1
    /\ flag /\ waiter = Sbush => At(Sbush, "typed") /\ Blocked

SInv == PipeInv /\ ShellUp /\ Front

SameKids ==
  /\ IsFiniteSet(Kids') /\ Cardinality(Kids') = Cardinality(Kids)
  /\ childCount'[Sbush] = childCount[Sbush]
MoreKids ==
  /\ IsFiniteSet(Kids') /\ Cardinality(Kids') = Cardinality(Kids) + 1
  /\ childCount'[Sbush] = (childCount[Sbush] + 1) % Word
FewerKids ==
  /\ Kids # {}
  /\ IsFiniteSet(Kids') /\ Cardinality(Kids') = Cardinality(Kids) - 1
  /\ childCount'[Sbush] = (childCount[Sbush] - 1) % Word

\* What a step of another task, of the timer or of the keyboard does to the
\* shell and its children: a child that exits wakes it, and else only the end of
\* its own read from the keyboard does.
Beside ==
  /\ taskList' # <<>> /\ Head(taskList') = Hello /\ Sbush \in Listed'
  /\ Blocked' => Blocked
  /\ current' = Sbush => ~Blocked'
  /\ \/ SameKids /\ (Blocked => Blocked' \/ (flag /\ waiter = Sbush /\ ~flag'))
     \/ FewerKids /\ ~Blocked'
  /\ flag' /\ waiter' = Sbush => flag /\ waiter = Sbush

LEMMA Congruent ==
  ASSUME NEW n \in Nat, NEW c \in Counter, NEW q \in Nat, n = c + q * Word
  PROVE  /\ \E r \in Nat : n + 1 = ((c + 1) % Word) + r * Word
         /\ n # 0 => \E r \in Nat : n - 1 = ((c - 1) % Word) + r * Word
         /\ n = 0 => c = 0
         /\ n <= 1 /\ c = 0 => n = 0
<1>1. /\ Word \in Nat /\ Word > 1 /\ c \in Nat /\ c < Word
  BY ProcessAssumption DEF Counter
<1>2. /\ (q + 1) * Word = q * Word + Word
      /\ q * Word \in Nat
      /\ q # 0 => (q - 1) * Word = q * Word - Word
      /\ q # 0 => q * Word >= Word
      /\ 0 * Word = 0
  BY <1>1
<1>3. \E r \in Nat : n + 1 = ((c + 1) % Word) + r * Word
  <2>1. CASE c + 1 < Word
    <3>1. (c + 1) % Word = c + 1
      BY <1>1, <2>1
    <3> QED BY <1>1, <1>2, <3>1
  <2>2. CASE c + 1 = Word
    <3>1. (c + 1) % Word = 0
      BY <1>1, <2>2
    <3>2. n + 1 = 0 + (q + 1) * Word /\ q + 1 \in Nat
      BY <1>1, <1>2, <2>2
    <3> QED BY <3>1, <3>2
  <2> QED BY <1>1, <2>1, <2>2
<1>4. n # 0 => \E r \in Nat : n - 1 = ((c - 1) % Word) + r * Word
  <2>1. CASE c # 0
    <3>1. (c - 1) % Word = c - 1
      BY <1>1, <2>1
    <3> QED BY <1>1, <1>2, <3>1
  <2>2. CASE c = 0 /\ n # 0
    <3>1. (c - 1) % Word = Word - 1
      BY <1>1, <2>2
    <3>2. q # 0
      BY <1>2, <2>2
    <3>3. n - 1 = (Word - 1) + (q - 1) * Word /\ q - 1 \in Nat
      BY <1>1, <1>2, <2>2, <3>2
    <3> QED BY <3>1, <3>3
  <2> QED BY <2>1, <2>2
<1>5. (n = 0 => c = 0) /\ (n <= 1 /\ c = 0 => n = 0)
  BY <1>1, <1>2
<1> QED BY <1>3, <1>4, <1>5

LEMMA StaysCounted ==
  ASSUME Counted, childCount[Sbush] \in Counter,
         SameKids \/ MoreKids \/ FewerKids
  PROVE  Counted'
<1> DEFINE n == Cardinality(Kids)
           m == Cardinality(Kids')
           c == childCount[Sbush]
           d == childCount'[Sbush]
<1>1. PICK q \in Nat : n = c + q * Word
  BY DEF Counted
<1>2. n \in Nat /\ IsFiniteSet(Kids') /\ (Kids # {} => n # 0)
  BY FS_CardinalityType, FS_EmptySet DEF Counted, SameKids, MoreKids, FewerKids
<1>3. \/ m = n /\ d = c
      \/ m = n + 1 /\ d = (c + 1) % Word
      \/ m = n - 1 /\ d = (c - 1) % Word /\ n # 0
  BY <1>2 DEF SameKids, MoreKids, FewerKids
<1>4. c \in Counter
  OBVIOUS
<1> HIDE DEF n, m, c, d
<1>5. \E r \in Nat : m = d + r * Word
  BY <1>1, <1>2, <1>3, <1>4, Congruent
<1> QED BY <1>2, <1>5 DEF Counted, m, d

\* The timer interrupt blocks nobody and takes nobody out of a wait; a call that
\* gave the CPU away gives it to hello.
LEMMA TimerOnShell ==
  ASSUME NEW list \in Seq(Tasks), list # <<>>, Head(list) = Hello,
         NEW st \in [Tasks -> States], NEW slp, NEW cur \in Tasks \cup {NULL},
         NEW pt, cur = Sbush => st[Sbush] # "WAITING",
         TimerInterrupt(list, st, slp, cur, pt)
  PROVE  /\ state'[Sbush] = "WAITING" <=> st[Sbush] = "WAITING"
         /\ current' = Sbush => state'[Sbush] # "WAITING"
         /\ cur = NULL => current' = Hello
<1> DEFINE st2 == IF ticks + 1 = TicksPerSecond
                  THEN WakeSleepers(list, st, slp) ELSE st
           next == NextTask(list, st2, cur)
<1>1. /\ Sbush \in Tasks /\ Hello # Sbush /\ NULL \notin Tasks
      /\ Hello \in Tasks
  BY ProcessAssumption
<1>2. st2[Sbush] = "WAITING" <=> st[Sbush] = "WAITING"
  BY <1>1 DEF WakeSleepers, Sleepers
<1>3. Schedule(list, st2, cur, pt)
  BY DEF TimerInterrupt
<1> HIDE DEF st2
<1>4. /\ next = NULL => cur # NULL
      /\ next # NULL => IF cur = NULL THEN next = Hello
                        ELSE next # cur /\ st2[next] = "RUNNABLE"
  BY <1>1, NextTaskEffect
<1>5. IF next = NULL
      THEN state' = st2 /\ current' = cur
      ELSE /\ state' = [t \in Tasks |-> IF t = next THEN "RUNNING"
                                        ELSE IF t = cur THEN "RUNNABLE"
                                        ELSE st2[t]]
           /\ current' = next
  BY <1>3 DEF Schedule
<1> HIDE DEF next
<1>6. CASE next = NULL
  BY <1>2, <1>4, <1>5, <1>6
<1>7. CASE next # NULL
  <2>1. /\ current' = next
        /\ state'[Sbush] = IF Sbush = next THEN "RUNNING"
                           ELSE IF Sbush = cur THEN "RUNNABLE" ELSE st2[Sbush]
    BY <1>1, <1>5, <1>7
  <2>2. next = Sbush => cur # NULL /\ st2[Sbush] = "RUNNABLE"
    BY <1>1, <1>4, <1>7
  <2> QED BY <1>2, <1>4, <1>7, <2>1, <2>2
<1> QED BY <1>6, <1>7

-----------------------------------------------------------------------------
(* What the others do to the shell. *)

LEMMA ShellTyped ==
  ASSUME IInv
  PROVE  /\ Sbush \in Tasks /\ Hello \in Tasks /\ Hello # Sbush
         /\ NULL \notin Tasks /\ Listed \subseteq Tasks
         /\ taskList \in Seq(Tasks) /\ IsInjective(taskList)
         /\ state \in [Tasks -> States] /\ childCount \in [Tasks -> Counter]
         /\ ppid \in [Tasks -> Nat] /\ parent \in [Tasks -> Tasks \cup {NULL}]
         /\ pid \in [Tasks -> Nat] /\ current \in Tasks \cup {NULL}
         /\ nextPid \in Nat \ {0}
BY InRange, ProcessAssumption
   DEF IInv, TypeOK, ListsPartition, Listed, PidsGivenOut

LEMMA KidsAreKept ==
  ASSUME Counted, UNCHANGED <<ppid, parent, childCount, taskList>>
  PROVE  SameKids
BY DEF Counted, SameKids, Kids, ChildrenOf, Listed

\* A call that gives the CPU away and creates and frees no task.
LEMMA BlockBeside ==
  ASSUME IInv, ShellUp, NEW t \in Tasks, t # Sbush, NEW b \in States, NEW slp,
         TimerInterrupt(taskList, [state EXCEPT ![t] = b], slp, NULL, t),
         UNCHANGED <<ppid, parent, childCount, taskList>>,
         flag' /\ waiter' = Sbush => flag /\ waiter = Sbush
  PROVE  Beside
<1> DEFINE st == [state EXCEPT ![t] = b]
<1>1. st \in [Tasks -> States] /\ st[Sbush] = state[Sbush]
  BY ShellTyped
<1>2. /\ taskList \in Seq(Tasks) /\ taskList # <<>> /\ Head(taskList) = Hello
      /\ Sbush # NULL /\ Hello # Sbush /\ Counted /\ Sbush \in Listed
  BY ShellTyped DEF ShellUp, HelloIdles
<1> HIDE DEF st
<1>3. TimerInterrupt(taskList, st, slp, NULL, t)
  BY DEF st
<1>4. /\ state'[Sbush] = "WAITING" <=> st[Sbush] = "WAITING"
      /\ current' = Hello
  BY <1>1, <1>2, <1>3, TimerOnShell
<1>5. SameKids /\ Sbush \in Listed'
  BY <1>2, KidsAreKept DEF Listed
<1> QED BY <1>1, <1>2, <1>4, <1>5 DEF Beside, Blocked

LEMMA TimerBeside ==
  ASSUME IInv, ShellUp, TimerIRQ, UNCHANGED <<flag, waiter>>
  PROVE  Beside
<1>1. /\ taskList \in Seq(Tasks) /\ taskList # <<>> /\ Head(taskList) = Hello
      /\ state \in [Tasks -> States] /\ current \in Tasks \cup {NULL}
      /\ Counted /\ Sbush \in Listed
      /\ current = Sbush => state[Sbush] # "WAITING"
  BY ShellTyped DEF ShellUp, HelloIdles, Blocked
<1>2. /\ TimerInterrupt(taskList, state, sleepTime, current, cr3)
      /\ UNCHANGED <<ppid, parent, childCount, taskList>>
  BY DEF TimerIRQ, family, lists
<1>3. /\ state'[Sbush] = "WAITING" <=> state[Sbush] = "WAITING"
      /\ current' = Sbush => state'[Sbush] # "WAITING"
  BY <1>1, <1>2, TimerOnShell
<1>4. SameKids /\ Sbush \in Listed'
  BY <1>1, <1>2, KidsAreKept DEF Listed
<1> QED BY <1>1, <1>2, <1>3, <1>4 DEF Beside, Blocked

\* A new task at the end of the list.
LEMMA CreateOnShell ==
  ASSUME IInv, ShellUp, NEW child \in FreeTask, NEW p \in Nat \ {0}, NEW ppids,
         NEW newParent, CreateTask(child, p, ppids, newParent)
  PROVE  /\ child \in Tasks /\ child \notin Listed
         /\ Listed' = Listed \cup {child} /\ Sbush \in Listed'
         /\ taskList' \in Seq(Tasks) /\ taskList' # <<>>
         /\ Head(taskList') = Hello
<1>1. /\ child \in Tasks /\ child \notin Listed
      /\ Listed' = Listed \cup {child}
  BY CreateTaskEffect, ShellTyped DEF IInv, TypeOK, ListsTyped
<1>2. taskList' = Append(taskList, child)
  BY DEF CreateTask
<1>3. taskList \in Seq(Tasks) /\ taskList # <<>> /\ Head(taskList) = Hello
  BY ShellTyped DEF ShellUp, HelloIdles
<1> QED BY <1>1, <1>2, <1>3, AppendToList DEF ShellUp

\* fork, by the shell (for MoreKids) or by another task.
LEMMA ForkOnShell ==
  ASSUME IInv, ShellUp, NEW t \in Tasks, Fork(t)
  PROVE  /\ taskList' # <<>> /\ Head(taskList') = Hello /\ Sbush \in Listed'
         /\ IF t = Sbush THEN MoreKids /\ ~Blocked'
            ELSE SameKids /\ (Blocked' <=> Blocked)
         /\ current' = Hello
<1>1. /\ t \in Listed /\ Listed \subseteq Tasks /\ Sbush \in Tasks
      /\ Sbush \in Listed /\ Hello # Sbush /\ Sbush # NULL
  BY CallerListed, ShellTyped DEF Fork, ShellUp
<1>2. PICK child \in FreeTask :
        /\ CreateTask(child, nextPid, [ppid EXCEPT ![child] = pid[t]], t)
        /\ childCount' = [[childCount EXCEPT ![child] = 0]
                            EXCEPT ![t] = (@ + 1) % Word]
        /\ TimerInterrupt(taskList',
                          [state EXCEPT ![child] = "RUNNABLE", ![t] = "RUNNABLE"],
                          [sleepTime EXCEPT ![child] = 0], NULL, t)
  BY DEF Fork
<1>3. /\ child \in Tasks /\ child \notin Listed
      /\ Listed' = Listed \cup {child} /\ Sbush \in Listed'
      /\ taskList' \in Seq(Tasks) /\ taskList' # <<>>
      /\ Head(taskList') = Hello
  BY <1>2, CreateOnShell, ShellTyped
<1>4. child # Sbush /\ child # t
  BY <1>1, <1>3
<1>5. /\ ppid'[child] = pid[t] /\ parent'[child] = t
      /\ \A u \in Listed : ppid'[u] = ppid[u] /\ parent'[u] = parent[u]
  BY <1>1, <1>2, <1>3, ShellTyped DEF CreateTask
<1>6. childCount'[Sbush] = IF t = Sbush THEN (childCount[Sbush] + 1) % Word
                                        ELSE childCount[Sbush]
  BY <1>1, <1>2, <1>4, ShellTyped
<1>7. pid[t] > 0
  BY <1>1, PidsOfTasks
<1>8. /\ Kids' = IF t = Sbush THEN Kids \cup {child} ELSE Kids
      /\ child \notin Kids
  BY <1>3, <1>5, <1>7 DEF Kids, ChildrenOf
<1>9. IsFiniteSet(Kids)
  BY DEF ShellUp, Counted
<1>10. IF t = Sbush THEN MoreKids ELSE SameKids
  BY <1>6, <1>8, <1>9, FS_AddElement DEF MoreKids, SameKids
<1> DEFINE st == [state EXCEPT ![child] = "RUNNABLE", ![t] = "RUNNABLE"]
           slp == [sleepTime EXCEPT ![child] = 0]
<1>11. /\ st \in [Tasks -> States]
       /\ st[Sbush] = IF t = Sbush THEN "RUNNABLE" ELSE state[Sbush]
  BY <1>1, <1>3, <1>4, ShellTyped DEF States
<1> HIDE DEF st, slp
<1>12. TimerInterrupt(taskList', st, slp, NULL, t)
  BY <1>2 DEF st, slp
<1>13. /\ state'[Sbush] = "WAITING" <=> st[Sbush] = "WAITING"
       /\ current' = Hello
  <2>1. NULL \in Tasks \cup {NULL} /\ (NULL = Sbush => st[Sbush] # "WAITING")
    BY <1>1
  <2> QED BY <1>3, <1>11, <1>12, <2>1, TimerOnShell
<1> QED BY <1>3, <1>10, <1>11, <1>13 DEF Blocked

LEMMA ForkBeside ==
  ASSUME IInv, ShellUp, NEW t \in Tasks, t # Sbush, Fork(t),
         UNCHANGED <<flag, waiter>>
  PROVE  Beside
BY ForkOnShell, ShellTyped DEF Beside

\* execve of a child: the new image takes its place among the children.
LEMMA ExecveBeside ==
  ASSUME IInv, ShellUp, NEW t \in Tasks, t # Sbush, Execve(t),
         UNCHANGED <<flag, waiter>>
  PROVE  Beside
<1>1. /\ t \in Listed /\ Listed \subseteq Tasks /\ Sbush \in Tasks
      /\ Sbush \in Listed /\ current' = current
  BY CallerListed, ShellTyped DEF Execve, ShellUp
<1>2. PICK image \in FreeTask :
        /\ CreateTask(image, pid[t],
                      [ppid EXCEPT ![image] = ppid[t], ![t] = 0], parent[t])
        /\ childCount' = [childCount EXCEPT ![image] = 0]
        /\ state' = [state EXCEPT ![image] = "RUNNABLE"]
  BY DEF Execve
<1>3. pid[t] \in Nat \ {0}
  BY <1>1, PidsOfTasks, ShellTyped
<1>4. /\ image \in Tasks /\ image \notin Listed
      /\ Listed' = Listed \cup {image} /\ Sbush \in Listed'
      /\ taskList' # <<>> /\ Head(taskList') = Hello
  BY <1>2, <1>3, CreateOnShell
<1>5. image # Sbush /\ image # t
  BY <1>1, <1>4
<1>6. /\ ppid'[image] = ppid[t] /\ parent'[image] = parent[t] /\ ppid'[t] = 0
      /\ \A u \in Listed : parent'[u] = parent[u]
      /\ \A u \in Listed \ {t} : ppid'[u] = ppid[u]
  BY <1>1, <1>2, <1>4, ShellTyped DEF CreateTask
<1>7. /\ Kids' = IF t \in Kids THEN (Kids \ {t}) \cup {image} ELSE Kids
      /\ image \notin Kids
  BY <1>1, <1>4, <1>6 DEF Kids, ChildrenOf
<1>8. IsFiniteSet(Kids)
  BY DEF ShellUp, Counted
<1>9. IsFiniteSet(Kids') /\ Cardinality(Kids') = Cardinality(Kids)
  <2>1. CASE t \in Kids
    <3> DEFINE rest == Kids \ {t}
    <3>1. IsFiniteSet(rest) /\ Cardinality(rest) = Cardinality(Kids) - 1
      BY <1>8, <2>1, FS_RemoveElement
    <3>2. image \notin rest /\ Kids' = rest \cup {image}
      BY <1>7, <2>1
    <3> HIDE DEF rest
    <3>3. /\ IsFiniteSet(Kids')
          /\ Cardinality(Kids') = Cardinality(rest) + 1
      BY <3>1, <3>2, FS_AddElement
    <3> QED BY <1>8, <3>1, <3>3, FS_CardinalityType
  <2>2. CASE t \notin Kids
    BY <1>7, <1>8, <2>2
  <2> QED BY <2>1, <2>2
<1>10. /\ childCount'[Sbush] = childCount[Sbush]
       /\ state'[Sbush] = state[Sbush]
  BY <1>1, <1>2, <1>4, <1>5, ShellTyped
<1> QED BY <1>1, <1>4, <1>9, <1>10 DEF Beside, SameKids, Blocked, ShellUp

\* exit of a child makes the shell RUNNABLE, whatever it waits for.
LEMMA ExitBeside ==
  ASSUME IInv, ShellUp, NEW t \in Tasks, t # Sbush, t # Hello, Exit(t),
         UNCHANGED <<flag, waiter>>
  PROVE  Beside
<1>1. /\ t \in Listed /\ Listed \subseteq Tasks /\ Sbush \in Tasks
      /\ Sbush \in Listed /\ Hello # Sbush /\ NULL \notin Tasks
  BY CallerListed, ShellTyped DEF Exit, ShellUp
<1>2. /\ FreeTaskStruct(t, ParentCount(t))
      /\ TimerInterrupt(taskList', [ParentState(t) EXCEPT ![t] = "STOPPED"],
                        [sleepTime EXCEPT ![t] = 0], NULL, NULL)
  BY DEF Exit, ExitTask
<1>3. /\ Listed' = Listed \ {t} /\ Sbush \in Listed'
      /\ taskList' \in Seq(Tasks) /\ taskList' # <<>>
      /\ Head(taskList') = Hello
  <2>1. Listed' = Listed \ {t} /\ Sbush \in Listed'
    BY <1>1, <1>2, FreeTaskEffect DEF IInv, TypeOK, ListsTyped
  <2>2. /\ taskList' = Unlink(taskList, t)
        /\ taskList \in Seq(Tasks) /\ IsInjective(taskList)
        /\ taskList # <<>> /\ Head(taskList) = Hello
    BY <1>2, ShellTyped DEF FreeTaskStruct, ShellUp, HelloIdles
  <2>3. /\ taskList' \in Seq(Tasks) /\ taskList' # <<>>
        /\ Head(taskList') = Hello
    BY <2>2, UnlinkProperties
  <2> QED BY <2>1, <2>3
<1>4. /\ ppid' = [ppid EXCEPT ![t] = 0]
      /\ parent' = [parent EXCEPT ![t] = NULL]
      /\ childCount' = [ParentCount(t) EXCEPT ![t] = 0]
  BY <1>2 DEF FreeTaskStruct
<1>5. \A u \in Listed' : ppid'[u] = ppid[u] /\ parent'[u] = parent[u]
  BY <1>1, <1>3, <1>4, ShellTyped
<1>6. Kids' = Kids \ {t}
  BY <1>3, <1>5 DEF Kids, ChildrenOf
<1>7. t \in Kids <=> ppid[t] > 0 /\ parent[t] = Sbush
  BY <1>1 DEF Kids, ChildrenOf
<1>8. childCount'[Sbush] = IF t \in Kids THEN (childCount[Sbush] - 1) % Word
                                         ELSE childCount[Sbush]
  <2>1. CASE ppid[t] > 0
    <3>1. ParentCount(t) = [childCount EXCEPT ![parent[t]] = (@ - 1) % Word]
      BY <2>1 DEF ParentCount
    <3>2. childCount'[Sbush] = IF Sbush = parent[t]
                               THEN (childCount[Sbush] - 1) % Word
                               ELSE childCount[Sbush]
      BY <1>1, <1>4, <3>1, ShellTyped
    <3> QED BY <1>7, <2>1, <3>2
  <2>2. CASE ~(ppid[t] > 0)
    BY <1>1, <1>4, <1>7, <2>2, ShellTyped DEF ParentCount
  <2> QED BY <2>1, <2>2
<1>9. IsFiniteSet(Kids)
  BY DEF ShellUp, Counted
<1>10. IF t \in Kids THEN FewerKids ELSE SameKids
  BY <1>6, <1>8, <1>9, FS_RemoveElement DEF FewerKids, SameKids
<1> DEFINE st == [ParentState(t) EXCEPT ![t] = "STOPPED"]
           slp == [sleepTime EXCEPT ![t] = 0]
<1>11. /\ ParentState(t) \in [Tasks -> States]
       /\ ParentState(t)[Sbush] =
            IF t \in Kids THEN "RUNNABLE" ELSE state[Sbush]
  <2>1. CASE ppid[t] > 0
    <3> DEFINE p == parent[t]
               woken == [state EXCEPT ![p] = "RUNNABLE"]
    <3>1. p \in Tasks
      BY <1>1, <2>1, ShellTyped DEF IInv, ChildHasParent
    <3>2. woken \in [Tasks -> States] /\ woken[p] = "RUNNABLE"
      BY <3>1, ShellTyped DEF States
    <3>3. ParentState(t) = woken
      BY <2>1, <3>2 DEF ParentState, WakeWaiter
    <3>4. woken[Sbush] = IF p = Sbush THEN "RUNNABLE" ELSE state[Sbush]
      BY <1>1, ShellTyped
    <3> HIDE DEF woken
    <3> QED BY <1>7, <2>1, <3>2, <3>3, <3>4
  <2>2. CASE ~(ppid[t] > 0)
    BY <1>7, <2>2, ShellTyped DEF ParentState
  <2> QED BY <2>1, <2>2
<1>12. /\ st \in [Tasks -> States]
       /\ st[Sbush] = IF t \in Kids THEN "RUNNABLE" ELSE state[Sbush]
  BY <1>1, <1>11 DEF States
<1> HIDE DEF st, slp
<1>13. TimerInterrupt(taskList', st, slp, NULL, NULL)
  BY <1>2 DEF st, slp
<1>14. /\ state'[Sbush] = "WAITING" <=> st[Sbush] = "WAITING"
       /\ current' = Hello
  <2>1. NULL \in Tasks \cup {NULL} /\ (NULL = Sbush => st[Sbush] # "WAITING")
    BY <1>1
  <2> QED BY <1>3, <1>12, <1>13, <2>1, TimerOnShell
<1> QED BY <1>1, <1>3, <1>10, <1>12, <1>14 DEF Beside, Blocked

LEMMA KeyBeside ==
  ASSUME KIInv, ShellUp, Key(Enter) \/ Key(Character)
  PROVE  Beside
<1>1. /\ UNCHANGED <<ppid, parent, childCount, taskList, current>>
  BY DEF Key, family, lists
<1>2. /\ taskList # <<>> /\ Head(taskList) = Hello /\ Counted
      /\ Sbush \in Listed /\ Sbush \in Tasks /\ state \in [Tasks -> States]
      /\ current = Sbush => ~Blocked
  BY ShellTyped DEF ShellUp, HelloIdles, KIInv
<1>3. SameKids /\ Sbush \in Listed'
  BY <1>1, <1>2, KidsAreKept DEF Listed
<1>4. flag
  BY DEF Key, Enter, Character
<1>5. CASE Deliver
  <2>1. ~flag' /\ (state' = state \/ state' = [state EXCEPT ![waiter] = "RUNNABLE"])
    BY <1>5 DEF Deliver
  <2>2. /\ Blocked' => Blocked
        /\ Blocked => Blocked' \/ waiter = Sbush
    BY <1>2, <2>1 DEF Blocked
  <2> QED BY <1>1, <1>2, <1>3, <1>4, <2>1, <2>2 DEF Beside
<1>6. ASSUME NEW line, Collect(line) PROVE Beside
  <2>1. UNCHANGED <<flag, waiter, state>>
    BY <1>6 DEF Collect
  <2> QED BY <1>1, <1>2, <1>3, <2>1 DEF Beside, Blocked
<1> QED BY <1>5, <1>6 DEF Key, Enter, Character

\* A step that leaves the lists, the families and the keyboard; the task in the
\* wait slot of the pipes, which is not the shell, may wake up.
LEMMA WriteOutBeside ==
  ASSUME IInv, ShellUp,
         UNCHANGED <<family, lists, current, flag, waiter>>,
         \/ state' = state
         \/ state' = [state EXCEPT ![readQueue] = "RUNNABLE"]
  PROVE  Beside
<1>1. UNCHANGED <<ppid, parent, childCount, taskList>>
  BY DEF family, lists
<1>2. /\ taskList # <<>> /\ Head(taskList) = Hello /\ Counted
      /\ Sbush \in Listed /\ Sbush \in Tasks /\ state \in [Tasks -> States]
      /\ readQueue # Sbush
      /\ current = Sbush => ~Blocked
  BY ShellTyped DEF ShellUp, HelloIdles
<1>3. SameKids /\ Sbush \in Listed'
  BY <1>1, <1>2, KidsAreKept DEF Listed
<1>4. Blocked' <=> Blocked
  BY <1>2 DEF Blocked
<1> QED BY <1>1, <1>2, <1>3, <1>4 DEF Beside

LEMMA KernelStill ==
  ASSUME IInv, ShellUp, UNCHANGED kvars PROVE Beside
BY WriteOutBeside DEF kvars, vars, clock, keyboard

LEMMA ReadInBeside ==
  ASSUME IInv, ShellUp, NEW t \in Tasks, t # Sbush, NEW n, ReadIn(t, n)
  PROVE  Beside /\ readQueue' # Sbush
<1>1. "WAITING" \in States /\ readQueue # Sbush
  BY DEF States, ShellUp
<1>2. CASE ReadFlagged(t, n)
  BY <1>1, <1>2, KernelStill DEF ReadFlagged
<1>3. CASE ReadBlocked(t, n)
  <2>1. /\ TimerInterrupt(taskList, [state EXCEPT ![t] = "WAITING"], sleepTime,
                          NULL, t)
        /\ UNCHANGED <<ppid, parent, childCount, taskList, flag, waiter>>
        /\ readQueue' = t
    BY <1>3 DEF ReadBlocked, AddToQueue, family, lists
  <2> QED BY <1>1, <2>1, BlockBeside
<1>4. CASE Read(t, n) /\ UNCHANGED pipes
  <2>1. /\ TimerInterrupt(taskList, [state EXCEPT ![t] = "WAITING"], sleepTime,
                          NULL, t)
        /\ UNCHANGED <<ppid, parent, childCount, taskList, readQueue>>
        /\ waiter' = t
    BY <1>4 DEF Read, WaitForLine, family, lists, pipes
  <2> QED BY <1>1, <2>1, BlockBeside
<1> QED BY <1>2, <1>3, <1>4 DEF ReadIn

LEMMA ProcessCallBeside ==
  ASSUME IInv, ShellUp, NEW t \in Tasks, t # Sbush, t # Hello, ProcessCall(t),
         UNCHANGED <<flag, waiter>>
  PROVE  Beside
<1>1. CASE Fork(t)
  BY <1>1, ForkBeside
<1>2. CASE Execve(t)
  BY <1>2, ExecveBeside
<1>3. CASE Exit(t)
  BY <1>3, ExitBeside
<1>4. CASE Sleep(t, 1)
  <2> DEFINE slp == [sleepTime EXCEPT ![t] = (1 - 1) % Word]
  <2>1. /\ TimerInterrupt(taskList, [state EXCEPT ![t] = "SLEEP"], slp, NULL, t)
        /\ UNCHANGED <<ppid, parent, childCount, taskList>>
    BY <1>4 DEF Sleep, family, lists
  <2>2. "SLEEP" \in States
    BY DEF States
  <2> HIDE DEF slp
  <2> QED BY <2>1, <2>2, BlockBeside
<1>5. ASSUME NEW p \in Nat, Waitpid(t, p) PROVE Beside
  <2>1. /\ TimerInterrupt(taskList, [state EXCEPT ![t] = "WAITING"], sleepTime,
                          NULL, t)
        /\ UNCHANGED <<ppid, parent, childCount, taskList>>
    BY <1>5 DEF Waitpid, lists
  <2>2. "WAITING" \in States
    BY DEF States
  <2> QED BY <2>1, <2>2, BlockBeside
<1> QED BY <1>1, <1>2, <1>3, <1>4, <1>5 DEF ProcessCall

\* The rest of what the shell depends on, in a step that is not its own.
Apart ==
  /\ prog'[Sbush] = prog[Sbush] /\ prog'[Hello].at = "none"
  /\ readFd'[Sbush] = 0 /\ readQueue' # Sbush
  /\ jobs => jobs'

LEMMA BesideSInv ==
  ASSUME SInv, PipeInv', Beside, Apart
  PROVE  SInv'
<1>1. /\ ShellUp /\ Front /\ childCount[Sbush] \in Counter /\ Counted
      /\ At(Sbush, "prompt") /\ Blocked => Kids # {}
  BY ShellTyped DEF SInv, PipeInv, KIInv, ShellUp
<1>2. Counted'
  BY <1>1, StaysCounted DEF Beside
<1>3. \A l : At(Sbush, l)' <=> At(Sbush, l)
  BY DEF At, Apart
<1>4. \/ SameKids /\ (Blocked => Blocked' \/ (flag /\ waiter = Sbush /\ ~flag'))
      \/ FewerKids /\ ~Blocked'
  BY DEF Beside
<1>5. IsFiniteSet(Kids) /\ IsFiniteSet(Kids') /\ Cardinality(Kids) \in Nat
      /\ Cardinality(Kids') \in Nat
  BY <1>1, <1>4, FS_CardinalityType DEF Counted, SameKids, FewerKids
<1>6. /\ Kids = {} <=> Cardinality(Kids) = 0
      /\ Kids' = {} <=> Cardinality(Kids') = 0
  BY <1>5, FS_EmptySet
<1>7. At(Sbush, "prompt")' /\ Blocked' => Kids' # {}
  BY <1>1, <1>3, <1>4, <1>6 DEF Beside, SameKids
<1>8. ShellUp'
  BY <1>1, <1>2, <1>7 DEF Beside, Apart, ShellUp, HelloIdles
<1>9. ASSUME ~jobs'
      PROVE  /\ At(Sbush, "typed")' => Kids' = {}
             /\ At(Sbush, "prompt")'
                  => Kids' = {} \/ (Blocked' /\ Cardinality(Kids') = 1)
             /\ At(Sbush, "wait")' => Cardinality(Kids') <= 1
             /\ flag' /\ waiter' = Sbush => At(Sbush, "typed")' /\ Blocked'
  <2>1. /\ At(Sbush, "typed") => Kids = {}
        /\ At(Sbush, "prompt")
             => Kids = {} \/ (Blocked /\ Cardinality(Kids) = 1)
        /\ At(Sbush, "wait") => Cardinality(Kids) <= 1
        /\ flag /\ waiter = Sbush => At(Sbush, "typed") /\ Blocked
    BY <1>1, <1>9 DEF Apart, Front
  <2>2. At(Sbush, "typed") => ~At(Sbush, "prompt")
    BY DEF At
  <2>3. flag' /\ waiter' = Sbush => flag /\ waiter = Sbush
    BY DEF Beside
  <2>4. CASE /\ SameKids
             /\ Blocked => Blocked' \/ (flag /\ waiter = Sbush /\ ~flag')
    <3>1. Cardinality(Kids') = Cardinality(Kids)
      BY <2>4 DEF SameKids
    <3> QED BY <1>3, <1>6, <2>1, <2>2, <2>3, <2>4, <3>1
  <2>5. CASE FewerKids
    <3>1. Cardinality(Kids') = Cardinality(Kids) - 1 /\ Kids # {}
      BY <2>5 DEF FewerKids
    <3>2. At(Sbush, "wait") => Cardinality(Kids') <= 1
      BY <1>5, <2>1, <3>1
    <3>3. At(Sbush, "prompt") => Kids' = {}
      BY <1>5, <1>6, <2>1, <3>1
    <3> QED BY <1>3, <2>1, <2>3, <3>1, <3>2, <3>3
  <2> QED BY <1>4, <2>4, <2>5
<1>10. Front'
  BY <1>9 DEF Front
<1> QED BY <1>8, <1>10 DEF SInv

-----------------------------------------------------------------------------
(* The steps of the other programs, of the timer and of the keyboard. *)

\* Neither the shell nor hello is created or freed.
LEMMA BothStay ==
  ASSUME SInv, PipeInv', Beside
  PROVE  /\ Sbush \in Listed /\ Sbush \in Listed' /\ Sbush \in Tasks
         /\ Hello \in Listed /\ Hello \in Listed' /\ Hello \in Tasks
         /\ Hello # Sbush
<1>1. /\ Sbush \in Listed /\ Sbush \in Listed' /\ Sbush \in Tasks
      /\ Hello \in Tasks /\ Hello # Sbush
  BY ShellTyped DEF SInv, PipeInv, KIInv, ShellUp, Beside
<1>2. taskList \in Seq(Tasks) /\ taskList' \in Seq(Tasks)
  BY DEF SInv, PipeInv, KIInv, IInv, TypeOK
<1>3. /\ taskList # <<>> /\ taskList' # <<>>
      /\ Head(taskList) = Hello /\ Head(taskList') = Hello
  BY DEF SInv, ShellUp, HelloIdles, Beside
<1>4. Head(taskList) \in Range(taskList) /\ Head(taskList') \in Range(taskList')
  BY <1>2, <1>3, PopHead
<1> QED BY <1>1, <1>3, <1>4 DEF Listed

LEMMA OthersGoOn ==
  ASSUME SInv, PipeInv', Beside, NEW t \in Tasks, t # Sbush, t # Hello,
         NEW mine, NEW its, GoOn(t, mine, its)
  PROVE  prog'[Sbush] = prog[Sbush] /\ prog'[Hello].at = "none"
<1>1. prog'[Sbush] = prog[Sbush] /\ prog'[Hello] = prog[Hello]
  BY BothStay DEF GoOn
<1> QED BY <1>1 DEF SInv, ShellUp, HelloIdles

\* A call of the process manager by another program.
LEMMA OthersProcessStep ==
  ASSUME SInv, PipeInv', NEW t \in Tasks, t # Sbush, t # Hello,
         PipeStep(t, ProcessCall(t)), NEW mine, NEW its, GoOn(t, mine, its),
         jobs => jobs'
  PROVE  SInv'
<1>1. Beside
  BY ProcessCallBeside DEF PipeStep, SInv, PipeInv, KIInv
<1>2. /\ Sbush \in Listed /\ Sbush \in Listed' /\ Sbush \in Tasks
  BY <1>1, BothStay
<1>3. readFd' = Inherited(readFd, t, 0) /\ readQueue' = readQueue
  BY DEF PipeStep
<1>4. readFd'[Sbush] = 0 /\ readQueue' # Sbush
  BY <1>2, <1>3 DEF Inherited, SInv, ShellUp
<1>5. Apart
  BY <1>1, <1>4, OthersGoOn DEF Apart
<1> QED BY <1>1, <1>5, BesideSInv

\* Any other call of another program.
LEMMA OthersStep ==
  ASSUME SInv, PipeInv', NEW t \in Tasks, t # Sbush, t # Hello,
         Beside, readFd'[Sbush] = 0, readQueue' # Sbush,
         NEW mine, NEW its, GoOn(t, mine, its), jobs => jobs'
  PROVE  SInv'
BY OthersGoOn, BesideSInv DEF Apart

\* A call that leaves the kernel proper as it is.
LEMMA OthersQuietStep ==
  ASSUME SInv, PipeInv', NEW t \in Tasks, t # Sbush, t # Hello,
         UNCHANGED kvars, readQueue' = readQueue, readFd'[Sbush] = readFd[Sbush],
         NEW mine, NEW its, GoOn(t, mine, its), jobs' = jobs
  PROVE  SInv'
<1>1. Beside
  BY KernelStill DEF SInv, PipeInv, KIInv
<1>2. readFd'[Sbush] = 0 /\ readQueue' # Sbush
  BY DEF SInv, ShellUp
<1> QED BY <1>1, <1>2, OthersStep

LEMMA OthersSInv ==
  ASSUME SInv, PipeInv', NEW t \in Tasks, t # Sbush, Program(t)
  PROVE  SInv'
<1>1. IInv /\ ShellUp /\ readFd \in [Tasks -> Nat] /\ Sbush \in Tasks
  BY ShellTyped DEF SInv, PipeInv, KIInv, TablesTyped
<1>2. t # Hello
  BY DEF Program, ReadInput, Run, Wait, MakePipe, ForkStage, RedirectInput,
         RedirectOutput, SleepOne, Exec, Leave, Image, ImageCall, At,
         SInv, ShellUp, HelloIdles
<1>3. readFd[Sbush] = 0 /\ readQueue # Sbush
  BY <1>1 DEF ShellUp
\* The calls of the process manager.
<1>4. ASSUME PipeStep(t, ProcessCall(t)), jobs => jobs',
             \E mine, its : GoOn(t, mine, its)
      PROVE  SInv'
  BY <1>2, <1>4, OthersProcessStep
<1>5. ASSUME NEW c \in Commands, Run(t, c) PROVE SInv'
  <2>1. /\ PipeStep(t, ProcessCall(t)) /\ (jobs => jobs')
        /\ \E mine, its : GoOn(t, mine, its)
    BY <1>5 DEF Run, PipeStep, ProcessCall
  <2> QED BY <1>4, <2>1
<1>6. CASE Wait(t)
  <2>1. /\ \E mine, its : GoOn(t, mine, its)
        /\ jobs' = jobs
    BY <1>6 DEF Wait
  <2>2. CASE PipeStep(t, Waitpid(t, prog[t].child))
    <3>1. prog[t].child \in Nat
      BY PipeInvHas DEF SInv, Fits
    <3>2. PipeStep(t, ProcessCall(t))
      BY <2>2, <3>1 DEF PipeStep, ProcessCall
    <3> QED BY <1>4, <2>1, <3>2
  <2>3. CASE UNCHANGED pvars
    BY <1>2, <2>1, <2>3, OthersQuietStep DEF pvars, pipes, tables
  <2> QED BY <1>6, <2>2, <2>3 DEF Wait
<1>7. CASE ForkStage(t) \/ SleepOne(t) \/ Exec(t) \/ Leave(t)
           \/ ImageCall(t, "fork", PipeStep(t, Fork(t)))
  <2>1. PipeStep(t, ProcessCall(t)) /\ jobs' = jobs
    BY <1>7 DEF ForkStage, SleepOne, Exec, Leave, ImageCall, PipeStep, ProcessCall
  <2>2. \E mine, its : GoOn(t, mine, its)
    BY <1>7 DEF ForkStage, SleepOne, Exec, Leave, ImageCall
  <2> QED BY <1>4, <2>1, <2>2
\* The calls on descriptors.
<1>8. CASE \/ MakePipe(t) \/ RedirectInput(t) \/ RedirectOutput(t)
           \/ ImageCall(t, "pipe", SystemPipe(t))
           \/ ImageCall(t, "write end", WriteEnd(t, prog[t].fd + 1, 1))
           \/ ImageCall(t, "read end", ReadEnd(t, prog[t].fd, Line))
           \/ ImageCall(t, "close", Close(t, prog[t].fd))
  <2>1. /\ \/ SystemPipe(t)
           \/ \E fd, n : WriteEnd(t, fd, n) \/ ReadEnd(t, fd, n)
           \/ \E dst, src : Dup2(t, dst, src)
           \/ \E fd : Close(t, fd)
        /\ jobs' = jobs
    BY <1>8 DEF MakePipe, RedirectInput, RedirectOutput, ImageCall
  <2>2. \E mine, its : GoOn(t, mine, its)
    BY <1>8 DEF MakePipe, RedirectInput, RedirectOutput, ImageCall
  <2>3. UNCHANGED kvars /\ readQueue' = readQueue
    BY <2>1 DEF SystemPipe, WriteEnd, ReadEnd, Dup2, Close
  <2>4. readFd'[Sbush] = readFd[Sbush]
    BY <1>1, <2>1 DEF SystemPipe, WriteEnd, ReadEnd, Dup2, Close
  <2> QED BY <1>2, <2>1, <2>2, <2>3, <2>4, OthersQuietStep
<1>9. CASE ImageCall(t, "write", WriteOut(t, 1))
  <2>1. WriteOut(t, 1) /\ jobs' = jobs
    BY <1>9 DEF ImageCall
  <2>2. \E mine, its : GoOn(t, mine, its)
    BY <1>9 DEF ImageCall
  <2>3. Beside
    <3>1. UNCHANGED <<family, lists, current, flag, waiter>>
      BY <2>1 DEF WriteOut
    <3>2. state' = state \/ state' = [state EXCEPT ![readQueue] = "RUNNABLE"]
      BY <2>1 DEF WriteOut, WakeUp
    <3> QED BY <1>1, <3>1, <3>2, WriteOutBeside
  <2>4. readFd'[Sbush] = 0 /\ readQueue' # Sbush
    BY <1>3, <2>1 DEF WriteOut
  <2> QED BY <1>2, <2>1, <2>2, <2>3, <2>4, OthersStep
<1>10. CASE ReadInput(t) \/ ImageCall(t, "read", ReadIn(t, Line))
  <2>1. (\E n : ReadIn(t, n)) /\ jobs' = jobs
    BY <1>10 DEF ReadInput, ImageCall
  <2>2. \E mine, its : GoOn(t, mine, its)
    BY <1>10 DEF ReadInput, ImageCall
  <2>3. Beside /\ readQueue' # Sbush
    BY <1>1, <2>1, ReadInBeside
  <2>4. readFd' = readFd
    BY <2>1 DEF ReadIn, ReadFlagged, ReadBlocked, pipes, tables
  <2> QED BY <1>2, <1>3, <2>1, <2>2, <2>3, <2>4, OthersStep
<1> QED BY <1>5, <1>6, <1>7, <1>8, <1>9, <1>10 DEF Program, Image

LEMMA TimerSInv ==
  ASSUME SInv, PipeInv', PipeStep(NULL, TimerIRQ), UNCHANGED <<prog, jobs>>
  PROVE  SInv'
<1>1. Beside
  BY TimerBeside DEF PipeStep, SInv, PipeInv, KIInv
<1>2. Listed' = Listed /\ Sbush \in Tasks
  BY ShellTyped DEF PipeStep, TimerIRQ, lists, Listed, SInv, PipeInv, KIInv
<1>3. readFd' = Inherited(readFd, NULL, 0) /\ readQueue' = readQueue
  BY DEF PipeStep
<1>4. Apart
  BY <1>2, <1>3 DEF Inherited, Apart, SInv, ShellUp, HelloIdles
<1> QED BY <1>1, <1>4, BesideSInv

LEMMA KeySInv ==
  ASSUME SInv, PipeInv', Key(Enter) \/ Key(Character),
         UNCHANGED <<pipes, prog, jobs>>
  PROVE  SInv'
<1>1. Beside
  BY KeyBeside DEF SInv, PipeInv
<1>2. Apart
  BY DEF Apart, SInv, ShellUp, HelloIdles, pipes, tables
<1> QED BY <1>1, <1>2, BesideSInv

-----------------------------------------------------------------------------
(* The steps of the shell itself. *)

\* It makes its calls while it has the CPU, so it is not blocked and, without
\* background jobs, has no child at its prompt; no line is on its way to it.
LEMMA ShellHasCpu ==
  ASSUME SInv, current = Sbush
  PROVE  /\ ~Blocked
         /\ ~jobs => /\ At(Sbush, "typed") \/ At(Sbush, "prompt") => Kids = {}
                     /\ At(Sbush, "wait") => Cardinality(Kids) <= 1
                     /\ ~(flag /\ waiter = Sbush)
BY DEF SInv, ShellUp, Front

\* What it keeps in any step of its own.
LEMMA ShellGoesOn ==
  ASSUME SInv, Sbush \in Listed', taskList' # <<>>, Head(taskList') = Hello,
         PipeInv', NEW mine, NEW its, GoOn(Sbush, mine, its)
  PROVE  prog'[Sbush] = mine /\ prog'[Hello].at = "none"
<1>1. /\ Sbush \in Listed /\ Sbush \in Tasks /\ Hello \in Tasks
      /\ Hello # Sbush
      /\ taskList \in Seq(Tasks) /\ taskList # <<>> /\ Head(taskList) = Hello
  BY ShellTyped DEF SInv, PipeInv, KIInv, ShellUp, HelloIdles
<1>2. taskList' \in Seq(Tasks)
  BY DEF PipeInv, KIInv, IInv, TypeOK
<1>3. Hello \in Listed /\ Hello \in Listed'
  BY <1>1, <1>2, PopHead DEF Listed
<1>4. prog'[Sbush] = mine /\ prog'[Hello] = prog[Hello]
  BY <1>1, <1>3 DEF GoOn
<1> QED BY <1>4 DEF SInv, ShellUp, HelloIdles

LEMMA ShellRuns ==
  ASSUME SInv, PipeInv', NEW c \in Commands, Run(Sbush, c)
  PROVE  SInv'
<1> DEFINE mine == [prog[Sbush] EXCEPT
                      !.at = IF Waits(c) THEN "wait" ELSE "prompt",
                      !.command = c, !.child = nextPid]
<1>1. /\ At(Sbush, "typed") /\ PipeStep(Sbush, Fork(Sbush))
      /\ \E its : GoOn(Sbush, mine, its)
      /\ jobs' = (jobs \/ c.amp)
  BY DEF Run
<1>2. /\ IInv /\ ShellUp /\ Sbush \in Tasks /\ Hello # Sbush /\ Counted
      /\ childCount[Sbush] \in Counter /\ DOMAIN prog[Sbush] = Fields
  BY ShellTyped, PipeInvHas DEF SInv, PipeInv, KIInv, ShellUp
<1>3. /\ Fork(Sbush) /\ UNCHANGED <<flag, waiter, readQueue>>
      /\ readFd' = Inherited(readFd, Sbush, 0)
  BY <1>1 DEF PipeStep
<1>4. /\ taskList' # <<>> /\ Head(taskList') = Hello /\ Sbush \in Listed'
      /\ MoreKids /\ ~Blocked' /\ current' = Hello
  BY <1>2, <1>3, ForkOnShell
<1>5. current = Sbush
  BY <1>2, <1>3, CallerListed DEF Fork
<1>6. Counted'
  BY <1>2, <1>4, StaysCounted
<1>7. prog'[Sbush] = mine /\ prog'[Hello].at = "none"
  BY <1>1, <1>4, ShellGoesOn
<1>8. mine.at = IF Waits(c) THEN "wait" ELSE "prompt"
  BY <1>2 DEF Fields
<1> HIDE DEF mine
<1>9. readFd'[Sbush] = 0 /\ readQueue' # Sbush
  BY <1>2, <1>3, <1>4 DEF Inherited, ShellUp
<1>10. ShellUp'
  BY <1>2, <1>4, <1>6, <1>7, <1>8, <1>9 DEF ShellUp, HelloIdles, At
<1>11. ASSUME ~jobs'
       PROVE  At(Sbush, "wait")' /\ Cardinality(Kids') <= 1
              /\ ~(flag' /\ waiter' = Sbush)
  <2>1. ~jobs /\ ~c.amp /\ Waits(c)
    BY <1>1, <1>11 DEF Waits
  <2>2. Kids = {} /\ ~(flag /\ waiter = Sbush)
    BY <1>1, <1>5, <2>1, ShellHasCpu
  <2>3. Cardinality(Kids') = 1
    BY <1>4, <2>2, FS_EmptySet DEF MoreKids
  <2> QED BY <1>3, <1>7, <1>8, <2>1, <2>2, <2>3 DEF At
<1>12. Front'
  BY <1>11 DEF Front, At
<1> QED BY <1>10, <1>12 DEF SInv

\* The shell is blocked by a call of its own.
LEMMA ShellBlocks ==
  ASSUME IInv, ShellUp, TimerInterrupt(taskList,
           [state EXCEPT ![Sbush] = "WAITING"], sleepTime, NULL, Sbush)
  PROVE  Blocked' /\ current' = Hello
<1> DEFINE st == [state EXCEPT ![Sbush] = "WAITING"]
<1>1. st \in [Tasks -> States] /\ st[Sbush] = "WAITING"
  BY ShellTyped DEF States
<1>2. /\ taskList \in Seq(Tasks) /\ taskList # <<>> /\ Head(taskList) = Hello
      /\ NULL # Sbush /\ NULL \in Tasks \cup {NULL}
  BY ShellTyped DEF ShellUp, HelloIdles
<1> HIDE DEF st
<1>3. TimerInterrupt(taskList, st, sleepTime, NULL, Sbush)
  BY DEF st
<1> QED BY <1>1, <1>2, <1>3, TimerOnShell DEF Blocked

LEMMA ShellWaits ==
  ASSUME SInv, PipeInv', Wait(Sbush)
  PROVE  SInv'
<1>1. /\ At(Sbush, "wait") /\ jobs' = jobs
      /\ GoOn(Sbush, GoTo(Sbush, "prompt"), Gone)
  BY DEF Wait
<1>2. /\ IInv /\ ShellUp /\ Sbush \in Tasks /\ Hello # Sbush
      /\ childCount[Sbush] \in Counter /\ DOMAIN prog[Sbush] = Fields
      /\ Counted /\ IsFiniteSet(Kids)
  BY ShellTyped, PipeInvHas DEF SInv, PipeInv, KIInv, ShellUp, Counted
<1>3. /\ Cardinality(Kids) \in Nat /\ (Kids = {} <=> Cardinality(Kids) = 0)
  BY <1>2, FS_CardinalityType, FS_EmptySet
<1>4. /\ Kids = {} => childCount[Sbush] = 0
      /\ Cardinality(Kids) <= 1 /\ childCount[Sbush] = 0 => Kids = {}
  <2>1. PICK q \in Nat : Cardinality(Kids) = childCount[Sbush] + q * Word
    BY <1>2 DEF Counted
  <2> QED BY <1>2, <1>3, <2>1, Congruent
<1>5. CASE PipeStep(Sbush, Waitpid(Sbush, prog[Sbush].child))
  <2>1. /\ childCount[Sbush] # 0 /\ current = Sbush
        /\ TimerInterrupt(taskList, [state EXCEPT ![Sbush] = "WAITING"],
                          sleepTime, NULL, Sbush)
        /\ UNCHANGED <<ppid, parent, childCount, taskList>>
        /\ UNCHANGED <<flag, waiter, readQueue>>
        /\ readFd' = Inherited(readFd, Sbush, 0)
    BY <1>5 DEF PipeStep, Waitpid, Calling, lists
  <2>2. Blocked' /\ current' = Hello
    BY <1>2, <2>1, ShellBlocks
  <2>3. SameKids /\ Listed' = Listed /\ Sbush \in Listed
    BY <1>2, <2>1, KidsAreKept DEF Listed, ShellUp
  <2>4. taskList' # <<>> /\ Head(taskList') = Hello
    BY <1>2, <2>1 DEF ShellUp, HelloIdles
  <2>5. prog'[Sbush] = GoTo(Sbush, "prompt") /\ prog'[Hello].at = "none"
    BY <1>1, <2>3, <2>4, ShellGoesOn
  <2>6. At(Sbush, "prompt")' /\ ~At(Sbush, "typed")' /\ ~At(Sbush, "wait")'
    BY <1>2, <2>5, GoToKeeps DEF At
  <2>7. Kids # {} /\ Kids' # {}
    BY <1>3, <1>4, <2>1, <2>3, FS_EmptySet DEF SameKids
  <2>8. Counted'
    BY <1>2, <2>3, StaysCounted
  <2>9. ShellUp'
    BY <1>2, <2>1, <2>2, <2>3, <2>4, <2>5, <2>6, <2>7, <2>8
       DEF ShellUp, HelloIdles, At, Inherited
  <2>10. ~jobs => Cardinality(Kids') = 1 /\ ~(flag' /\ waiter' = Sbush)
    BY <1>1, <1>3, <2>1, <2>3, <2>7, ShellHasCpu DEF SameKids
  <2>11. Front'
    BY <1>1, <2>2, <2>6, <2>10 DEF Front
  <2> QED BY <2>9, <2>11 DEF SInv
<1>6. CASE UserCode(Sbush) /\ childCount[Sbush] = 0 /\ UNCHANGED pvars
  <2>1. current = Sbush
    BY <1>6 DEF UserCode
  <2>2. /\ UNCHANGED <<taskList, state, ppid, parent, childCount, current>>
        /\ UNCHANGED <<flag, waiter, readQueue, readFd>>
    BY <1>6 DEF pvars, kvars, vars, family, lists, clock, keyboard, pipes, tables
  <2>3. SameKids /\ Listed' = Listed /\ Sbush \in Listed
    BY <1>2, <2>2, KidsAreKept DEF Listed, ShellUp
  <2>4. taskList' # <<>> /\ Head(taskList') = Hello
    BY <1>2, <2>2 DEF ShellUp, HelloIdles
  <2>5. prog'[Sbush] = GoTo(Sbush, "prompt") /\ prog'[Hello].at = "none"
    BY <1>1, <2>3, <2>4, ShellGoesOn
  <2>6. At(Sbush, "prompt")' /\ ~At(Sbush, "typed")' /\ ~At(Sbush, "wait")'
    BY <1>2, <2>5, GoToKeeps DEF At
  <2>7. ~Blocked' /\ (~jobs => Kids = {} /\ ~(flag /\ waiter = Sbush))
    BY <1>1, <1>4, <1>6, <2>1, <2>2, ShellHasCpu DEF Blocked
  <2>8. Counted'
    BY <1>2, <2>3, StaysCounted
  <2>9. ShellUp'
    BY <1>2, <2>2, <2>3, <2>4, <2>5, <2>6, <2>7, <2>8
       DEF ShellUp, HelloIdles, At
  <2>10. Kids' = Kids
    BY <2>2 DEF Kids, ChildrenOf, Listed
  <2>11. Front'
    BY <1>1, <2>2, <2>6, <2>7, <2>10 DEF Front
  <2> QED BY <2>9, <2>11 DEF SInv
<1> QED BY <1>5, <1>6 DEF Wait

LEMMA ShellReads ==
  ASSUME SInv, PipeInv', ReadInput(Sbush)
  PROVE  SInv'
<1>1. /\ At(Sbush, "prompt") \/ At(Sbush, "typed")
      /\ GoOn(Sbush, GoTo(Sbush, "typed"), Gone) /\ jobs' = jobs
  BY DEF ReadInput
<1>2. /\ IInv /\ ShellUp /\ Sbush \in Tasks /\ Hello # Sbush /\ Counted
      /\ childCount[Sbush] \in Counter /\ DOMAIN prog[Sbush] = Fields
  BY ShellTyped, PipeInvHas DEF SInv, PipeInv, KIInv, ShellUp
<1>3. Read(Sbush, 1) /\ UNCHANGED pipes
  BY <1>2 DEF ReadInput, ReadIn, ReadFlagged, ReadBlocked, ShellUp
<1>4. /\ current = Sbush
      /\ TimerInterrupt(taskList, [state EXCEPT ![Sbush] = "WAITING"],
                        sleepTime, NULL, Sbush)
      /\ UNCHANGED <<ppid, parent, childCount, taskList>>
      /\ UNCHANGED <<readFd, readQueue>>
  BY <1>3 DEF Read, Calling, family, lists, pipes, tables
<1>5. Blocked' /\ current' = Hello
  BY <1>2, <1>4, ShellBlocks
<1>6. SameKids /\ Kids' = Kids /\ Listed' = Listed /\ Sbush \in Listed
  BY <1>2, <1>4, KidsAreKept DEF Listed, ShellUp, Kids, ChildrenOf
<1>7. taskList' # <<>> /\ Head(taskList') = Hello
  BY <1>2, <1>4 DEF ShellUp, HelloIdles
<1>8. prog'[Sbush] = GoTo(Sbush, "typed") /\ prog'[Hello].at = "none"
  BY <1>1, <1>6, <1>7, ShellGoesOn
<1>9. At(Sbush, "typed")' /\ ~At(Sbush, "prompt")' /\ ~At(Sbush, "wait")'
  BY <1>2, <1>8, GoToKeeps DEF At
<1>10. Counted'
  BY <1>2, <1>6, StaysCounted
<1>11. ShellUp'
  BY <1>2, <1>4, <1>5, <1>6, <1>7, <1>8, <1>9, <1>10
     DEF ShellUp, HelloIdles, At
<1>12. ~jobs => Kids = {}
  BY <1>1, <1>4, ShellHasCpu
<1>13. Front'
  BY <1>1, <1>5, <1>6, <1>9, <1>12 DEF Front
<1> QED BY <1>11, <1>13 DEF SInv

-----------------------------------------------------------------------------
(* The theorems about the shell. *)

LEMMA SInitSInv == SInit => SInv
<1> SUFFICES ASSUME SInit PROVE SInv
  OBVIOUS
<1>1. PipeInv /\ Init
  BY SInitPipeInv DEF SInit, PInit, KInit
<1>2. /\ Sbush \in Tasks /\ Hello \in Tasks /\ Hello # Sbush /\ NULL \notin Tasks
      /\ Word \in Nat
  BY ProcessAssumption
<1>3. /\ taskList = <<Hello, Sbush>> /\ Listed = {Hello, Sbush}
      /\ current = NULL /\ childCount[Sbush] = 0
      /\ \A t \in Tasks : ppid[t] = 0
  BY <1>1, <1>2 DEF Init, Listed, Range, Boot
<1>4. Kids = {} /\ ~Blocked
  BY <1>1, <1>2, <1>3 DEF Kids, ChildrenOf, Blocked, Init, Boot
<1>5. Counted
  BY <1>2, <1>3, <1>4, FS_EmptySet DEF Counted
<1>6. HelloIdles
  BY <1>2, <1>3 DEF SInit, HelloIdles, Gone
<1>7. prog[Sbush].at = "prompt" /\ readFd[Sbush] = 0 /\ readQueue = NULL /\ ~flag
  BY <1>2 DEF SInit, PInit, KInit, Gone
<1>8. ShellUp
  BY <1>2, <1>3, <1>4, <1>5, <1>6, <1>7 DEF ShellUp
<1>9. Front
  BY <1>4, <1>7 DEF Front, At
<1> QED BY <1>1, <1>8, <1>9 DEF SInv

LEMMA SNextSInv == SInv /\ [SNext]_svars => SInv'
<1> SUFFICES ASSUME SInv, [SNext]_svars PROVE SInv'
  OBVIOUS
<1>1. PipeInv'
  BY SNextPipeInv DEF SInv
<1>2. ASSUME NEW t \in Tasks, Program(t) PROVE SInv'
  <2>1. CASE t # Sbush
    BY <1>1, <1>2, <2>1, OthersSInv
  <2>2. CASE t = Sbush
    <3>1. prog[Sbush].at \in {"prompt", "typed", "wait"}
      BY DEF SInv, ShellUp
    <3>2. \/ ReadInput(Sbush) \/ Wait(Sbush)
          \/ \E c \in Commands : Run(Sbush, c)
      BY <1>2, <2>2, <3>1
         DEF Program, MakePipe, ForkStage, RedirectInput, RedirectOutput,
             SleepOne, Exec, Leave, Image, ImageCall, At
    <3> QED BY <1>1, <3>2, ShellReads, ShellWaits, ShellRuns
  <2> QED BY <2>1, <2>2
<1>3. CASE PipeStep(NULL, TimerIRQ) /\ UNCHANGED <<prog, jobs>>
  BY <1>1, <1>3, TimerSInv
<1>4. CASE (Key(Enter) \/ Key(Character)) /\ UNCHANGED <<pipes, prog, jobs>>
  BY <1>1, <1>4, KeySInv
<1>5. CASE UNCHANGED svars
  <2>1. Beside
    BY <1>5, KernelStill DEF svars, pvars, SInv, PipeInv, KIInv
  <2>2. Apart
    BY <1>5 DEF Apart, SInv, ShellUp, HelloIdles, svars, pvars, pipes, tables
  <2> QED BY <1>1, <2>1, <2>2, BesideSInv
<1> QED BY <1>2, <1>3, <1>4, <1>5 DEF SNext

\* The shell is always there and counts its children, and hello, at the head of
\* the list, takes the CPU whenever another gives it up; without background jobs
\* the shell has one child at most and waits for it until it is gone.
THEOREM SInvHolds == SSpec => []SInv
BY SInitSInv, SNextSInv, PTL DEF SSpec

\* Without background jobs the prompt comes back when the command is over, and
\* no sooner: nothing but the exit of its one child takes the shell out of
\* waitpid, whatever the programs in between read, write, fork or leave.
THEOREM PromptIsEarned == SSpec => []PromptAfterCommand
<1>1. SInv => PromptAfterCommand
  BY ShellHasCpu DEF PromptAfterCommand, Kids
<1> QED BY <1>1, SInvHolds, PTL

\* With background jobs too, a shell that waits has a child whose exit wakes it,
\* though waitpid names another that may be gone.
THEOREM ShellIsWoken == SSpec => []WaitsForSomebody
<1>1. SInv => WaitsForSomebody
  BY DEF SInv, ShellUp, WaitsForSomebody, Kids, Blocked
<1> QED BY <1>1, SInvHolds, PTL

=============================================================================
