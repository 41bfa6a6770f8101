--------------------------- MODULE KeyboardProofs ---------------------------
(***************************************************************************)
(* The keyboard and the process manager together stay well typed, and the  *)
(* line buffer never overflows, whatever programs read, in whatever order  *)
(* of calls and keys.  While programs keep to the foreground the one wait  *)
(* slot is enough, and the line in the buffer is the reader's own.         *)
(***************************************************************************)
EXTENDS RefinementProofs, MCKeyboard

\* In scanf mode the wait slot holds a task_struct.
SlotSet == flag => waiter \in Tasks

\* What the process manager does not touch.
Buffered ==
  /\ flag \in BOOLEAN
  /\ waiter \in Tasks \cup {NULL}
  /\ want \in 0 .. Line
  /\ typed \in Seq(Tasks)
  /\ inRead \subseteq Tasks
  /\ LineFits
  /\ SlotSet

KIInv == IInv /\ Buffered

\* At the start the line buffer is empty and the slot is free.
THEOREM KInitKIInv == KInit => KIInv
<1> SUFFICES ASSUME KInit PROVE KIInv
  OBVIOUS
<1>1. IInv
  BY InitIInv DEF KInit
<1>2. typed \in Seq(Tasks) /\ Len(typed) = 0
  BY EmptySeq DEF KInit
<1>3. Buffered
  <2>1. Line > 0 /\ Line \in Nat
    BY KeyboardAssumption
  <2>2. LineFits /\ want \in 0 .. Line
    BY <1>2, <2>1 DEF KInit, LineFits
  <2>3. flag \in BOOLEAN /\ SlotSet
    BY ZenonT(20) DEF KInit, SlotSet
  <2> QED BY <1>2, <2>2, <2>3 DEF KInit, Buffered
<1> QED BY <1>1, <1>3 DEF KIInv

LEMMA StillInTasks == ASSUME NEW R \in SUBSET Tasks, StillIn(R)
                      PROVE  inRead' \subseteq Tasks
BY DEF StillIn

LEMMA ProcessStepKIInv ==
  ASSUME KIInv, ProcessStep(Next) PROVE KIInv'
<1>1. IInv'
  BY NextIInv DEF KIInv, ProcessStep
<1>2. Buffered'
  BY StillInTasks DEF ProcessStep, KIInv, Buffered, LineFits, SlotSet
<1> QED BY <1>1, <1>2 DEF KIInv

LEMMA ReadKIInv ==
  ASSUME KIInv, NEW t \in Tasks, NEW size \in 1 .. Line, Read(t, size)
  PROVE  KIInv'
<1> DEFINE st == [state EXCEPT ![t] = "WAITING"]
<1>1. IInv'
  <2>1. IInv /\ current = t
    BY CallerListed DEF Read, WaitForLine, KIInv
  <2>2. /\ st \in [Tasks -> States] /\ st[t] # "RUNNING"
        /\ \A u \in Tasks \ {t} : st[u] = state[u]
        /\ sleepTime \in [Tasks -> Counter]
        /\ waitFor' \in [Tasks -> Nat]
    BY <2>1 DEF IInv, TypeOK, States, Read, WaitForLine, family
  <2>3. /\ TimerInterrupt(taskList, st, sleepTime, NULL, t)
        /\ UNCHANGED <<pid, ppid, parent, childCount, lists, crashed>>
    BY DEF Read, WaitForLine, family
  <2> HIDE DEF st
  <2> QED BY <2>1, <2>2, <2>3, BlockIInv
<1>2. inRead' \subseteq Tasks
  BY StillInTasks DEF Read, WaitForLine, KIInv, Buffered
<1>3. Buffered'
  BY <1>2, KeyboardAssumption
     DEF Read, WaitForLine, KIInv, Buffered, LineFits, SlotSet
<1> QED BY <1>1, <1>3 DEF KIInv

\* A key changes no list and no family tie; it may make one task RUNNABLE.
LEMMA KeyIInv ==
  ASSUME IInv, state' \in [Tasks -> States], crashed' \in BOOLEAN,
         \A t \in Tasks : state'[t] = "RUNNING" => state[t] = "RUNNING",
         UNCHANGED <<family, lists, sleepTime, current, cr3, ticks>>
  PROVE  IInv'
BY DEF IInv, TypeOK, ListsPartition, OnlyCurrentRuns, OwnAddressSpace,
       CurrentListed, PidsGivenOut, OneImageReports, ChildHasParent,
       family, lists, Listed, Freed

LEMMA DeliverEffect ==
  ASSUME KIInv, flag, Deliver
  PROVE  /\ state' \in [Tasks -> States] /\ crashed' \in BOOLEAN
         /\ \A t \in Tasks : state'[t] = "RUNNING" => state[t] = "RUNNING"
         /\ typed' \in Seq(Tasks) /\ Len(typed') < Line
         /\ ~flag' /\ flag' \in BOOLEAN /\ UNCHANGED <<waiter, want>>
<1>1. typed' \in Seq(Tasks) /\ Len(typed') = 0
  BY EmptySeq DEF Deliver
<1>2. Line > 0
  BY KeyboardAssumption
<1>3. CASE waiter \in Freed
  BY <1>1, <1>2, <1>3 DEF Deliver, KIInv, Buffered, IInv, TypeOK
<1>4. CASE waiter \notin Freed
  BY <1>1, <1>2, <1>4 DEF Deliver, KIInv, Buffered, IInv, TypeOK, States, SlotSet
<1> QED BY <1>3, <1>4

LEMMA CollectEffect ==
  ASSUME KIInv, NEW line \in Seq(Tasks), Len(line) < Line, Collect(line)
  PROVE  /\ state' \in [Tasks -> States] /\ crashed' \in BOOLEAN
         /\ \A t \in Tasks : state'[t] = "RUNNING" => state[t] = "RUNNING"
         /\ typed' \in Seq(Tasks) /\ Len(typed') < Line
         /\ UNCHANGED <<flag, waiter, want>>
BY DEF Collect, KIInv, Buffered, IInv, TypeOK

LEMMA CharacterEffect ==
  ASSUME KIInv, Character
  PROVE  /\ state' \in [Tasks -> States] /\ crashed' \in BOOLEAN
         /\ \A t \in Tasks : state'[t] = "RUNNING" => state[t] = "RUNNING"
         /\ typed' \in Seq(Tasks) /\ Len(typed') < Line
         /\ flag' \in BOOLEAN /\ (flag' => flag) /\ UNCHANGED <<waiter, want>>
<1> DEFINE line == Append(typed, waiter)
<1>1. line \in Seq(Tasks) /\ Len(line) = Len(typed) + 1
  BY DEF Character, KIInv, Buffered, SlotSet
<1>2. CASE Len(line) >= want
  BY <1>2, DeliverEffect DEF Character
<1>3. CASE ~(Len(line) >= want)
  <2>1. Len(line) < Line
    BY <1>1, <1>3, KeyboardAssumption, LenProperties DEF KIInv, Buffered
  <2>2. Collect(line)
    BY <1>3 DEF Character
  <2>3. flag' = flag /\ flag \in BOOLEAN
    BY <2>2 DEF Collect, KIInv, Buffered
  <2> HIDE DEF line
  <2> QED BY <1>1, <2>1, <2>2, <2>3, CollectEffect
<1> QED BY <1>2, <1>3

LEMMA ButLast ==
  ASSUME NEW s \in Seq(Tasks), Len(s) # 0
  PROVE  /\ SubSeq(s, 1, Len(s) - 1) \in Seq(Tasks)
         /\ Len(SubSeq(s, 1, Len(s) - 1)) = Len(s) - 1
<1> DEFINE n == Len(s) - 1
<1>1. n \in Nat
  BY LenProperties
<1>2. \A i \in 1 .. n : s[i] \in Tasks
  BY LenProperties, ElementOfSeq
<1> HIDE DEF n
<1>3. /\ SubSeq(s, 1, n) \in Seq(Tasks)
      /\ Len(SubSeq(s, 1, n)) = IF 1 <= n THEN n - 1 + 1 ELSE 0
  BY <1>1, <1>2, SubSeqProperties
<1>4. Len(SubSeq(s, 1, n)) = n
  BY <1>1, <1>3
<1> QED BY <1>3, <1>4 DEF n

LEMMA KeyKIInv ==
  ASSUME KIInv, Key(Enter) \/ Key(Character) \/ Key(Backspace)
  PROVE  KIInv'
<1>1. /\ UNCHANGED <<family, lists, sleepTime, current, cr3, ticks>>
      /\ StillIn(inRead)
  BY DEF Key
<1>2. /\ state' \in [Tasks -> States] /\ crashed' \in BOOLEAN
      /\ \A t \in Tasks : state'[t] = "RUNNING" => state[t] = "RUNNING"
      /\ typed' \in Seq(Tasks) /\ Len(typed') < Line
      /\ flag' \in BOOLEAN /\ (flag' => flag) /\ UNCHANGED <<waiter, want>>
  <2>1. CASE Key(Enter)
    BY <2>1, DeliverEffect DEF Key, Enter
  <2>2. CASE Key(Character)
    BY <2>2, CharacterEffect DEF Key
  <2>3. CASE Key(Backspace) /\ typed = <<>>
    BY <2>3, CharacterEffect DEF Key, Backspace
  <2>4. CASE Key(Backspace) /\ typed # <<>>
    <3> DEFINE line == SubSeq(typed, 1, Len(typed) - 1)
    <3>1. /\ typed \in Seq(Tasks) /\ Len(typed) \in Nat
          /\ Len(typed) # 0 /\ Len(typed) < Line /\ Line \in Nat
      BY <2>4, KeyboardAssumption, EmptySeq, LenProperties
         DEF KIInv, Buffered, LineFits
    <3>2. line \in Seq(Tasks) /\ Len(line) = Len(typed) - 1
      BY <3>1, ButLast
    <3>3. Collect(line)
      BY <2>4 DEF Key, Backspace
    <3>4. Len(line) < Line
      BY <3>1, <3>2
    <3>5. flag' = flag /\ flag \in BOOLEAN
      BY <3>3 DEF Collect, KIInv, Buffered
    <3> HIDE DEF line
    <3> QED BY <3>1, <3>2, <3>3, <3>4, <3>5, CollectEffect
  <2> QED BY <2>1, <2>2, <2>3, <2>4
<1>3. IInv'
  BY <1>1, <1>2, KeyIInv DEF KIInv
<1>4. Buffered'
  BY <1>1, <1>2, StillInTasks
     DEF KIInv, Buffered, LineFits, SlotSet
<1> QED BY <1>3, <1>4 DEF KIInv

LEMMA KStutter == KIInv /\ UNCHANGED kvars => KIInv'
<1> SUFFICES ASSUME KIInv, UNCHANGED kvars PROVE KIInv'
  OBVIOUS
<1>1. IInv'
  BY StutterIInv DEF KIInv, kvars
<1>2. Buffered'
  BY DEF kvars, keyboard, KIInv, Buffered, LineFits, SlotSet
<1> QED BY <1>1, <1>2 DEF KIInv

\* Every read, every key and every call of the process manager preserves the
\* invariant of the keyboard.
THEOREM KNextKIInv == KIInv /\ [KNext]_kvars => KIInv'
<1> SUFFICES ASSUME KIInv, [KNext]_kvars PROVE KIInv'
  OBVIOUS
<1>1. CASE ProcessStep(TimerIRQ)
  BY <1>1, ProcessStepKIInv DEF ProcessStep, Next
<1>2. ASSUME NEW t \in Tasks, ProcessStep(KSyscall(t) \/ PageFault(t))
      PROVE  KIInv'
  BY <1>2, ProcessStepKIInv DEF ProcessStep, KSyscall, Next
<1>3. ASSUME NEW t \in Tasks, NEW size \in ReadSizes, Read(t, size)
      PROVE  KIInv'
  BY <1>3, ReadKIInv, KeyboardAssumption
<1>4. CASE Key(Enter) \/ Key(Character) \/ Key(Backspace)
  BY <1>4, KeyKIInv
<1>5. CASE UNCHANGED kvars
  BY <1>5, KStutter
<1> QED BY <1>1, <1>2, <1>3, <1>4, <1>5 DEF KNext

-----------------------------------------------------------------------------
(* UserTasks that keep to the foreground: each waits for the one child it   *)
(* started before it reads, forks or execs again.  They form a chain, of   *)
(* which one at most has no child, and only that one can be in a read.     *)

UserTasks == {t \in Listed : pid[t] # HelloPid}

OneIdle == \A t, u \in UserTasks : Idle(t) /\ Idle(u) => t = u

ParentIsBusy ==
  \A c \in Listed :
    ppid[c] > 0 => /\ parent[c] \in UserTasks /\ childCount[parent[c]] = 1
                   /\ ~OldImage(parent[c])

OneChild ==
  \A c, d \in Listed :
    ppid[c] > 0 /\ ppid[d] > 0 /\ parent[c] = parent[d] => c = d

Chain == nextPid > HelloPid /\ OneIdle /\ ParentIsBusy /\ OneChild

\* Whoever is in a read is a program without children, blocked.
ReadersIdle ==
  \A t \in inRead : t \in UserTasks /\ Idle(t) /\ state[t] = "WAITING"

LineOfReader == IF flag THEN OwnLine ELSE typed = <<>>

\* No program runs under the page table of the kernel.
InUserSpace == current # NULL => cr3 # NULL

Foreground ==
  /\ DInv /\ InUserSpace /\ Chain
  /\ SlotIsReader /\ ReadersIdle /\ LineOfReader

\* What every task on the list has.
LEMMA FamilyTyped ==
  ASSUME IInv
  PROVE  /\ Listed \subseteq Tasks /\ NULL \notin Tasks
         /\ \A t \in Listed : /\ pid[t] \in Nat \ {0} /\ ppid[t] \in Nat
                              /\ parent[t] \in Tasks \cup {NULL}
                              /\ childCount[t] \in Counter
                              /\ ppid[t] > 0 => parent[t] # NULL
<1>1. Listed \subseteq Tasks /\ NULL \notin Tasks
  BY InRange, ProcessAssumption DEF IInv, TypeOK, Listed
<1>2. \A t \in Listed : /\ pid[t] \in Nat \ {0} /\ ppid[t] \in Nat
                        /\ parent[t] \in Tasks \cup {NULL}
                        /\ childCount[t] \in Counter
  BY <1>1 DEF IInv, TypeOK, ListsPartition
<1> QED BY <1>1, <1>2 DEF IInv, ChildHasParent

LEMMA SameChain ==
  ASSUME Chain, UNCHANGED <<pid, ppid, parent, childCount, lists>>
  PROVE  Chain'
BY DEF Chain, OneIdle, ParentIsBusy, OneChild, UserTasks, Idle, OldImage,
       lists, Listed

\* Another task than an idle one has no child that names it.
LEMMA IdleHasNoChild ==
  ASSUME Chain, NEW t, childCount[t] = 0
  PROVE  \A c \in Listed : ppid[c] > 0 => parent[c] # t
BY DEF Chain, ParentIsBusy

LEMMA ForkChain ==
  ASSUME IInv, Chain, NEW t \in Tasks, Fork(t), Idle(t)
  PROVE  Chain' /\ t \in UserTasks
<1>1. /\ t \in Listed /\ t \in Tasks /\ pid[t] # HelloPid
      /\ childCount[t] = 0 /\ ~OldImage(t)
  BY CallerListed DEF Fork, Calling, Idle
<1>2. PICK child \in FreeTask :
        /\ CreateTask(child, nextPid, [ppid EXCEPT ![child] = pid[t]], t)
        /\ childCount' = [[childCount EXCEPT ![child] = 0]
                            EXCEPT ![t] = (@ + 1) % Word]
  BY DEF Fork
<1>3. child \in Tasks /\ child \notin Listed /\ Listed' = Listed \cup {child}
  BY <1>2, CreateTaskEffect DEF IInv, TypeOK, ListsTyped, PidsGivenOut
<1>4. /\ nextPid' = nextPid + 1 /\ nextPid \in Nat /\ nextPid > HelloPid
      /\ pid' = [pid EXCEPT ![child] = nextPid]
      /\ ppid' = [ppid EXCEPT ![child] = pid[t]]
      /\ parent' = [parent EXCEPT ![child] = t]
  BY <1>2 DEF CreateTask, IInv, TypeOK, Chain
<1>5. /\ pid'[child] = nextPid /\ ppid'[child] = pid[t] /\ parent'[child] = t
      /\ \A u \in Listed : /\ pid'[u] = pid[u] /\ ppid'[u] = ppid[u]
                           /\ parent'[u] = parent[u]
  BY <1>3, <1>4, FamilyTyped DEF IInv, TypeOK
<1>6. /\ childCount'[child] = 0 /\ childCount'[t] = 1
      /\ \A u \in Listed \ {t} : childCount'[u] = childCount[u]
  <2>1. (0 + 1) % Word = 1
    BY ProcessAssumption
  <2>2. childCount'[t] = (childCount[t] + 1) % Word
    BY <1>1, <1>2, <1>3 DEF IInv, TypeOK
  <2>3. /\ childCount'[child] = 0
        /\ \A u \in Listed \ {t} : childCount'[u] = childCount[u]
    BY <1>1, <1>2, <1>3, FamilyTyped DEF IInv, TypeOK
  <2> QED BY <1>1, <2>1, <2>2, <2>3
<1>7. /\ UserTasks' = UserTasks \cup {child} /\ t \in UserTasks
      /\ child \notin UserTasks
  <2>1. nextPid # HelloPid
    BY <1>4 DEF HelloPid
  <2> QED BY <1>1, <1>3, <1>5, <2>1 DEF UserTasks
<1>8. \A u \in UserTasks : Idle(u)' => u # t /\ Idle(u)
  BY <1>5, <1>6 DEF UserTasks, Idle, OldImage
<1>9. OneIdle'
  BY <1>1, <1>7, <1>8 DEF Chain, OneIdle, Idle
<1>10. \A c \in Listed : ppid[c] > 0 => parent[c] # t
  BY <1>1, IdleHasNoChild
<1>11. ParentIsBusy'
  <2>1. ASSUME NEW c \in Listed, ppid'[c] > 0
        PROVE  /\ parent'[c] \in UserTasks' /\ childCount'[parent'[c]] = 1
               /\ ~OldImage(parent[c])'
    BY <1>5, <1>6, <1>7, <1>10, <2>1
       DEF Chain, ParentIsBusy, UserTasks, OldImage
  <2>2. /\ parent'[child] \in UserTasks' /\ childCount'[parent'[child]] = 1
        /\ ~OldImage(parent[child])'
    BY <1>1, <1>5, <1>6, <1>7 DEF OldImage
  <2> QED BY <1>3, <2>1, <2>2 DEF ParentIsBusy
<1>12. OneChild'
  BY <1>3, <1>5, <1>10 DEF Chain, OneChild
<1>13. nextPid' > HelloPid
  BY <1>4 DEF HelloPid
<1> QED BY <1>7, <1>9, <1>11, <1>12, <1>13 DEF Chain

LEMMA ExecveChain ==
  ASSUME IInv, Chain, NEW t \in Tasks, Execve(t), Idle(t), ppid[t] > 0
  PROVE  Chain' /\ t \in UserTasks
<1>1. /\ t \in Listed /\ t \in Tasks /\ pid[t] # HelloPid
      /\ childCount[t] = 0 /\ parent[t] # NULL /\ pid[t] \in Nat \ {0}
  BY CallerListed, FamilyTyped DEF Execve, Calling, Idle
<1>2. PICK image \in FreeTask :
        /\ CreateTask(image, pid[t],
                      [ppid EXCEPT ![image] = ppid[t], ![t] = 0], parent[t])
        /\ childCount' = [childCount EXCEPT ![image] = 0]
  BY DEF Execve
<1>3. image \in Tasks /\ image \notin Listed /\ Listed' = Listed \cup {image}
  BY <1>1, <1>2, CreateTaskEffect DEF IInv, TypeOK, ListsTyped
<1>4. /\ nextPid' = nextPid + 1 /\ nextPid \in Nat /\ nextPid > HelloPid
      /\ pid' = [pid EXCEPT ![image] = pid[t]]
      /\ ppid' = [ppid EXCEPT ![image] = ppid[t], ![t] = 0]
      /\ parent' = [parent EXCEPT ![image] = parent[t]]
  BY <1>2 DEF CreateTask, IInv, TypeOK, Chain
<1>5. /\ pid'[image] = pid[t] /\ ppid'[image] = ppid[t]
      /\ parent'[image] = parent[t] /\ ppid'[t] = 0
      /\ \A u \in Listed : pid'[u] = pid[u] /\ parent'[u] = parent[u]
      /\ \A u \in Listed \ {t} : ppid'[u] = ppid[u]
  BY <1>1, <1>3, <1>4, FamilyTyped DEF IInv, TypeOK
<1>6. /\ childCount'[image] = 0
      /\ \A u \in Listed : childCount'[u] = childCount[u]
  BY <1>2, <1>3, FamilyTyped DEF IInv, TypeOK
<1>7. /\ UserTasks' = UserTasks \cup {image} /\ t \in UserTasks
      /\ image \notin UserTasks
  BY <1>1, <1>3, <1>5 DEF UserTasks
<1>8. \A u \in UserTasks : Idle(u)' => u # t /\ Idle(u)
  BY <1>1, <1>5, <1>6 DEF UserTasks, Idle, OldImage
<1>9. OneIdle'
  BY <1>7, <1>8 DEF Chain, OneIdle
<1>10. \A c \in Listed : ppid[c] > 0 => parent[c] # t
  BY <1>1, IdleHasNoChild
<1>11. ParentIsBusy'
  <2>1. ASSUME NEW c \in Listed, ppid[c] > 0
        PROVE  /\ parent[c] \in UserTasks' /\ childCount'[parent[c]] = 1
               /\ ~(ppid'[parent[c]] = 0 /\ parent'[parent[c]] # NULL)
    BY <1>5, <1>6, <1>7, <1>10, <2>1
       DEF Chain, ParentIsBusy, UserTasks, OldImage
  <2>2. \A c \in Listed' : ppid'[c] > 0 =>
          \E d \in Listed : ppid[d] > 0 /\ parent'[c] = parent[d]
    BY <1>1, <1>3, <1>5
  <2> QED BY <2>1, <2>2 DEF ParentIsBusy, OldImage
<1>12. OneChild'
  BY <1>1, <1>3, <1>5 DEF Chain, OneChild
<1>13. nextPid' > HelloPid
  BY <1>4 DEF HelloPid
<1> QED BY <1>7, <1>9, <1>11, <1>12, <1>13 DEF Chain

\* An exit hands the place at the end of the chain to the parent.
LEMMA ExitChain ==
  ASSUME IInv, Chain, NEW t \in Listed, childCount[t] = 0, pid[t] # HelloPid,
         FreeTaskStruct(t, ParentCount(t))
  PROVE  /\ Chain' /\ Listed' = Listed \ {t}
         /\ ~(ppid[t] > 0) => \A u \in Listed' : Idle(u) => Idle(u)'
<1>1. /\ Listed' = Listed \ {t} /\ t \in Tasks
  BY FreeTaskEffect DEF IInv, TypeOK, ListsTyped
<1>2. /\ pid' = pid /\ nextPid' = nextPid
      /\ ppid' = [ppid EXCEPT ![t] = 0]
      /\ parent' = [parent EXCEPT ![t] = NULL]
      /\ childCount' = [ParentCount(t) EXCEPT ![t] = 0]
  BY DEF FreeTaskStruct
<1>3. \A u \in Listed' : /\ pid'[u] = pid[u] /\ ppid'[u] = ppid[u]
                         /\ parent'[u] = parent[u]
  BY <1>1, <1>2, FamilyTyped DEF IInv, TypeOK
<1>4. UserTasks' = UserTasks \ {t} /\ t \in UserTasks
  BY <1>1, <1>3 DEF UserTasks
<1>5. \A c \in Listed : ppid[c] > 0 => parent[c] # t
  BY IdleHasNoChild
<1>6. \A u \in Listed' :
        childCount'[u] = IF ppid[t] > 0 /\ u = parent[t] THEN 0
                                                          ELSE childCount[u]
  <2>1. CASE ppid[t] > 0
    <3>1. /\ parent[t] \in Listed /\ parent[t] \in Tasks
          /\ childCount[parent[t]] = 1
      BY <2>1, FamilyTyped DEF Chain, ParentIsBusy, UserTasks
    <3>2. ParentCount(t) = [childCount EXCEPT ![parent[t]] = (@ - 1) % Word]
      BY <2>1 DEF ParentCount
    <3>3. (1 - 1) % Word = 0
      BY ProcessAssumption
    <3>4. /\ ParentCount(t)[parent[t]] = 0
          /\ \A u \in Tasks : u # parent[t] =>
               ParentCount(t)[u] = childCount[u]
          /\ ParentCount(t) \in [Tasks -> Counter]
      <4>1. 0 \in Counter /\ childCount \in [Tasks -> Counter]
        BY ProcessAssumption DEF IInv, TypeOK, Counter
      <4>2. (childCount[parent[t]] - 1) % Word = 0
        BY <3>1, <3>3
      <4> QED BY <3>1, <3>2, <4>1, <4>2
    <3>5. \A u \in Listed' : childCount'[u] = ParentCount(t)[u]
      BY <1>1, <1>2, <3>4, FamilyTyped
    <3> QED BY <1>1, <2>1, <3>4, <3>5, FamilyTyped
  <2>2. CASE ~(ppid[t] > 0)
    <3>1. childCount' = [childCount EXCEPT ![t] = 0]
      BY <1>2, <2>2 DEF ParentCount
    <3> QED BY <1>1, <2>2, <3>1, FamilyTyped DEF IInv, TypeOK
  <2> QED BY <2>1, <2>2
<1>7. ~OldImage(t) \/ ~(ppid[t] > 0)
  BY DEF OldImage
<1>8. \A u \in UserTasks' :
        Idle(u)' => \/ ppid[t] > 0 /\ u = parent[t]
                    \/ Idle(u)
  BY <1>3, <1>6 DEF UserTasks, Idle, OldImage
<1>9. OneIdle'
  <2>1. ppid[t] > 0 => \A u \in UserTasks' : ~Idle(u)
    BY <1>4, <1>7 DEF Chain, OneIdle, Idle
  <2> QED BY <1>4, <1>8, <2>1 DEF Chain, OneIdle
<1>10. ParentIsBusy'
  <2>1. ASSUME NEW c \in Listed', ppid'[c] > 0
        PROVE  /\ parent'[c] \in UserTasks' /\ childCount'[parent'[c]] = 1
               /\ ~(ppid'[parent'[c]] = 0 /\ parent'[parent'[c]] # NULL)
    <3>1. /\ c \in Listed /\ c # t /\ ppid[c] > 0 /\ parent'[c] = parent[c]
      BY <1>1, <1>3, <2>1
    <3>2. /\ parent[c] \in UserTasks /\ childCount[parent[c]] = 1
          /\ ~OldImage(parent[c]) /\ parent[c] # t
      BY <1>5, <3>1 DEF Chain, ParentIsBusy
    <3>3. ~(ppid[t] > 0 /\ parent[c] = parent[t])
      BY <3>1 DEF Chain, OneChild
    <3>4. parent[c] \in Listed' /\ parent[c] \in UserTasks'
      BY <1>1, <1>4, <3>2 DEF UserTasks
    <3> QED BY <1>3, <1>6, <3>1, <3>2, <3>3, <3>4 DEF OldImage
  <2> QED BY <2>1 DEF ParentIsBusy, OldImage
<1>11. OneChild'
  BY <1>1, <1>3 DEF Chain, OneChild
<1>12. ~(ppid[t] > 0) => \A u \in Listed' : Idle(u) => Idle(u)'
  BY <1>3, <1>6 DEF Idle, OldImage
<1> QED BY <1>1, <1>2, <1>9, <1>10, <1>11, <1>12 DEF Chain

-----------------------------------------------------------------------------
(* The steps while programs keep to the foreground. *)

\* What it takes for a step of the process manager to leave the reads alone.
LEMMA StillReading ==
  ASSUME Foreground, DInv', Chain', InUserSpace', StillIn(inRead),
         UNCHANGED <<flag, waiter, want, typed>>,
         \A t \in inRead : /\ t \in Listed' /\ pid'[t] = pid[t]
                           /\ Idle(t)' /\ state'[t] = "WAITING"
  PROVE  Foreground'
<1>1. inRead' = inRead
  BY DEF StillIn
<1>2. SlotIsReader' /\ LineOfReader'
  BY <1>1 DEF Foreground, SlotIsReader, LineOfReader, OwnLine
<1>3. ReadersIdle'
  BY <1>1 DEF Foreground, ReadersIdle, UserTasks
<1> QED BY <1>2, <1>3 DEF Foreground

\* When the program without a child runs, nobody reads.
LEMMA NobodyReads ==
  ASSUME Foreground, NEW t \in UserTasks, Idle(t), state[t] = "RUNNING"
  PROVE  inRead = {} /\ ~flag /\ typed = <<>>
<1>1. \A u \in inRead : u = t
  BY DEF Foreground, ReadersIdle, Chain, OneIdle
<1>2. inRead = {}
  BY <1>1 DEF Foreground, ReadersIdle
<1> QED BY <1>2 DEF Foreground, SlotIsReader, LineOfReader

\* A reader has not got the CPU, and is on no list but the task list.
LEMMA ReaderWaits ==
  ASSUME Foreground
  PROVE  /\ inRead \subseteq Listed /\ inRead \subseteq Tasks
         /\ current \notin inRead /\ Hello \notin inRead
         /\ inRead \cap Freed = {}
<1>1. inRead \subseteq Listed
  BY DEF Foreground, ReadersIdle, UserTasks
<1>2. Hello \notin inRead
  BY DEF Foreground, ReadersIdle, UserTasks, DInv
<1>3. current \notin inRead
  BY <1>1 DEF Foreground, ReadersIdle, DInv, StatesFit, Listed
<1> QED BY <1>1, <1>2, <1>3, LiveIsListed
        DEF Foreground, DInv, IInv, ListsPartition

\* A system call of a quiet step leaves the page table of some task loaded.
LEMMA CallerInUserSpace ==
  ASSUME NEW t \in Tasks, NEW call, Calling(t, call), ForegroundStep
  PROVE  InUserSpace'
BY ProcessAssumption DEF Calling, ForegroundStep, InUserSpace

LEMMA TimerForeground ==
  ASSUME Foreground, ProcessStep(TimerIRQ)
  PROVE  Foreground'
<1>0. DInv /\ InUserSpace /\ Chain
  BY DEF Foreground
<1>1. /\ TimerIRQ /\ StillIn(inRead) /\ UNCHANGED <<flag, waiter, want, typed>>
      /\ TimerInterrupt(taskList, state, sleepTime, current, cr3)
      /\ UNCHANGED <<family, lists>>
  BY DEF ProcessStep, TimerIRQ
<1>2. DInv'
  BY <1>0, <1>1, TimerIRQRefines
<1>3. UNCHANGED <<pid, ppid, parent, childCount, lists>>
  BY <1>1 DEF family
<1>4. Listed' = Listed /\ \A u : Idle(u)' = Idle(u)
  BY <1>3 DEF lists, Listed, Idle, OldImage
<1>5. Chain'
  BY <1>0, <1>3, SameChain
<1>6. /\ taskList \in Seq(Tasks) /\ taskList # <<>>
      /\ Head(taskList) = Hello /\ current \in Tasks \cup {NULL}
      /\ state \in [Tasks -> States] /\ sleepTime \in [Tasks -> Counter]
      /\ ticks \in 0 .. TicksPerSecond - 1
  BY <1>0 DEF DInv, IInv, TypeOK, HelloFirst
<1>7. InUserSpace'
  <2>1. \/ current' = current /\ cr3' = cr3
        \/ current' \in Range(taskList) /\ cr3' = current'
    BY <1>1, <1>6, TimerEffect
  <2> QED BY <1>0, <2>1, ProcessAssumption DEF InUserSpace
<1>8. \A u \in Tasks : state[u] = "WAITING" => state'[u] = "WAITING"
  BY <1>0, <1>1, <1>6, HelloReady, TimerKeepsWaiting
<1>9. \A u \in inRead : /\ u \in Listed' /\ pid'[u] = pid[u]
                        /\ Idle(u)' /\ state'[u] = "WAITING"
  BY <1>3, <1>4, <1>8, ReaderWaits DEF Foreground, ReadersIdle
<1> QED BY <1>1, <1>2, <1>5, <1>7, <1>9, StillReading

LEMMA ForkForeground ==
  ASSUME Foreground, NEW t \in Tasks, Fork(t), ForegroundStep,
         StillIn(inRead), UNCHANGED <<flag, waiter, want, typed>>
  PROVE  Foreground'
<1>0. DInv /\ IInv /\ Chain
  BY DEF Foreground, DInv
<1>1. current = t /\ state[t] = "RUNNING" /\ DInv' /\ InUserSpace'
  BY <1>0, CallerRuns, CallerInUserSpace, ForkRefines DEF Fork
<1>2. Idle(t)
  <2>1. nextPid' = nextPid + 1 /\ nextPid \in Nat
    BY <1>0 DEF Fork, CreateTask, IInv, TypeOK
  <2> QED BY <1>1, <2>1 DEF ForegroundStep
<1>3. Chain' /\ t \in UserTasks
  BY <1>0, <1>2, ForkChain
<1>4. inRead = {}
  BY <1>1, <1>2, <1>3, NobodyReads
<1> QED BY <1>1, <1>3, <1>4, StillReading

LEMMA ExecveForeground ==
  ASSUME Foreground, NEW t \in Tasks, Execve(t), ForegroundStep,
         StillIn(inRead), UNCHANGED <<flag, waiter, want, typed>>
  PROVE  Foreground'
<1>0. DInv /\ IInv /\ Chain
  BY DEF Foreground, DInv
<1>1. current = t /\ state[t] = "RUNNING" /\ DInv' /\ InUserSpace'
  BY <1>0, CallerRuns, CallerInUserSpace, ExecveRefines DEF Execve
<1>2. Idle(t) /\ ppid[t] > 0
  <2>1. nextPid' = nextPid + 1 /\ nextPid \in Nat /\ current' = current
    BY <1>0 DEF Execve, CreateTask, IInv, TypeOK
  <2> QED BY <1>1, <2>1 DEF ForegroundStep
<1>3. Chain' /\ t \in UserTasks
  BY <1>0, <1>2, ExecveChain
<1>4. inRead = {}
  BY <1>1, <1>2, <1>3, NobodyReads
<1> QED BY <1>1, <1>3, <1>4, StillReading

LEMMA ExitForeground ==
  ASSUME Foreground, NEW t \in Tasks, Exit(t), ForegroundStep,
         StillIn(inRead), UNCHANGED <<flag, waiter, want, typed>>
  PROVE  Foreground'
<1>0. DInv /\ IInv /\ Chain
  BY DEF Foreground, DInv
<1>1. /\ t \in Listed /\ current = t /\ t # Hello /\ state[t] = "RUNNING"
      /\ pid[t] # HelloPid
      /\ DInv' /\ InUserSpace' /\ ExitTask(t)
  <2>1. /\ t \in Listed /\ current = t /\ t # Hello /\ state[t] = "RUNNING"
        /\ pid[t] # HelloPid
        /\ InUserSpace' /\ ExitTask(t)
    BY <1>0, CallerRuns, CallerInUserSpace DEF Exit, Calling
  <2> QED BY <1>0, <2>1, ExitTaskRefines
<1>2. FreeTaskStruct(t, ParentCount(t))
  BY <1>1 DEF ExitTask
<1>3. Listed' = Listed \ {t} /\ pid' = pid
  BY <1>0, <1>1, <1>2, FreeTaskEffect
     DEF FreeTaskStruct, IInv, TypeOK, ListsTyped
<1>4. childCount[t] = 0
  BY <1>1, <1>3 DEF ForegroundStep
<1>5. /\ Chain'
      /\ ~(ppid[t] > 0) => \A u \in Listed' : Idle(u) => Idle(u)'
  BY <1>0, <1>1, <1>2, <1>4, ExitChain
<1>6. CASE ppid[t] > 0
  <2>1. Idle(t) /\ t \in UserTasks
    BY <1>1, <1>4, <1>6 DEF Idle, OldImage, UserTasks
  <2>2. inRead = {}
    BY <1>1, <2>1, NobodyReads
  <2> QED BY <1>1, <1>5, <2>2, StillReading
<1>7. CASE ~(ppid[t] > 0)
  <2> DEFINE st == [ParentState(t) EXCEPT ![t] = "STOPPED"]
  <2>1. TimerInterrupt(taskList', st, [sleepTime EXCEPT ![t] = 0], NULL, NULL)
    BY <1>1 DEF ExitTask
  <2>2. /\ st \in [Tasks -> States] /\ st[Hello] # "WAITING"
        /\ \A u \in Tasks \ {t} : st[u] = state[u]
    BY <1>0, <1>7, HelloReady DEF ParentState, States
  <2> HIDE DEF st
  <2>3. \A u \in Tasks \ {t} : state[u] = "WAITING" => state'[u] = "WAITING"
    BY <1>0, <1>1, <2>1, <2>2, CallKeepsWaiting
  <2>4. \A u \in inRead : /\ u \in Listed' /\ pid'[u] = pid[u]
                          /\ Idle(u)' /\ state'[u] = "WAITING"
    BY <1>1, <1>3, <1>5, <1>7, <2>3, ReaderWaits DEF Foreground, ReadersIdle
  <2> QED BY <1>1, <1>5, <2>4, StillReading
<1> QED BY <1>6, <1>7

\* waitpid and sleep.
LEMMA BlockForeground ==
  ASSUME Foreground, IInv', NEW t \in Tasks, NEW call, Calling(t, call),
         NEW b \in {"SLEEP", "WAITING"}, NEW slp,
         TimerInterrupt(taskList, [state EXCEPT ![t] = b], slp, NULL, t),
         UNCHANGED <<pid, ppid, parent, childCount, lists, crashed>>,
         ForegroundStep, StillIn(inRead), UNCHANGED <<flag, waiter, want, typed>>
  PROVE  Foreground'
<1>0. DInv /\ Chain
  BY DEF Foreground
<1>1. /\ current = t /\ t # Hello /\ InUserSpace' /\ DInv'
      /\ taskList' = taskList /\ Listed' = Listed
  <2>1. current = t /\ t # Hello /\ InUserSpace'
    BY <1>0, CallerRuns, CallerInUserSpace
  <2>2. UNCHANGED <<pid, lists, crashed>>
    OBVIOUS
  <2>3. DInv'
    BY <1>0, <2>2, BlockRefines
  <2> QED BY <2>1, <2>3 DEF lists, Listed
<1>2. Chain' /\ \A u : Idle(u)' = Idle(u)
  BY <1>0, SameChain DEF Idle, OldImage
<1> DEFINE st == [state EXCEPT ![t] = b]
<1>3. /\ st \in [Tasks -> States] /\ st[Hello] # "WAITING"
      /\ \A u \in Tasks \ {t} : st[u] = state[u]
  BY <1>0, <1>1, HelloReady DEF States
<1> HIDE DEF st
<1>4. TimerInterrupt(taskList', st, slp, NULL, t)
  BY <1>1 DEF st
<1>5. \A u \in Tasks \ {t} : state[u] = "WAITING" => state'[u] = "WAITING"
  BY <1>0, <1>1, <1>3, <1>4, CallKeepsWaiting
<1>6. \A u \in inRead : /\ u \in Listed' /\ pid'[u] = pid[u]
                        /\ Idle(u)' /\ state'[u] = "WAITING"
  BY <1>1, <1>2, <1>5, ReaderWaits DEF Foreground, ReadersIdle
<1> QED BY <1>1, <1>2, <1>6, StillReading

\* kill leaves the page table of the kernel loaded; a fault needs it.
LEMMA NoKill ==
  ASSUME NEW t \in Tasks, NEW p, Kill(t, p)
  PROVE  ~ForegroundStep
BY ProcessAssumption DEF Kill, Calling, ForegroundStep

LEMMA NoFault ==
  ASSUME Foreground, NEW t \in Tasks
  PROVE  ~PageFault(t)
BY ProcessAssumption DEF Foreground, InUserSpace, PageFault

LEMMA ReadForeground ==
  ASSUME Foreground, IInv', NEW t \in Tasks, NEW size \in ReadSizes,
         Read(t, size), ForegroundStep
  PROVE  Foreground'
<1>0. DInv /\ Chain
  BY DEF Foreground
<1>1. /\ Calling(t, "read") /\ WaitForLine(t, size) /\ typed' = typed
      /\ TimerInterrupt(taskList, [state EXCEPT ![t] = "WAITING"], sleepTime,
                        NULL, t)
      /\ UNCHANGED <<family, lists, crashed>> /\ StillIn(inRead \cup {t})
  BY DEF Read
<1>2. /\ t \in Listed /\ current = t /\ t # Hello /\ state[t] = "RUNNING"
      /\ InUserSpace' /\ pid[t] # HelloPid
      /\ taskList' = taskList /\ Listed' = Listed
  BY <1>0, <1>1, CallerRuns, CallerInUserSpace DEF Calling, lists, Listed
<1>3. DInv'
  <2>1. UNCHANGED <<pid, lists, crashed>>
    BY <1>1 DEF family
  <2> QED BY <1>0, <1>1, <2>1, BlockRefines
<1>4. UNCHANGED <<pid, ppid, parent, childCount, lists>>
  BY <1>1 DEF family
<1>5. Chain' /\ \A u : Idle(u)' = Idle(u)
  BY <1>0, <1>4, SameChain DEF Idle, OldImage
<1> DEFINE st == [state EXCEPT ![t] = "WAITING"]
<1>6. st \in [Tasks -> States] /\ st[Hello] # "WAITING" /\ st[t] = "WAITING"
  BY <1>0, <1>2, HelloReady DEF States
<1> HIDE DEF st
<1>7. TimerInterrupt(taskList', st, sleepTime, NULL, t)
  BY <1>1, <1>2 DEF st
<1>8. state'[t] = "WAITING"
  BY <1>0, <1>3, <1>6, <1>7, CallKeepsWaiting
<1>9. t \in inRead' /\ t \notin inRead
  BY <1>1, <1>2, <1>8, ReaderWaits DEF StillIn
<1>10. Idle(t) /\ t \in UserTasks
  BY <1>2, <1>9 DEF ForegroundStep, UserTasks
<1>11. inRead = {} /\ typed = <<>>
  BY <1>2, <1>10, NobodyReads
<1>12. inRead' = {t}
  BY <1>1, <1>9, <1>11 DEF StillIn
<1>13. SlotIsReader' /\ ReadersIdle'
  BY <1>1, <1>2, <1>4, <1>5, <1>8, <1>10, <1>12
     DEF SlotIsReader, ReadersIdle, WaitForLine, UserTasks
<1>14. LineOfReader'
  <2>1. size > 0 /\ size \in Nat
    BY KeyboardAssumption
  <2>2. Len(typed') = 0 /\ DOMAIN typed' = {}
    BY <1>1, <1>11, EmptySeq, LenProperties
  <2> QED BY <1>1, <2>1, <2>2 DEF LineOfReader, OwnLine, WaitForLine
<1> QED BY <1>2, <1>3, <1>5, <1>13, <1>14 DEF Foreground

\* What a key may do to the tasks.
LEMMA KeyDInv ==
  ASSUME DInv, IInv',
         UNCHANGED <<family, lists, sleepTime, current, cr3, ticks, crashed>>,
         \A u \in Listed :
           \/ state'[u] = state[u]
           \/ u # Hello /\ state[u] = "WAITING" /\ state'[u] = "RUNNABLE"
  PROVE  DInv'
<1>1. Listed' = Listed /\ taskList' = taskList /\ pid' = pid
  BY DEF lists, Listed, family
<1>2. StatesFit(taskList, state, current)'
  BY <1>1 DEF DInv, StatesFit, Listed
<1>3. HelloFirst(taskList, state)'
  BY <1>1, LiveIsListed DEF DInv, HelloFirst
<1> QED BY <1>1, <1>2, <1>3 DEF DInv

\* The chain and the page table stay as they are.
LEMMA KeyKeeps ==
  ASSUME Foreground,
         UNCHANGED <<family, lists, sleepTime, current, cr3, ticks>>
  PROVE  /\ Chain' /\ InUserSpace' /\ Listed' = Listed /\ pid' = pid
         /\ \A u : Idle(u)' = Idle(u)
<1>1. UNCHANGED <<pid, ppid, parent, childCount, lists>>
  BY DEF family
<1>2. Chain'
  BY <1>1, SameChain DEF Foreground
<1> QED BY <1>1, <1>2
        DEF lists, Listed, Idle, OldImage, Foreground, InUserSpace

LEMMA DeliverForeground ==
  ASSUME Foreground, IInv', flag, Deliver, StillIn(inRead),
         UNCHANGED <<family, lists, sleepTime, current, cr3, ticks>>
  PROVE  Foreground'
<1>1. inRead = {waiter} /\ waiter \in Listed /\ waiter # Hello
      /\ waiter \notin Freed /\ waiter \in Tasks /\ state[waiter] = "WAITING"
  BY ReaderWaits DEF Foreground, SlotIsReader, ReadersIdle
<1>2. /\ ~flag' /\ typed' = <<>> /\ crashed' = crashed
      /\ state' = [state EXCEPT ![waiter] = "RUNNABLE"]
  BY <1>1 DEF Deliver
<1>3. /\ state'[waiter] = "RUNNABLE"
      /\ \A u \in Listed : u # waiter => state'[u] = state[u]
  BY <1>1, <1>2, LiveIsListed DEF Foreground, DInv, IInv, TypeOK
<1>4. DInv'
  BY <1>1, <1>2, <1>3, KeyDInv DEF Foreground
<1>5. inRead' = {}
  BY <1>1, <1>3 DEF StillIn
<1>6. SlotIsReader' /\ ReadersIdle' /\ LineOfReader'
  BY <1>2, <1>5 DEF SlotIsReader, ReadersIdle, LineOfReader
<1> QED BY <1>4, <1>6, KeyKeeps DEF Foreground

LEMMA CollectForeground ==
  ASSUME Foreground, IInv', flag, NEW line, Collect(line), StillIn(inRead),
         Len(line) < want, \A i \in DOMAIN line : line[i] = waiter,
         UNCHANGED <<family, lists, sleepTime, current, cr3, ticks>>
  PROVE  Foreground'
<1>1. /\ typed' = line /\ UNCHANGED <<flag, waiter, want, state, crashed>>
  BY DEF Collect
<1>2. DInv'
  BY <1>1, KeyDInv DEF Foreground
<1>3. Chain' /\ InUserSpace' /\ Listed' = Listed /\ pid' = pid
      /\ \A u : Idle(u)' = Idle(u)
  BY KeyKeeps
<1>4. inRead' = inRead
  BY <1>1, <1>3, ReaderWaits DEF StillIn, Foreground, ReadersIdle
<1>5. SlotIsReader' /\ ReadersIdle'
  BY <1>1, <1>3, <1>4
     DEF Foreground, SlotIsReader, ReadersIdle, UserTasks
<1>6. LineOfReader'
  BY <1>1 DEF LineOfReader, OwnLine
<1> QED BY <1>2, <1>3, <1>5, <1>6 DEF Foreground

LEMMA CharacterForeground ==
  ASSUME KIInv, Foreground, IInv', Character, StillIn(inRead),
         UNCHANGED <<family, lists, sleepTime, current, cr3, ticks>>
  PROVE  Foreground'
<1> DEFINE line == Append(typed, waiter)
<1>1. flag /\ OwnLine
  BY DEF Character, Foreground, LineOfReader
<1>2. CASE Len(line) >= want
  BY <1>1, <1>2, DeliverForeground DEF Character
<1>3. CASE ~(Len(line) >= want)
  <2>1. typed \in Seq(Tasks) /\ waiter \in Tasks /\ want \in Nat
    BY <1>1, KeyboardAssumption DEF KIInv, Buffered, SlotSet
  <2>2. Len(line) \in Nat /\ \A i \in DOMAIN line : line[i] = waiter
    <3>1. /\ line \in Seq(Tasks) /\ Len(line) = Len(typed) + 1
          /\ \A i \in 1 .. Len(typed) : line[i] = typed[i]
          /\ line[Len(typed) + 1] = waiter
      BY <2>1, AppendProperties
    <3>2. /\ DOMAIN line = 1 .. Len(typed) + 1 /\ Len(typed) \in Nat
          /\ DOMAIN typed = 1 .. Len(typed)
      BY <2>1, <3>1, LenProperties
    <3> HIDE DEF line
    <3> QED BY <1>1, <3>1, <3>2 DEF OwnLine
  <2>3. Collect(line)
    BY <1>3 DEF Character
  <2> HIDE DEF line
  <2>4. Len(line) < want
    BY <1>3, <2>1, <2>2
  <2> QED BY <1>1, <2>2, <2>3, <2>4, CollectForeground
<1> QED BY <1>2, <1>3

LEMMA KeyForeground ==
  ASSUME KIInv, Foreground, IInv', Key(Enter) \/ Key(Character) \/ Key(Backspace)
  PROVE  Foreground'
<1>1. /\ UNCHANGED <<family, lists, sleepTime, current, cr3, ticks>>
      /\ StillIn(inRead)
  BY DEF Key
<1>2. CASE Key(Enter)
  BY <1>1, <1>2, DeliverForeground DEF Key, Enter
<1>3. CASE Key(Character)
  BY <1>1, <1>3, CharacterForeground DEF Key
<1>4. CASE Key(Backspace) /\ typed = <<>>
  BY <1>1, <1>4, CharacterForeground DEF Key, Backspace
<1>5. CASE Key(Backspace) /\ typed # <<>>
  <2> DEFINE n == Len(typed) - 1
             line == SubSeq(typed, 1, n)
  <2>1. flag /\ OwnLine /\ Collect(line)
    BY <1>5 DEF Key, Backspace, Foreground, LineOfReader
  <2>2. /\ typed \in Seq(Tasks) /\ Len(typed) \in Nat /\ Len(typed) # 0
        /\ want \in Nat /\ DOMAIN typed = 1 .. Len(typed)
    BY <1>5, KeyboardAssumption, EmptySeq, LenProperties DEF KIInv, Buffered
  <2>3. n \in Nat /\ n < want
    BY <2>1, <2>2 DEF OwnLine
  <2>4. line \in Seq(Tasks) /\ Len(line) = n
    BY <2>2, ButLast
  <2>5. \A i \in 1 .. n : typed[i] = waiter
    BY <2>1, <2>2 DEF OwnLine
  <2>6. \A i \in 1 .. n : line[i] = typed[i]
    BY <2>3
  <2>7. DOMAIN line = 1 .. n
    BY <2>4, LenProperties
  <2> HIDE DEF line, n
  <2> QED BY <1>1, <2>1, <2>3, <2>4, <2>5, <2>6, <2>7, CollectForeground
<1> QED BY <1>2, <1>3, <1>4, <1>5

LEMMA InitForeground == KInit => Foreground
<1> SUFFICES ASSUME KInit PROVE Foreground
  OBVIOUS
<1>1. DInv
  BY InitRefines DEF KInit
<1>2. Listed = Boot
  BY DEF KInit, Init, Listed, Range, Boot
<1>3. Chain
  <2>1. UserTasks \subseteq {Sbush}
    BY <1>2, ProcessAssumption DEF KInit, Init, UserTasks, Boot
  <2>2. \A t \in Listed : ppid[t] = 0
    BY <1>2, ProcessAssumption DEF KInit, Init, Boot
  <2> QED BY <2>1, <2>2
          DEF Chain, OneIdle, ParentIsBusy, OneChild, KInit, Init, HelloPid
<1>4. InUserSpace /\ SlotIsReader /\ ReadersIdle /\ LineOfReader
  BY DEF KInit, Init, InUserSpace, SlotIsReader, ReadersIdle, LineOfReader
<1> QED BY <1>1, <1>3, <1>4 DEF Foreground

LEMMA NextForeground ==
  ASSUME KIInv, KIInv', Foreground, [KNext]_kvars, ForegroundStep
  PROVE  Foreground'
<1>0. IInv /\ IInv'
  BY DEF KIInv
<1>1. CASE ProcessStep(TimerIRQ)
  BY <1>1, TimerForeground
<1>2. ASSUME NEW t \in Tasks, ProcessStep(KSyscall(t) \/ PageFault(t))
      PROVE  Foreground'
  <2>1. Syscall(t) /\ StillIn(inRead) /\ UNCHANGED <<flag, waiter, want, typed>>
    BY <1>2, NoFault DEF ProcessStep, KSyscall
  <2>2. CASE Fork(t)
    BY <2>1, <2>2, ForkForeground
  <2>3. CASE Execve(t)
    BY <2>1, <2>3, ExecveForeground
  <2>4. CASE Exit(t)
    BY <2>1, <2>4, ExitForeground
  <2>5. ASSUME NEW p, Waitpid(t, p) PROVE Foreground'
    BY <1>0, <2>1, <2>5, BlockForeground DEF Waitpid
  <2>6. ASSUME NEW p, Kill(t, p) PROVE Foreground'
    BY <2>6, NoKill
  <2>7. ASSUME NEW sec \in SleepArgs, Sleep(t, sec) PROVE Foreground'
    <3> DEFINE slp == [sleepTime EXCEPT ![t] = (sec - 1) % Word]
    <3>1. /\ Calling(t, "sleep")
          /\ TimerInterrupt(taskList, [state EXCEPT ![t] = "SLEEP"], slp, NULL, t)
          /\ UNCHANGED <<pid, ppid, parent, childCount, lists, crashed>>
      BY <2>7 DEF Sleep, family
    <3> HIDE DEF slp
    <3> QED BY <1>0, <2>1, <3>1, BlockForeground
  <2> QED BY <2>1, <2>2, <2>3, <2>4, <2>5, <2>6, <2>7 DEF Syscall
<1>3. ASSUME NEW t \in Tasks, NEW size \in ReadSizes, Read(t, size)
      PROVE  Foreground'
  BY <1>0, <1>3, ReadForeground
<1>4. CASE Key(Enter) \/ Key(Character) \/ Key(Backspace)
  BY <1>0, <1>4, KeyForeground
<1>5. CASE UNCHANGED kvars
  BY <1>5 DEF kvars, vars, family, lists, clock, keyboard, Foreground, DInv,
              InUserSpace, Chain, OneIdle, ParentIsBusy, OneChild, UserTasks,
              Idle, OldImage, SlotIsReader, ReadersIdle, LineOfReader, OwnLine,
              StatesFit, HelloFirst, Listed, KIInv
<1> QED BY <1>1, <1>2, <1>3, <1>4, <1>5 DEF KNext

-----------------------------------------------------------------------------
(* The theorems. *)

\* So scanf mode always has a task in the slot, and the line a place in the buffer.
THEOREM KIInvHolds == KSpec => []KIInv
BY KInitKIInv, KNextKIInv, PTL DEF KSpec

\* Type correctness of the keyboard and of the process manager under it.
THEOREM KTypeCorrect == KSpec => []KTypeOK
<1>1. KIInv => KTypeOK
  BY DEF KIInv, IInv, Buffered, KTypeOK
<1> QED BY <1>1, KIInvHolds, PTL

\* handlekey never writes past the end of a[], for every size of the buffer and
\* every mix of read sizes up to it.
THEOREM LineNeverOverflows == KSpec => []LineFits
BY KIInvHolds, PTL DEF KIInv, Buffered

\* The same with the history of what programs did.
QuietInv == KIInv /\ (quiet => Foreground)

LEMMA QuietStep ==
  ASSUME QuietInv,
         [KNext /\ quiet' = (quiet /\ ForegroundStep)]_<<kvars, quiet>>
  PROVE  QuietInv'
<1>1. [KNext]_kvars /\ (quiet' = (quiet /\ ForegroundStep)
                         \/ UNCHANGED <<kvars, quiet>>)
  OBVIOUS
<1>2. KIInv'
  BY <1>1, KNextKIInv DEF QuietInv
<1>3. CASE quiet' = (quiet /\ ForegroundStep)
  BY <1>1, <1>2, <1>3, NextForeground DEF QuietInv
<1>4. CASE UNCHANGED <<kvars, quiet>>
  BY <1>2, <1>4
     DEF kvars, vars, family, lists, clock, keyboard, Foreground, DInv,
         InUserSpace, Chain, OneIdle, ParentIsBusy, OneChild, UserTasks,
         Idle, OldImage, SlotIsReader, ReadersIdle, LineOfReader, OwnLine,
         StatesFit, HelloFirst, Listed, KIInv, QuietInv
<1> QED BY <1>1, <1>2, <1>3, <1>4

\* While programs keep to the foreground discipline they are a chain, of which the
\* last alone may be in a read.
THEOREM QuietInvHolds == MCSpec => []QuietInv
<1>1. MCInit => QuietInv
  BY KInitKIInv, InitForeground DEF MCInit, QuietInv
<1>2. QuietInv /\ [KNext /\ quiet' = (quiet /\ ForegroundStep)]_<<kvars, quiet>>
        => QuietInv'
  BY QuietStep
<1> QED BY <1>1, <1>2, PTL DEF MCSpec

\* Until a program starts a job in the background, kills or leaves a child
\* behind, the wait slot of sys/kb.c holds the one task that reads: no read is
\* forgotten, and the keyboard wakes no task that waits for something else.
THEOREM SlotHoldsReader == MCSpec => []QuietSlotIsReader
<1>1. QuietInv => QuietSlotIsReader
  BY DEF QuietInv, QuietSlotIsReader, Foreground
<1> QED BY <1>1, QuietInvHolds, PTL

\* And what is collected was typed for that task and fits in its buffer: no
\* character is left over from the read before.
THEOREM LineIsReaders == MCSpec => []QuietOwnLine
<1>1. QuietInv => QuietOwnLine
  BY DEF QuietInv, QuietOwnLine, Foreground, LineOfReader, OwnLine
<1> QED BY <1>1, QuietInvHolds, PTL

=============================================================================
