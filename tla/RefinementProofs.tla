-------------------------- MODULE RefinementProofs --------------------------
(***************************************************************************)
(* Process implements Dispatcher whatever programs do, as long as nobody   *)
(* kills hello or itself; and what the parent pointers and child_count of  *)
(* the tasks say, for every set of task_struct's and every bound.          *)
(***************************************************************************)
EXTENDS ProcessProofs, ProcessRefinement, FiniteSetTheorems

\* What a list and the states say of the tasks on it.
ReadyOn(list, st, cur) == {t \in Range(list) : t # cur /\ st[t] = "RUNNABLE"}
SleepingOn(list, st)   == {t \in Range(list) : st[t] = "SLEEP"}
WaitingOn(list, st)    == {t \in Range(list) : st[t] = "WAITING"}
StatesFit(list, st, cur) ==
  \A t \in Range(list) : st[t] # "STOPPED" /\ (st[t] = "RUNNING" <=> t = cur)

\* Hello is the head of the list, and it runs or can run.
HelloFirst(list, st) ==
  /\ list # <<>> /\ Head(list) = Hello
  /\ st[Hello] \in {"RUNNING", "RUNNABLE"}

\* The set of tasks among which the timer interrupt chooses.
Candidates(list, st, cur, woken) ==
  ReadyOn(list, st, cur) \cup woken \cup ({cur} \ {NULL})

\* The scheduler hands the CPU to a candidate, and the others wait for it.
LEMMA ScheduleDispatches ==
  ASSUME NEW list \in Seq(Tasks), NEW st \in [Tasks -> States],
         NEW cur \in Range(list) \cup {NULL}, NEW pt,
         StatesFit(list, st, cur), HelloFirst(list, st),
         Schedule(list, st, cur, pt)
  PROVE  /\ current' \in Candidates(list, st, cur, {})
         /\ cr3' = current' \/ (current' = cur /\ cr3' = pt)
         /\ ReadyOn(list, state', current') =
              Candidates(list, st, cur, {}) \ {current'}
         /\ SleepingOn(list, state') = SleepingOn(list, st)
         /\ WaitingOn(list, state') = WaitingOn(list, st)
         /\ StatesFit(list, state', current')
         /\ HelloFirst(list, state')
<1> DEFINE next == NextTask(list, st, cur)
<1>1. \/ /\ next = NULL
         /\ IF cur = NULL THEN list = <<>>
            ELSE \A t \in Range(list) \ {cur} : st[t] # "RUNNABLE"
      \/ /\ next \in Range(list)
         /\ IF cur = NULL THEN list # <<>> /\ next = Head(list)
            ELSE next # cur /\ st[next] = "RUNNABLE"
  BY NextTaskEffect
<1>2. Range(list) \subseteq Tasks /\ NULL \notin Tasks /\ Hello \in Range(list)
  BY InRange, PopHead, ProcessAssumption DEF HelloFirst
<1>3. IF next = NULL
      THEN state' = st /\ current' = cur /\ cr3' = pt
      ELSE /\ state' = [t \in Tasks |-> IF t = next THEN "RUNNING"
                                        ELSE IF t = cur THEN "RUNNABLE"
                                        ELSE st[t]]
           /\ current' = next
           /\ cr3' = next
  BY DEF Schedule
<1> HIDE DEF next
<1>4. CASE next = NULL
  <2>1. cur # NULL /\ state' = st /\ current' = cur /\ cr3' = pt
    BY <1>1, <1>2, <1>3, <1>4 DEF HelloFirst
  <2>2. ReadyOn(list, st, cur) = {}
    BY <1>1, <1>2, <1>4, <2>1 DEF ReadyOn
  <2> QED BY <2>1, <2>2 DEF Candidates
<1>5. CASE next # NULL
  <2>1. /\ current' = next /\ cr3' = next /\ next \in Range(list)
        /\ state' = [t \in Tasks |-> IF t = next THEN "RUNNING"
                                     ELSE IF t = cur THEN "RUNNABLE"
                                     ELSE st[t]]
        /\ st[next] = "RUNNABLE" /\ next # cur
    <3>1. CASE cur = NULL
      BY <1>1, <1>2, <1>3, <1>5, <3>1 DEF HelloFirst, StatesFit
    <3>2. CASE cur # NULL
      BY <1>1, <1>3, <1>5, <3>2
    <3> QED BY <3>1, <3>2
  <2>2. current' \in Candidates(list, st, cur, {})
    BY <2>1 DEF Candidates, ReadyOn
  <2>3. \A t \in Range(list) :
          state'[t] = IF t = next THEN "RUNNING"
                      ELSE IF t = cur THEN "RUNNABLE" ELSE st[t]
    BY <1>2, <2>1
  <2>4. ReadyOn(list, state', current') =
          Candidates(list, st, cur, {}) \ {current'}
    BY <1>2, <2>1, <2>3 DEF Candidates, ReadyOn
  <2>5. /\ SleepingOn(list, state') = SleepingOn(list, st)
        /\ WaitingOn(list, state') = WaitingOn(list, st)
    BY <2>1, <2>3 DEF SleepingOn, WaitingOn, StatesFit
  <2>6. StatesFit(list, state', current')
    BY <2>1, <2>3 DEF StatesFit
  <2>7. HelloFirst(list, state')
    BY <1>2, <2>3 DEF HelloFirst
  <2> QED BY <2>1, <2>2, <2>4, <2>5, <2>6, <2>7
<1> QED BY <1>4, <1>5

\* The end of a second turns sleepers into candidates and changes nothing else.
LEMMA SecondWakes ==
  ASSUME NEW list \in Seq(Tasks), NEW st \in [Tasks -> States], NEW slp, NEW cur,
         StatesFit(list, st, cur), HelloFirst(list, st)
  PROVE  LET st2 == WakeSleepers(list, st, slp) IN
         /\ st2 \in [Tasks -> States]
         /\ StatesFit(list, st2, cur) /\ HelloFirst(list, st2)
         /\ WaitingOn(list, st2) = WaitingOn(list, st)
         /\ \E woken \in SUBSET SleepingOn(list, st) :
              /\ Candidates(list, st2, cur, {}) = Candidates(list, st, cur, woken)
              /\ SleepingOn(list, st2) = SleepingOn(list, st) \ woken
<1> DEFINE st2 == WakeSleepers(list, st, slp)
           woken == {t \in Sleepers(list, st) : slp[t] = 0}
<1>1. Range(list) \subseteq Tasks /\ Hello \in Range(list)
  BY InRange, PopHead DEF HelloFirst
<1>2. /\ st2 \in [Tasks -> States]
      /\ \A t \in Range(list) : st2[t] = IF t \in woken THEN "RUNNABLE" ELSE st[t]
  BY <1>1 DEF WakeSleepers, Sleepers, States
<1>3. woken \subseteq SleepingOn(list, st) /\ \A t \in woken : st[t] = "SLEEP"
  BY DEF Sleepers, SleepingOn
<1> HIDE DEF st2, woken
<1>4. StatesFit(list, st2, cur) /\ HelloFirst(list, st2)
  BY <1>1, <1>2, <1>3 DEF StatesFit, HelloFirst
<1>5. Candidates(list, st2, cur, {}) = Candidates(list, st, cur, woken)
  BY <1>2, <1>3 DEF Candidates, ReadyOn, SleepingOn, StatesFit
<1>6. /\ SleepingOn(list, st2) = SleepingOn(list, st) \ woken
      /\ WaitingOn(list, st2) = WaitingOn(list, st)
  BY <1>2, <1>3 DEF SleepingOn, WaitingOn
<1> QED BY <1>2, <1>3, <1>4, <1>5, <1>6 DEF st2

LEMMA TimerDispatches ==
  ASSUME NEW list \in Seq(Tasks), NEW st \in [Tasks -> States], NEW slp,
         NEW cur \in Range(list) \cup {NULL}, NEW pt,
         StatesFit(list, st, cur), HelloFirst(list, st),
         TimerInterrupt(list, st, slp, cur, pt)
  PROVE  \E woken \in SUBSET SleepingOn(list, st) :
           LET R == Candidates(list, st, cur, woken) IN
           /\ current' \in R
           /\ cr3' = current' \/ (current' = cur /\ cr3' = pt)
           /\ ReadyOn(list, state', current') = R \ {current'}
           /\ SleepingOn(list, state') = SleepingOn(list, st) \ woken
           /\ WaitingOn(list, state') = WaitingOn(list, st)
           /\ StatesFit(list, state', current') /\ HelloFirst(list, state')
<1>1. CASE ticks + 1 = TicksPerSecond
  <2> DEFINE st2 == WakeSleepers(list, st, slp)
  <2>1. /\ st2 \in [Tasks -> States]
        /\ StatesFit(list, st2, cur) /\ HelloFirst(list, st2)
        /\ WaitingOn(list, st2) = WaitingOn(list, st)
    BY SecondWakes
  <2>2. PICK woken \in SUBSET SleepingOn(list, st) :
          /\ Candidates(list, st2, cur, {}) = Candidates(list, st, cur, woken)
          /\ SleepingOn(list, st2) = SleepingOn(list, st) \ woken
    BY SecondWakes
  <2>3. Schedule(list, st2, cur, pt)
    BY <1>1 DEF TimerInterrupt
  <2> HIDE DEF st2
  <2> QED BY <2>1, <2>2, <2>3, ScheduleDispatches
<1>2. CASE ticks + 1 # TicksPerSecond
  <2>1. Schedule(list, st, cur, pt)
    BY <1>2 DEF TimerInterrupt
  <2>2. SleepingOn(list, st) \ {} = SleepingOn(list, st)
    OBVIOUS
  <2>3. {} \in SUBSET SleepingOn(list, st)
    OBVIOUS
  <2> QED BY <2>1, <2>2, <2>3, ScheduleDispatches
<1> QED BY <1>1, <1>2

-----------------------------------------------------------------------------
(* The invariant under the refinement, and the actions one by one. *)

DInv ==
  /\ IInv
  /\ StatesFit(taskList, state, current) /\ HelloFirst(taskList, state)
  /\ pid[Hello] = HelloPid
  /\ current \in Listed \cup {NULL}
  /\ current = Hello => cr3 = Hello
  /\ crashed = FALSE

Mapped == Abstract!Next \/ UNCHANGED Abstract!vars

\* A system call that leaves the list and the states at list and st, gives the
\* CPU away and raises the timer interrupt.
LEMMA CallDispatches ==
  ASSUME DInv, NEW st \in [Tasks -> States], NEW slp, NEW pt,
         taskList' \in Seq(Tasks),
         StatesFit(taskList', st, NULL), HelloFirst(taskList', st),
         TimerInterrupt(taskList', st, slp, NULL, pt)
  PROVE  \E woken \in SUBSET SleepingOn(taskList', st) :
           LET R == ReadyOn(taskList', st, NULL) \cup woken IN
           /\ current' \in R
           /\ readyTasks' = R \ {current'}
           /\ sleepingTasks' = SleepingOn(taskList', st) \ woken
           /\ waitingTasks' = WaitingOn(taskList', st)
           /\ StatesFit(taskList, state, current)' /\ HelloFirst(taskList, state)'
           /\ current' \in Listed'
           /\ cr3' = current'
<1>1. PICK woken \in SUBSET SleepingOn(taskList', st) :
        LET R == Candidates(taskList', st, NULL, woken) IN
        /\ current' \in R
        /\ cr3' = current' \/ (current' = NULL /\ cr3' = pt)
        /\ ReadyOn(taskList', state', current') = R \ {current'}
        /\ SleepingOn(taskList', state') = SleepingOn(taskList', st) \ woken
        /\ WaitingOn(taskList', state') = WaitingOn(taskList', st)
        /\ StatesFit(taskList', state', current')
        /\ HelloFirst(taskList', state')
  BY TimerDispatches
<1>2. Candidates(taskList', st, NULL, woken)
        = ReadyOn(taskList', st, NULL) \cup woken
  BY DEF Candidates
<1>3. current' \in Range(taskList') /\ NULL \notin Range(taskList')
  BY <1>1, <1>2, InRange, ProcessAssumption DEF ReadyOn, SleepingOn
<1>4. /\ readyTasks' = ReadyOn(taskList', state', current')
      /\ sleepingTasks' = SleepingOn(taskList', state')
      /\ waitingTasks' = WaitingOn(taskList', state')
      /\ Listed' = Range(taskList')
  BY DEF readyTasks, sleepingTasks, waitingTasks, ReadyOn, SleepingOn,
         WaitingOn, Listed
<1> QED BY <1>1, <1>2, <1>3, <1>4 DEF StatesFit, HelloFirst

\* The tasks of the abstract state are those on the list.
LEMMA LiveIsListed ==
  ASSUME DInv
  PROVE  /\ Abstract!Live = Listed
         /\ Listed \subseteq Tasks /\ Hello \in Listed
         /\ NULL \notin Tasks
         /\ readyTasks = ReadyOn(taskList, state, current)
         /\ sleepingTasks = SleepingOn(taskList, state)
         /\ waitingTasks = WaitingOn(taskList, state)
         /\ current \notin readyTasks \cup sleepingTasks \cup waitingTasks
<1>1. Listed \subseteq Tasks /\ Hello \in Listed /\ NULL \notin Tasks
  BY InRange, PopHead, ProcessAssumption
     DEF DInv, IInv, TypeOK, HelloFirst, Listed
<1>2. \A t \in Listed : state[t] \in States
  BY <1>1 DEF DInv, IInv, TypeOK
<1> QED BY <1>1, <1>2
        DEF Abstract!Live, Abstract!Running, DInv, StatesFit, readyTasks,
            sleepingTasks, waitingTasks, ReadyOn, SleepingOn, WaitingOn,
            Listed, States

LEMMA TimerIRQRefines ==
  ASSUME DInv, TimerIRQ
  PROVE  DInv' /\ Mapped
<1> USE DEF DInv
<1>1. /\ UNCHANGED <<family, lists, crashed>> /\ Listed' = Listed
      /\ TimerInterrupt(taskList, state, sleepTime, current, cr3)
  BY DEF TimerIRQ, lists, Listed
<1>2. PICK woken \in SUBSET sleepingTasks :
        LET R == Candidates(taskList, state, current, woken) IN
        /\ current' \in R
        /\ cr3' = current' \/ (current' = current /\ cr3' = cr3)
        /\ ReadyOn(taskList, state', current') = R \ {current'}
        /\ SleepingOn(taskList, state') = sleepingTasks \ woken
        /\ WaitingOn(taskList, state') = waitingTasks
        /\ StatesFit(taskList, state', current')
        /\ HelloFirst(taskList, state')
  BY <1>1, LiveIsListed, TimerDispatches DEF IInv, TypeOK, Listed
<1>3. Candidates(taskList, state, current, woken)
        = readyTasks \cup woken \cup Abstract!Running
  BY LiveIsListed DEF Candidates, Abstract!Running
<1>4. /\ readyTasks' = ReadyOn(taskList, state', current')
      /\ sleepingTasks' = SleepingOn(taskList, state')
      /\ waitingTasks' = WaitingOn(taskList, state')
  BY <1>1 DEF readyTasks, sleepingTasks, waitingTasks, ReadyOn, SleepingOn,
              WaitingOn, Listed, lists
<1>5. Abstract!Preempt
  BY <1>2, <1>3, <1>4 DEF Abstract!Preempt, Abstract!Dispatch
<1>6. current' \in Listed'
  BY <1>1, <1>2, <1>3, LiveIsListed DEF Abstract!Live
<1>7. DInv'
  BY <1>1, <1>2, <1>6, TimerIRQIInv
     DEF StatesFit, HelloFirst, family, lists
<1> QED BY <1>5, <1>7 DEF Mapped, Abstract!Next

\* A caller is the running task, and it is not hello.
LEMMA CallerRuns ==
  ASSUME DInv, NEW t \in Tasks, NEW call, Calling(t, call)
  PROVE  /\ t \in Listed /\ current = t /\ t # NULL /\ t # Hello
         /\ state[t] = "RUNNING"
BY CallerListed DEF DInv, Calling, StatesFit, Listed

\* waitpid and sleep.
LEMMA BlockRefines ==
  ASSUME DInv, IInv', NEW t \in Tasks, NEW call, Calling(t, call),
         NEW b \in {"SLEEP", "WAITING"}, NEW slp, NEW pt,
         TimerInterrupt(taskList, [state EXCEPT ![t] = b], slp, NULL, pt),
         UNCHANGED <<pid, lists, crashed>>
  PROVE  DInv' /\ Mapped
<1> USE DEF DInv
<1> DEFINE st == [state EXCEPT ![t] = b]
<1>1. /\ t \in Listed /\ current = t /\ t # NULL /\ t # Hello
      /\ state[t] = "RUNNING"
  BY CallerRuns
<1>2. taskList' = taskList /\ Listed' = Listed /\ taskList' \in Seq(Tasks)
  BY DEF lists, Listed, IInv, TypeOK
<1>3. /\ st \in [Tasks -> States]
      /\ st[t] = b /\ \A u \in Tasks \ {t} : st[u] = state[u]
  BY DEF IInv, TypeOK, States
<1>4. StatesFit(taskList', st, NULL)
  BY <1>1, <1>2, <1>3, LiveIsListed DEF StatesFit, Listed
<1>5. HelloFirst(taskList', st)
  BY <1>1, <1>2, <1>3, LiveIsListed DEF HelloFirst
<1>6. TimerInterrupt(taskList', st, slp, NULL, pt)
  BY <1>2
<1>7. /\ ReadyOn(taskList', st, NULL) = readyTasks
      /\ b = "SLEEP" => /\ SleepingOn(taskList', st) = sleepingTasks \cup {current}
                        /\ WaitingOn(taskList', st) = waitingTasks
      /\ b = "WAITING" => /\ SleepingOn(taskList', st) = sleepingTasks
                          /\ WaitingOn(taskList', st) = waitingTasks \cup {current}
  <2>1. \A u \in Listed : u # NULL /\ (u # t => st[u] = state[u])
    BY <1>3, LiveIsListed
  <2> QED BY <1>1, <1>2, <1>3, <2>1
          DEF ReadyOn, SleepingOn, WaitingOn, readyTasks, sleepingTasks,
              waitingTasks, Listed
<1> HIDE DEF st
<1>8. PICK woken \in SUBSET SleepingOn(taskList', st) :
        LET R == readyTasks \cup woken IN
        /\ current' \in R
        /\ readyTasks' = R \ {current'}
        /\ sleepingTasks' = SleepingOn(taskList', st) \ woken
        /\ waitingTasks' = WaitingOn(taskList', st)
        /\ StatesFit(taskList, state, current)' /\ HelloFirst(taskList, state)'
        /\ current' \in Listed'
        /\ cr3' = current'
  BY <1>2, <1>3, <1>4, <1>5, <1>6, <1>7, CallDispatches
<1>9. Mapped
  <2>1. CASE b = "SLEEP"
    <3>1. Abstract!Sleep
      BY <1>1, <1>7, <1>8, <2>1 DEF Abstract!Sleep, Abstract!Dispatch
    <3> QED BY <3>1 DEF Mapped, Abstract!Next
  <2>2. CASE b = "WAITING"
    <3>1. Abstract!Wait
      BY <1>1, <1>7, <1>8, <2>2 DEF Abstract!Wait, Abstract!Dispatch
    <3> QED BY <3>1 DEF Mapped, Abstract!Next
  <2> QED BY <2>1, <2>2
<1>10. DInv'
  BY <1>8
<1> QED BY <1>9, <1>10

LEMMA WaitpidRefines ==
  ASSUME DInv, NEW t \in Tasks, NEW p \in Nat, Waitpid(t, p)
  PROVE  DInv' /\ Mapped
<1>1. IInv'
  BY WaitpidIInv DEF DInv
<1>2. /\ Calling(t, "waitpid")
      /\ TimerInterrupt(taskList, [state EXCEPT ![t] = "WAITING"], sleepTime,
                        NULL, t)
      /\ UNCHANGED <<pid, lists, crashed>>
  BY DEF Waitpid
<1> QED BY <1>1, <1>2, BlockRefines

LEMMA SleepRefines ==
  ASSUME DInv, NEW t \in Tasks, NEW sec \in SleepArgs, Sleep(t, sec)
  PROVE  DInv' /\ Mapped
<1>1. IInv'
  BY SleepIInv DEF DInv
<1>2. /\ Calling(t, "sleep")
      /\ TimerInterrupt(taskList, [state EXCEPT ![t] = "SLEEP"],
                        [sleepTime EXCEPT ![t] = (sec - 1) % Word], NULL, t)
      /\ UNCHANGED <<pid, lists, crashed>>
  BY DEF Sleep, family
<1> QED BY <1>1, <1>2, BlockRefines

\* create_new_task appends: the head stays.
LEMMA CreateKeepsHead ==
  ASSUME DInv, NEW t \in FreeTask, NEW newPid \in Nat \ {0}, NEW ppids,
         NEW newParent, CreateTask(t, newPid, ppids, newParent)
  PROVE  /\ t \in Tasks /\ t \notin Listed /\ t # Hello
         /\ taskList' \in Seq(Tasks) /\ taskList' # <<>>
         /\ Head(taskList') = Hello
         /\ Listed' = Listed \cup {t}
         /\ pid'[Hello] = HelloPid
<1>1. /\ t \in Tasks /\ t \notin Listed
      /\ taskList' \in Seq(Tasks) /\ taskList' # <<>>
      /\ Listed' = Listed \cup {t}
  BY CreateTaskEffect DEF DInv, IInv, TypeOK, ListsTyped
<1>2. Head(taskList') = Hello
  BY <1>1, AppendToList DEF CreateTask, DInv, IInv, TypeOK, HelloFirst
<1>3. t # Hello
  BY <1>1, LiveIsListed
<1>4. pid'[Hello] = HelloPid
  BY <1>3, LiveIsListed DEF CreateTask, DInv, IInv, TypeOK
<1> QED BY <1>1, <1>2, <1>3, <1>4

\* free_task_struct of another task than the head leaves the head.
LEMMA FreeKeepsHead ==
  ASSUME DInv, NEW t \in Listed, t # Hello, NEW cc, FreeTaskStruct(t, cc)
  PROVE  /\ taskList' \in Seq(Tasks) /\ taskList' # <<>>
         /\ Head(taskList') = Hello
         /\ Listed' = Listed \ {t}
         /\ pid'[Hello] = HelloPid
<1>1. taskList' \in Seq(Tasks) /\ Listed' = Listed \ {t}
  BY FreeTaskEffect DEF DInv, IInv, TypeOK, ListsTyped
<1>2. taskList' # <<>> /\ Head(taskList') = Hello
  BY UnlinkProperties
     DEF FreeTaskStruct, DInv, IInv, TypeOK, ListsPartition, HelloFirst
<1> QED BY <1>1, <1>2 DEF FreeTaskStruct, DInv

LEMMA ForkRefines ==
  ASSUME DInv, NEW t \in Tasks, Fork(t)
  PROVE  DInv' /\ Mapped
<1> USE DEF DInv
<1>1. /\ t \in Listed /\ current = t /\ t # NULL /\ t # Hello
      /\ state[t] = "RUNNING"
  BY CallerRuns DEF Fork
<1>2. PICK child \in FreeTask :
        /\ CreateTask(child, nextPid, [ppid EXCEPT ![child] = pid[t]], t)
        /\ TimerInterrupt(taskList',
                          [state EXCEPT ![child] = "RUNNABLE", ![t] = "RUNNABLE"],
                          [sleepTime EXCEPT ![child] = 0], NULL, t)
  BY DEF Fork
<1> DEFINE st == [state EXCEPT ![child] = "RUNNABLE", ![t] = "RUNNABLE"]
           slp == [sleepTime EXCEPT ![child] = 0]
<1>3. /\ child \in Tasks /\ child \notin Listed /\ child # Hello
      /\ taskList' \in Seq(Tasks) /\ taskList' # <<>>
      /\ Head(taskList') = Hello
      /\ Listed' = Listed \cup {child}
      /\ pid'[Hello] = HelloPid
  BY <1>2, CreateKeepsHead DEF IInv, TypeOK, PidsGivenOut
<1>4. /\ st \in [Tasks -> States]
      /\ st[t] = "RUNNABLE" /\ st[child] = "RUNNABLE"
      /\ \A u \in Tasks \ {t, child} : st[u] = state[u]
  BY <1>1, <1>3 DEF IInv, TypeOK, States
<1>5. TimerInterrupt(taskList', st, slp, NULL, t)
  BY <1>2
<1> HIDE DEF st, slp
<1>6. \A u \in Listed \ {t} : u # child /\ u # NULL /\ st[u] = state[u]
  BY <1>3, <1>4, LiveIsListed
<1>7. StatesFit(taskList', st, NULL)
  BY <1>1, <1>3, <1>4, <1>6, LiveIsListed DEF StatesFit, Listed
<1>8. HelloFirst(taskList', st)
  BY <1>1, <1>3, <1>6, LiveIsListed DEF HelloFirst
<1>9. /\ ReadyOn(taskList', st, NULL) = readyTasks \cup {child, current}
      /\ SleepingOn(taskList', st) = sleepingTasks
      /\ WaitingOn(taskList', st) = waitingTasks
  BY <1>1, <1>3, <1>4, <1>6, LiveIsListed
     DEF ReadyOn, SleepingOn, WaitingOn, readyTasks, sleepingTasks,
         waitingTasks, Listed
<1>10. PICK woken \in SUBSET sleepingTasks :
         LET R == readyTasks \cup {child, current} \cup woken IN
         /\ current' \in R
         /\ readyTasks' = R \ {current'}
         /\ sleepingTasks' = sleepingTasks \ woken
         /\ waitingTasks' = waitingTasks
         /\ StatesFit(taskList, state, current)' /\ HelloFirst(taskList, state)'
         /\ current' \in Listed'
         /\ cr3' = current'
  BY <1>3, <1>4, <1>5, <1>7, <1>8, <1>9, CallDispatches
<1>11. child \in Tasks \ Abstract!Live
  BY <1>3, LiveIsListed
<1>12. readyTasks \cup {child, current} \cup woken
         = readyTasks \cup woken \cup {child, current}
  OBVIOUS
<1>13. Abstract!Spawn
  BY <1>1, <1>10, <1>11, <1>12 DEF Abstract!Spawn, Abstract!Dispatch
<1>14. DInv'
  BY <1>3, <1>10, ForkIInv DEF Fork
<1> QED BY <1>13, <1>14 DEF Mapped, Abstract!Next

LEMMA ExecveRefines ==
  ASSUME DInv, NEW t \in Tasks, Execve(t)
  PROVE  DInv' /\ Mapped
<1> USE DEF DInv
<1>1. /\ t \in Listed /\ current = t /\ t # NULL /\ t # Hello
      /\ state[t] = "RUNNING"
  BY CallerRuns DEF Execve
<1>2. PICK image \in FreeTask :
        /\ CreateTask(image, pid[t],
                      [ppid EXCEPT ![image] = ppid[t], ![t] = 0], parent[t])
        /\ state' = [state EXCEPT ![image] = "RUNNABLE"]
  BY DEF Execve
<1>3. pid[t] \in Nat \ {0}
  BY <1>1 DEF IInv, TypeOK, ListsPartition
<1>4. /\ image \in Tasks /\ image \notin Listed /\ image # Hello
      /\ taskList' \in Seq(Tasks) /\ taskList' # <<>>
      /\ Head(taskList') = Hello
      /\ Listed' = Listed \cup {image}
      /\ pid'[Hello] = HelloPid
  BY <1>2, <1>3, CreateKeepsHead
<1>5. UNCHANGED <<current, cr3, crashed>>
  BY DEF Execve
<1>6. state'[image] = "RUNNABLE" /\ \A u \in Listed : state'[u] = state[u]
  BY <1>2, <1>4, LiveIsListed DEF IInv, TypeOK
<1>7. /\ StatesFit(taskList, state, current)'
      /\ HelloFirst(taskList, state)'
  BY <1>1, <1>4, <1>5, <1>6, LiveIsListed DEF StatesFit, HelloFirst, Listed
<1>8. /\ readyTasks' = readyTasks \cup {image}
      /\ sleepingTasks' = sleepingTasks /\ waitingTasks' = waitingTasks
  BY <1>1, <1>4, <1>5, <1>6 DEF readyTasks, sleepingTasks, waitingTasks
<1>9. image \in Tasks \ Abstract!Live
  BY <1>4, LiveIsListed
<1>10. Abstract!Create
  BY <1>1, <1>5, <1>8, <1>9 DEF Abstract!Create
<1>11. DInv'
  BY <1>1, <1>4, <1>5, <1>7, ExecveIInv
<1> QED BY <1>10, <1>11 DEF Mapped, Abstract!Next

\* exit makes the parent RUNNABLE if it is still on the list; the rest of the
\* tasks keep their states.
LEMMA ExitTaskRefines ==
  ASSUME DInv, NEW t \in Listed, current = t, t # Hello, ExitTask(t)
  PROVE  DInv' /\ Mapped
<1> USE DEF DInv
<1> DEFINE st == [ParentState(t) EXCEPT ![t] = "STOPPED"]
           slp == [sleepTime EXCEPT ![t] = 0]
           told == IF ppid[t] > 0 THEN parent[t] ELSE t
           released == {told} \cap (sleepingTasks \cup waitingTasks)
<1>1. t \in Tasks /\ t # NULL
  BY LiveIsListed
<1>2. /\ taskList' \in Seq(Tasks) /\ taskList' # <<>>
      /\ Head(taskList') = Hello
      /\ Listed' = Listed \ {t}
      /\ pid'[Hello] = HelloPid
  BY FreeKeepsHead DEF ExitTask
<1>3. /\ told \in Tasks
      /\ ParentState(t) \in [Tasks -> States]
      /\ \A u \in Tasks \ {t} :
           ParentState(t)[u] = IF u = told THEN "RUNNABLE" ELSE state[u]
  <2>1. CASE ppid[t] > 0
    <3>1. told = parent[t] /\ parent[t] \in Tasks
      BY <1>1, <2>1 DEF IInv, TypeOK, ChildHasParent
    <3>2. ParentState(t) = [state EXCEPT ![parent[t]] = "RUNNABLE"]
      BY <2>1, <3>1 DEF ParentState, WakeWaiter, IInv, TypeOK
    <3> QED BY <3>1, <3>2 DEF IInv, TypeOK, States
  <2>2. CASE ~(ppid[t] > 0)
    BY <1>1, <2>2 DEF ParentState, IInv, TypeOK
  <2> QED BY <2>1, <2>2
<1>4. /\ st \in [Tasks -> States]
      /\ \A u \in Tasks \ {t} :
           st[u] = IF u = told THEN "RUNNABLE" ELSE state[u]
  BY <1>1, <1>3 DEF States
<1>5. TimerInterrupt(taskList', st, slp, NULL, NULL) /\ crashed' = crashed
  BY DEF ExitTask
<1> HIDE DEF st, slp, told
<1>6. \A u \in Listed \ {t} : /\ u \in Tasks /\ u # NULL
                              /\ st[u] = IF u = told THEN "RUNNABLE" ELSE state[u]
                              /\ state[u] # "RUNNING" /\ state[u] # "STOPPED"
                              /\ state[u] \in States
  BY <1>4, LiveIsListed DEF StatesFit, Listed, IInv, TypeOK
<1>7. StatesFit(taskList', st, NULL)
  <2>1. \A u \in Range(taskList') : u \in Listed \ {t}
    BY <1>2 DEF Listed
  <2> QED BY <1>6, <2>1 DEF StatesFit
<1>8. HelloFirst(taskList', st)
  BY <1>2, <1>6, LiveIsListed DEF HelloFirst
<1>9. /\ ReadyOn(taskList', st, NULL) = readyTasks \cup released
      /\ SleepingOn(taskList', st) = sleepingTasks \ released
      /\ WaitingOn(taskList', st) = waitingTasks \ released
  <2>1. Range(taskList') = Listed \ {t}
    BY <1>2 DEF Listed
  <2>2. /\ readyTasks = {u \in Listed \ {t} : state[u] = "RUNNABLE"}
        /\ sleepingTasks = {u \in Listed \ {t} : state[u] = "SLEEP"}
        /\ waitingTasks = {u \in Listed \ {t} : state[u] = "WAITING"}
    BY LiveIsListed DEF readyTasks, sleepingTasks, waitingTasks
  <2> QED BY <1>6, <2>1, <2>2 DEF ReadyOn, SleepingOn, WaitingOn, States
<1>10. PICK woken \in SUBSET (sleepingTasks \ released) :
         LET R == readyTasks \cup released \cup woken IN
         /\ current' \in R
         /\ readyTasks' = R \ {current'}
         /\ sleepingTasks' = (sleepingTasks \ released) \ woken
         /\ waitingTasks' = waitingTasks \ released
         /\ StatesFit(taskList, state, current)' /\ HelloFirst(taskList, state)'
         /\ current' \in Listed'
         /\ cr3' = current'
  BY <1>2, <1>4, <1>5, <1>7, <1>8, <1>9, CallDispatches
<1>11. Abstract!Terminate
  <2> DEFINE W == woken \cup released
  <2>1. woken \cap waitingTasks = {}
    BY DEF sleepingTasks, waitingTasks
  <2>2. /\ woken \in SUBSET sleepingTasks
        /\ current' \in readyTasks \cup W
        /\ readyTasks' = (readyTasks \cup W) \ {current'}
        /\ sleepingTasks' = sleepingTasks \ W
        /\ waitingTasks' = waitingTasks \ W
    BY <1>10, <2>1
  <2> QED BY <1>1, <1>3, <2>2 DEF Abstract!Terminate, Abstract!Dispatch
<1>12. DInv'
  BY <1>2, <1>5, <1>10, ExitTaskIInv
<1> QED BY <1>11, <1>12 DEF Mapped, Abstract!Next

LEMMA KillRefines ==
  ASSUME DInv, AnyVictim = FALSE, NEW t \in Tasks, NEW p, Kill(t, p)
  PROVE  DInv' /\ Mapped
<1> USE DEF DInv
<1> DEFINE target == GetTask(p)
<1>1. /\ t \in Listed /\ current = t /\ t # NULL /\ t # Hello
      /\ state[t] = "RUNNING"
  BY CallerRuns DEF Kill
<1>2. /\ target # NULL /\ target \notin {t, Hello}
      /\ FreeTaskStruct(target, childCount)
      /\ state' = [state EXCEPT ![target] = "STOPPED"]
      /\ UNCHANGED <<current, crashed>>
  BY DEF Kill
<1>3. target \in Listed
  BY <1>2, FirstFound DEF GetTask, IInv, TypeOK, Listed
<1> HIDE DEF target
<1>4. /\ taskList' \in Seq(Tasks) /\ taskList' # <<>>
      /\ Head(taskList') = Hello
      /\ Listed' = Listed \ {target}
      /\ pid'[Hello] = HelloPid
  BY <1>2, <1>3, FreeKeepsHead
<1>5. \A u \in Listed \ {target} : state'[u] = state[u]
  BY <1>2, <1>3, LiveIsListed DEF IInv, TypeOK
<1>6. StatesFit(taskList, state, current)' /\ HelloFirst(taskList, state)'
  BY <1>2, <1>4, <1>5, LiveIsListed DEF StatesFit, HelloFirst, Listed
<1>7. /\ readyTasks' = readyTasks \ {target}
      /\ sleepingTasks' = sleepingTasks \ {target}
      /\ waitingTasks' = waitingTasks \ {target}
  BY <1>2, <1>4, <1>5 DEF readyTasks, sleepingTasks, waitingTasks
<1>8. target \in readyTasks \cup sleepingTasks \cup waitingTasks
  BY <1>1, <1>2, <1>3, LiveIsListed DEF Abstract!Live, Abstract!Running
<1>9. Abstract!Destroy
  BY <1>1, <1>2, <1>7, <1>8 DEF Abstract!Destroy
<1>10. DInv'
  BY <1>1, <1>2, <1>4, <1>6, KillIInv
<1> QED BY <1>9, <1>10 DEF Mapped, Abstract!Next

LEMMA PageFaultRefines ==
  ASSUME DInv, NEW t \in Tasks, PageFault(t)
  PROVE  DInv' /\ Mapped
<1>1. current = t /\ t \in Listed /\ t # Hello
  BY LiveIsListed DEF PageFault, DInv
<1>2. ExitTask(t)
  BY <1>1 DEF PageFault
<1> QED BY <1>1, <1>2, ExitTaskRefines

LEMMA StutterRefines ==
  ASSUME DInv, UNCHANGED vars
  PROVE  DInv' /\ Mapped
BY StutterIInv
   DEF DInv, StatesFit, HelloFirst, Mapped, Abstract!vars, readyTasks,
       sleepingTasks, waitingTasks, vars, family, lists, clock, Listed

-----------------------------------------------------------------------------
(* The theorems. *)

\* The first state of the process manager is one of the dispatcher.
THEOREM InitRefines == Init => DInv /\ Abstract!Init
<1> SUFFICES ASSUME Init PROVE DInv /\ Abstract!Init
  OBVIOUS
<1> USE ProcessAssumption
<1>1. IInv
  BY InitIInv
<1>2. Range(taskList) = Boot /\ Head(taskList) = Hello /\ taskList # <<>>
  <2>1. /\ taskList \in Seq(Tasks) /\ Len(taskList) = 2
        /\ taskList[1] = Hello /\ taskList[2] = Sbush
    BY DEF Init
  <2>2. DOMAIN taskList = 1 .. 2
    BY <2>1, LenProperties
  <2>3. Range(taskList) = Boot
    BY <2>1, <2>2 DEF Range, Boot
  <2>4. taskList # <<>>
    BY <2>1, EmptySeq
  <2>5. Head(taskList) = Hello
    BY DEF Init
  <2> QED BY <2>3, <2>4, <2>5
<1>3. Boot \subseteq Tasks /\ \A t \in Boot : state[t] = "RUNNABLE" /\ t # NULL
  BY DEF Init, Boot
<1>4. /\ StatesFit(taskList, state, current) /\ HelloFirst(taskList, state)
      /\ pid[Hello] = HelloPid
      /\ current = NULL /\ current # Hello /\ crashed = FALSE
  BY <1>2, <1>3 DEF StatesFit, HelloFirst, Init, Boot
<1>5. DInv
  BY <1>1, <1>4 DEF DInv
<1>6. Abstract!Init
  BY <1>2, <1>3, <1>4
     DEF Abstract!Init, readyTasks, sleepingTasks, waitingTasks, Listed
<1> QED BY <1>5, <1>6

\* Every handler is one action of the dispatcher, or leaves what it sees alone.
THEOREM NextRefines ==
  AnyVictim = FALSE /\ DInv /\ [Next]_vars => DInv' /\ [Abstract!Next]_(Abstract!vars)
<1> SUFFICES ASSUME AnyVictim = FALSE, DInv, [Next]_vars PROVE DInv' /\ Mapped
  BY DEF Mapped
<1>1. CASE TimerIRQ
  BY <1>1, TimerIRQRefines
<1>2. ASSUME NEW t \in Tasks, Fork(t) PROVE DInv' /\ Mapped
  BY <1>2, ForkRefines
<1>3. ASSUME NEW t \in Tasks, Execve(t) PROVE DInv' /\ Mapped
  BY <1>3, ExecveRefines
<1>4. ASSUME NEW t \in Tasks, Exit(t) PROVE DInv' /\ Mapped
  BY <1>4, CallerRuns, ExitTaskRefines DEF Exit
<1>5. ASSUME NEW t \in Tasks, NEW p \in 1 .. nextPid - 1, Waitpid(t, p)
      PROVE  DInv' /\ Mapped
  <2>1. p \in Nat
    BY DEF DInv, IInv, TypeOK
  <2> QED BY <1>5, <2>1, WaitpidRefines
<1>6. ASSUME NEW t \in Tasks, NEW p \in 1 .. nextPid - 1, Kill(t, p)
      PROVE  DInv' /\ Mapped
  BY <1>6, KillRefines
<1>7. ASSUME NEW t \in Tasks, NEW sec \in SleepArgs, Sleep(t, sec)
      PROVE  DInv' /\ Mapped
  BY <1>7, SleepRefines
<1>8. ASSUME NEW t \in Tasks, PageFault(t) PROVE DInv' /\ Mapped
  BY <1>8, PageFaultRefines
<1>9. CASE UNCHANGED vars
  BY <1>9, StutterRefines
<1> QED BY <1>1, <1>2, <1>3, <1>4, <1>5, <1>6, <1>7, <1>8, <1>9
        DEF Next, Syscall

\* Whatever programs do, the process manager is a dispatcher, unless hello is
\* killed or a program kills itself.
THEOREM ProcessImplementsDispatcher ==
  ASSUME AnyVictim = FALSE
  PROVE  Spec => ImplementsDispatcher
<1>1. DInv /\ [Next]_vars => DInv' /\ [Abstract!Next]_(Abstract!vars)
  BY NextRefines
<1> QED BY <1>1, InitRefines, PTL
        DEF Spec, ImplementsDispatcher, Abstract!Spec

\* Under the same condition the head of the list is hello and can run, and page
\* 0 is never loaded as a page table.
THEOREM HelloStaysHead ==
  ASSUME AnyVictim = FALSE
  PROVE  Spec => [](HelloHeads /\ NeverCrashes)
<1>1. DInv /\ [Next]_vars => DInv'
  BY NextRefines
<1>2. DInv => HelloHeads /\ NeverCrashes
  BY DEF DInv, HelloFirst, HelloHeads, NeverCrashes
<1> QED BY <1>1, <1>2, InitRefines, PTL DEF Spec

-----------------------------------------------------------------------------
(* child_count and the parent pointer. *)

\* The pids that fork gives out follow those of the two programs of the boot.
ChildPids ==
  /\ nextPid >= HelloPid + 2
  /\ \A c \in Listed : ppid[c] > 0 => pid[c] \in HelloPid + 2 .. MaxPid

FInv == IInv /\ ChildPids /\ ChildCountExact /\ ParentIsLive

\* Fewer pids are given out than a counter can count.
CountsFit == MaxPid < Word + HelloPid + 1

\* Tasks with pids of their own are counted without overflow.
LEMMA FewPids ==
  ASSUME CountsFit, NEW S, NEW pids,
         \A c \in S : pids[c] \in HelloPid + 2 .. MaxPid,
         \A c, d \in S : c # d => pids[c] # pids[d]
  PROVE  IsFiniteSet(S) /\ Cardinality(S) \in Counter
<1> DEFINE low == HelloPid + 2
           T == low .. MaxPid
           f == [c \in S |-> pids[c]]
<1>1. low \in Int /\ MaxPid \in Int /\ Word \in Nat
  BY ProcessAssumption DEF HelloPid
<1>2. f \in Injection(S, T)
  BY DEF Injection, IsInjective
<1> HIDE DEF low, f
<1>3. /\ IsFiniteSet(T)
      /\ Cardinality(T) = IF low > MaxPid THEN 0 ELSE MaxPid - low + 1
  BY <1>1, FS_Interval
<1> HIDE DEF T
<1>4. IsFiniteSet(S) /\ Cardinality(S) <= Cardinality(T)
  BY <1>2, <1>3, FS_Injection
<1>5. Cardinality(S) \in Nat
  BY <1>4, FS_CardinalityType
<1>6. Cardinality(T) < Word
  BY <1>1, <1>3, ProcessAssumption DEF CountsFit, HelloPid, low
<1> QED BY <1>1, <1>3, <1>4, <1>5, <1>6 DEF Counter

\* The children of a task have pids of their own: only one image of a process
\* reports to the parent.
LEMMA ChildrenCounted ==
  ASSUME CountsFit, IInv, ChildPids, NEW t
  PROVE  IsFiniteSet(ChildrenOf(t)) /\ Cardinality(ChildrenOf(t)) \in Counter
<1>1. \A c \in Listed : c \in Tasks /\ ppid[c] \in Nat
  BY InRange DEF IInv, TypeOK, Listed
<1>2. \A c \in ChildrenOf(t) : pid[c] \in HelloPid + 2 .. MaxPid
  BY DEF ChildrenOf, ChildPids
<1>3. \A c, d \in ChildrenOf(t) : c # d => pid[c] # pid[d]
  BY <1>1 DEF ChildrenOf, IInv, OneImageReports
<1> QED BY <1>2, <1>3, FewPids

\* The same of the state after a step.
LEMMA ChildrenCountedNext ==
  ASSUME CountsFit, IInv', ChildPids', NEW t
  PROVE  /\ IsFiniteSet(ChildrenOf(t)')
         /\ Cardinality(ChildrenOf(t)') \in Counter
<1>1. \A c \in Listed' : c \in Tasks /\ ppid'[c] \in Nat
  BY InRange DEF IInv, TypeOK, Listed
<1>2. \A c \in ChildrenOf(t)' : pid'[c] \in HelloPid + 2 .. MaxPid
  BY DEF ChildrenOf, ChildPids
<1>3. \A c, d \in ChildrenOf(t)' : c # d => pid'[c] # pid'[d]
  BY <1>1 DEF ChildrenOf, IInv, OneImageReports
<1> QED BY <1>2, <1>3, FewPids

\* A task whose child_count is zero is the parent of nobody.
LEMMA NoChildLeft ==
  ASSUME CountsFit, FInv, NEW t \in Listed, childCount[t] = 0
  PROVE  /\ ChildrenOf(t) = {}
         /\ \A c \in Listed : ppid[c] > 0 => parent[c] # t
<1>1. IsFiniteSet(ChildrenOf(t)) /\ Cardinality(ChildrenOf(t)) = 0
  BY ChildrenCounted DEF FInv, ChildCountExact
<1>2. ChildrenOf(t) = {}
  BY <1>1, FS_EmptySet
<1> QED BY <1>2 DEF ChildrenOf

\* Every task on the list has a pid.
LEMMA PidsOfTasks ==
  ASSUME IInv
  PROVE  /\ Listed \subseteq Tasks
         /\ \A t \in Listed : pid[t] > 0 /\ ppid[t] \in Nat
<1>1. Listed \subseteq Tasks
  BY InRange DEF IInv, TypeOK, Listed
<1>2. \A t \in Listed : pid[t] \in Nat /\ pid[t] # 0 /\ ppid[t] \in Nat
  BY <1>1 DEF IInv, TypeOK, ListsPartition
<1> QED BY <1>1, <1>2

\* Nobody's family changes in a timer interrupt, a waitpid or a sleep.
LEMMA SameFamily ==
  ASSUME FInv, UNCHANGED <<pid, ppid, parent, childCount, lists>>
  PROVE  ChildPids' /\ ChildCountExact' /\ ParentIsLive'
<1>1. Listed' = Listed /\ nextPid' = nextPid
  BY DEF lists, Listed
<1>2. \A u : ChildrenOf(u)' = ChildrenOf(u)
  BY <1>1 DEF ChildrenOf
<1> QED BY <1>1, <1>2
        DEF FInv, ChildPids, ChildCountExact, ParentIsLive

LEMMA ForkFamily ==
  ASSUME CountsFit, FInv, NEW t \in Tasks, Fork(t)
  PROVE  FInv'
<1>0. IInv /\ IInv'
  BY ForkIInv DEF FInv
<1>1. t \in Listed /\ Listed \subseteq Tasks /\ pid[t] > 0
  BY <1>0, PidsOfTasks, CallerListed DEF Fork
<1>2. PICK child \in FreeTask :
        /\ CreateTask(child, nextPid, [ppid EXCEPT ![child] = pid[t]], t)
        /\ childCount' = [[childCount EXCEPT ![child] = 0]
                            EXCEPT ![t] = (@ + 1) % Word]
  BY DEF Fork
<1>3. child \in Tasks /\ child \notin Listed /\ Listed' = Listed \cup {child}
  BY <1>0, <1>2, CreateTaskEffect DEF IInv, TypeOK, ListsTyped, PidsGivenOut
<1>4. /\ nextPid' = nextPid + 1 /\ nextPid <= MaxPid /\ nextPid \in Nat
      /\ pid' = [pid EXCEPT ![child] = nextPid]
      /\ ppid' = [ppid EXCEPT ![child] = pid[t]]
      /\ parent' = [parent EXCEPT ![child] = t]
  BY <1>0, <1>2 DEF CreateTask, Fork, IInv, TypeOK
<1>5. /\ pid'[child] = nextPid /\ ppid'[child] = pid[t] /\ parent'[child] = t
      /\ \A u \in Listed : /\ pid'[u] = pid[u] /\ ppid'[u] = ppid[u]
                           /\ parent'[u] = parent[u]
  BY <1>0, <1>1, <1>3, <1>4 DEF IInv, TypeOK
<1>6. /\ childCount'[child] = 0
      /\ childCount'[t] = (childCount[t] + 1) % Word
      /\ \A u \in Listed \ {t} : childCount'[u] = childCount[u]
  BY <1>0, <1>1, <1>2, <1>3 DEF IInv, TypeOK
<1>7. ChildPids'
  BY <1>3, <1>4, <1>5, ProcessAssumption DEF FInv, ChildPids, HelloPid
<1>8. ParentIsLive'
  BY <1>1, <1>3, <1>5 DEF FInv, ParentIsLive
<1>9. /\ \A u \in Listed \ {t} : ChildrenOf(u)' = ChildrenOf(u)
      /\ ChildrenOf(t)' = ChildrenOf(t) \cup {child}
      /\ ChildrenOf(child)' = {}
      /\ child \notin ChildrenOf(t)
  BY <1>1, <1>3, <1>5 DEF FInv, ParentIsLive, ChildrenOf
<1>10. childCount'[t] = Cardinality(ChildrenOf(t)')
  <2>1. IsFiniteSet(ChildrenOf(t)) /\ Cardinality(ChildrenOf(t)) \in Counter
    BY <1>0, ChildrenCounted DEF FInv
  <2>2. Cardinality(ChildrenOf(t)') = Cardinality(ChildrenOf(t)) + 1
    BY <1>9, <2>1, FS_AddElement
  <2>3. Cardinality(ChildrenOf(t)') \in Counter
    BY <1>0, <1>7, ChildrenCountedNext
  <2>4. childCount[t] = Cardinality(ChildrenOf(t))
    BY <1>1 DEF FInv, ChildCountExact
  <2> QED BY <1>6, <2>1, <2>2, <2>3, <2>4, ProcessAssumption DEF Counter
<1>11. childCount'[child] = Cardinality(ChildrenOf(child)')
  BY <1>6, <1>9, FS_EmptySet
<1>12. \A u \in Listed \ {t} : childCount'[u] = Cardinality(ChildrenOf(u)')
  BY <1>6, <1>9 DEF FInv, ChildCountExact
<1>13. ChildCountExact'
  BY <1>3, <1>10, <1>11, <1>12 DEF ChildCountExact
<1> QED BY <1>0, <1>7, <1>8, <1>13 DEF FInv

LEMMA ExecveFamily ==
  ASSUME CountsFit, OrphansAllowed = FALSE, FInv, NEW t \in Tasks, Execve(t)
  PROVE  FInv'
<1>0. IInv /\ IInv'
  BY ExecveIInv DEF FInv
<1>1. /\ t \in Listed /\ Listed \subseteq Tasks /\ pid[t] > 0
      /\ pid[t] \in Nat \ {0}
      /\ \A c \in Listed : ppid[c] > 0 => parent[c] # t
      /\ ChildrenOf(t) = {} /\ childCount[t] = 0
  <2>1. t \in Listed /\ childCount[t] = 0
    BY <1>0, CallerListed DEF Execve
  <2>2. /\ \A c \in Listed : ppid[c] > 0 => parent[c] # t
        /\ ChildrenOf(t) = {}
    BY <2>1, NoChildLeft
  <2>3. pid[t] \in Nat \ {0}
    BY <2>1, <1>0 DEF IInv, TypeOK, ListsPartition
  <2> QED BY <1>0, <2>1, <2>2, <2>3, PidsOfTasks
<1>2. PICK image \in FreeTask :
        /\ CreateTask(image, pid[t],
                      [ppid EXCEPT ![image] = ppid[t], ![t] = 0], parent[t])
        /\ childCount' = [childCount EXCEPT ![image] = 0]
  BY DEF Execve
<1>3. image \in Tasks /\ image \notin Listed /\ Listed' = Listed \cup {image}
  BY <1>0, <1>1, <1>2, CreateTaskEffect DEF IInv, TypeOK, ListsTyped
<1>4. /\ nextPid' = nextPid + 1 /\ nextPid \in Nat
      /\ pid' = [pid EXCEPT ![image] = pid[t]]
      /\ ppid' = [ppid EXCEPT ![image] = ppid[t], ![t] = 0]
      /\ parent' = [parent EXCEPT ![image] = parent[t]]
  BY <1>0, <1>2 DEF CreateTask, IInv, TypeOK
<1>5. /\ pid'[image] = pid[t] /\ ppid'[image] = ppid[t]
      /\ parent'[image] = parent[t] /\ ppid'[t] = 0
      /\ \A u \in Listed : pid'[u] = pid[u] /\ parent'[u] = parent[u]
      /\ \A u \in Listed \ {t} : ppid'[u] = ppid[u]
  BY <1>0, <1>1, <1>3, <1>4 DEF IInv, TypeOK
<1>6. /\ childCount'[image] = 0
      /\ \A u \in Listed : childCount'[u] = childCount[u]
  BY <1>0, <1>1, <1>2, <1>3 DEF IInv, TypeOK
<1>7. ChildPids'
  <2>1. nextPid' >= HelloPid + 2
    BY <1>4 DEF FInv, ChildPids, HelloPid
  <2>2. \A c \in Listed' : ppid'[c] > 0 => pid'[c] \in HelloPid + 2 .. MaxPid
    BY <1>1, <1>3, <1>5 DEF FInv, ChildPids
  <2> QED BY <2>1, <2>2 DEF ChildPids
<1>8. ParentIsLive'
  BY <1>1, <1>3, <1>5 DEF FInv, ParentIsLive
<1>9. ChildrenOf(image)' = {}
  BY <1>1, <1>3, <1>5 DEF FInv, ParentIsLive, ChildrenOf
<1>10. \A u \in Listed :
         ChildrenOf(u)' =
           IF t \in ChildrenOf(u) THEN (ChildrenOf(u) \ {t}) \cup {image}
                                  ELSE ChildrenOf(u)
  BY <1>1, <1>3, <1>5 DEF ChildrenOf
<1>11. ASSUME NEW u \in Listed
       PROVE  childCount'[u] = Cardinality(ChildrenOf(u)')
  <2>1. /\ IsFiniteSet(ChildrenOf(u))
        /\ childCount[u] = Cardinality(ChildrenOf(u))
    BY <1>0, ChildrenCounted DEF FInv, ChildCountExact
  <2>2. CASE t \in ChildrenOf(u)
    <3> DEFINE rest == ChildrenOf(u) \ {t}
    <3>1. image \notin rest
      BY <1>3 DEF ChildrenOf
    <3>2. IsFiniteSet(rest) /\ Cardinality(rest) = childCount[u] - 1
      BY <2>1, <2>2, FS_RemoveElement
    <3> HIDE DEF rest
    <3>3. Cardinality(rest \cup {image}) = Cardinality(rest) + 1
      BY <3>1, <3>2, FS_AddElement
    <3>4. ChildrenOf(u)' = rest \cup {image}
      BY <1>10, <2>2 DEF rest
    <3>5. childCount[u] \in Nat
      BY <2>1, FS_CardinalityType
    <3> QED BY <1>6, <3>2, <3>3, <3>4, <3>5
  <2>3. CASE t \notin ChildrenOf(u)
    BY <1>6, <1>10, <2>1, <2>3
  <2> QED BY <2>2, <2>3
<1>12. ChildCountExact'
  BY <1>3, <1>6, <1>9, <1>11, FS_EmptySet DEF ChildCountExact
<1> QED BY <1>0, <1>7, <1>8, <1>12 DEF FInv

LEMMA ExitFamily ==
  ASSUME CountsFit, OrphansAllowed = FALSE, FInv, NEW t \in Tasks, Exit(t)
  PROVE  FInv'
<1>1. /\ t \in Listed /\ Listed \subseteq Tasks
      /\ \A c \in Listed : ppid[c] > 0 => parent[c] # t
  <2>1. t \in Listed /\ childCount[t] = 0
    BY CallerListed DEF Exit, FInv
  <2>2. \A c \in Listed : ppid[c] > 0 => parent[c] # t
    BY <2>1, NoChildLeft
  <2> QED BY <2>1, <2>2, PidsOfTasks DEF FInv
<1>0. IInv /\ IInv' /\ FreeTaskStruct(t, ParentCount(t))
  BY <1>1, ExitTaskIInv DEF FInv, Exit, ExitTask, Calling
<1>2. Listed' = Listed \ {t}
  BY <1>0, <1>1, FreeTaskEffect DEF IInv, TypeOK, ListsTyped
<1>3. /\ pid' = pid /\ nextPid' = nextPid
      /\ ppid' = [ppid EXCEPT ![t] = 0]
      /\ parent' = [parent EXCEPT ![t] = NULL]
      /\ childCount' = [ParentCount(t) EXCEPT ![t] = 0]
  BY <1>0 DEF FreeTaskStruct
<1>4. \A u \in Listed' : ppid'[u] = ppid[u] /\ parent'[u] = parent[u]
  BY <1>0, <1>1, <1>2, <1>3 DEF IInv, TypeOK
<1>5. ChildPids' /\ ParentIsLive'
  BY <1>1, <1>2, <1>3, <1>4 DEF FInv, ChildPids, ParentIsLive
<1>6. \A u \in Listed' : ChildrenOf(u)' = ChildrenOf(u) \ {t}
  BY <1>2, <1>4 DEF ChildrenOf
<1>7. ASSUME NEW u \in Listed'
      PROVE  childCount'[u] =
               IF t \in ChildrenOf(u) THEN (childCount[u] - 1) % Word
                                      ELSE childCount[u]
  <2>1. u \in Tasks /\ u \in Listed /\ u # t
    BY <1>1, <1>2
  <2>2. CASE ppid[t] > 0
    <3>1. ParentCount(t) = [childCount EXCEPT ![parent[t]] = (@ - 1) % Word]
      BY <2>2 DEF ParentCount
    <3>2. childCount'[u] = IF u = parent[t] THEN (childCount[u] - 1) % Word
                                            ELSE childCount[u]
      BY <1>0, <1>3, <2>1, <3>1 DEF IInv, TypeOK
    <3> QED BY <1>1, <2>2, <3>2 DEF ChildrenOf
  <2>3. CASE ~(ppid[t] > 0)
    BY <1>0, <1>3, <2>1, <2>3 DEF ParentCount, ChildrenOf, IInv, TypeOK
  <2> QED BY <2>2, <2>3
<1>8. ASSUME NEW u \in Listed'
      PROVE  childCount'[u] = Cardinality(ChildrenOf(u)')
  <2> DEFINE n == Cardinality(ChildrenOf(u))
  <2>1. /\ IsFiniteSet(ChildrenOf(u)) /\ n \in Counter
        /\ childCount[u] = n
    BY <1>0, <1>2, ChildrenCounted DEF FInv, ChildCountExact
  <2>2. /\ IsFiniteSet(ChildrenOf(u)')
        /\ Cardinality(ChildrenOf(u)') \in Counter
    BY <1>0, <1>5, ChildrenCountedNext
  <2>3. Cardinality(ChildrenOf(u)') = IF t \in ChildrenOf(u) THEN n - 1 ELSE n
    BY <1>6, <2>1, FS_RemoveElement
  <2> HIDE DEF n
  <2>4. n - 1 \in Counter => (n - 1) % Word = n - 1
    BY <2>1, ProcessAssumption DEF Counter
  <2> QED BY <1>7, <2>1, <2>2, <2>3, <2>4
<1> QED BY <1>0, <1>5, <1>8 DEF FInv, ChildCountExact

LEMMA InitFamily == Init => FInv
<1> SUFFICES ASSUME Init PROVE FInv
  OBVIOUS
<1>1. IInv
  BY InitIInv
<1>2. \A t \in Listed : t \in Tasks /\ ppid[t] = 0 /\ childCount[t] = 0
  BY <1>1, PidsOfTasks DEF Init
<1>3. \A t : ChildrenOf(t) = {}
  BY <1>2 DEF ChildrenOf
<1>4. ChildPids /\ ParentIsLive
  BY <1>2 DEF Init, ChildPids, ParentIsLive, HelloPid
<1>5. ChildCountExact
  BY <1>2, <1>3, FS_EmptySet DEF ChildCountExact
<1> QED BY <1>1, <1>4, <1>5 DEF FInv

LEMMA FamilyStep ==
  ASSUME CountsFit, OrphansAllowed = FALSE, FInv, [FamilyNext]_vars
  PROVE  FInv'
<1>1. CASE TimerIRQ
  BY <1>1, TimerIRQIInv, SameFamily DEF FInv, TimerIRQ, family
<1>2. ASSUME NEW t \in Tasks, Fork(t) PROVE FInv'
  BY <1>2, ForkFamily
<1>3. ASSUME NEW t \in Tasks, Execve(t) PROVE FInv'
  BY <1>3, ExecveFamily
<1>4. ASSUME NEW t \in Tasks, Exit(t) PROVE FInv'
  BY <1>4, ExitFamily
<1>5. ASSUME NEW t \in Tasks, NEW p \in 1 .. nextPid - 1, Waitpid(t, p)
      PROVE  FInv'
  <2>1. p \in Nat
    BY DEF FInv, IInv, TypeOK
  <2>2. IInv'
    BY <1>5, <2>1, WaitpidIInv DEF FInv
  <2> QED BY <1>5, <2>2, SameFamily DEF FInv, Waitpid
<1>6. ASSUME NEW t \in Tasks, NEW sec \in SleepArgs, Sleep(t, sec) PROVE FInv'
  <2>1. IInv'
    BY <1>6, SleepIInv DEF FInv
  <2> QED BY <1>6, <2>1, SameFamily DEF FInv, Sleep, family
<1>7. CASE UNCHANGED vars
  BY <1>7, StutterIInv, SameFamily DEF FInv, vars, family
<1> QED BY <1>1, <1>2, <1>3, <1>4, <1>5, <1>6, <1>7 DEF FamilyNext, FamilyCall

-----------------------------------------------------------------------------
(* waitpid: who wakes a task that waits. *)

\* The scheduler takes no task out of waitpid, if the one it may dispatch
\* without looking at its state, the head of the list, does not wait itself.
LEMMA TimerKeepsWaiting ==
  ASSUME NEW list \in Seq(Tasks), NEW st \in [Tasks -> States], NEW slp,
         NEW cur \in Tasks \cup {NULL}, NEW pt,
         list # <<>>, st[Head(list)] # "WAITING",
         cur # NULL => st[cur] # "WAITING",
         TimerInterrupt(list, st, slp, cur, pt),
         NEW u \in Tasks, st[u] = "WAITING"
  PROVE  state'[u] = "WAITING"
<1> DEFINE st2 == IF ticks + 1 = TicksPerSecond
                  THEN WakeSleepers(list, st, slp) ELSE st
           next == NextTask(list, st2, cur)
<1>1. \A v \in Tasks : st2[v] = "WAITING" <=> st[v] = "WAITING"
  BY DEF WakeSleepers, Sleepers
<1>2. Schedule(list, st2, cur, pt)
  BY DEF TimerInterrupt
<1>3. Head(list) \in Tasks /\ NULL \notin Tasks
  BY PopHead, InRange, ProcessAssumption
<1> HIDE DEF st2
<1>4. next = NULL \/ next # u
  BY <1>1, <1>3, NextTaskEffect
<1>5. IF next = NULL
      THEN state' = st2
      ELSE state' = [t \in Tasks |-> IF t = next THEN "RUNNING"
                                     ELSE IF t = cur THEN "RUNNABLE"
                                     ELSE st2[t]]
  BY <1>2 DEF Schedule
<1> HIDE DEF next
<1>6. cur # u
  BY <1>3
<1> QED BY <1>1, <1>4, <1>5, <1>6

\* The caller of a call that ends in a timer interrupt gave the CPU away, and
\* the interrupt finds hello at the head of the list.
LEMMA CallKeepsWaiting ==
  ASSUME DInv, DInv', NEW st \in [Tasks -> States], NEW slp, NEW pt,
         st[Hello] # "WAITING",
         TimerInterrupt(taskList', st, slp, NULL, pt),
         NEW u \in Tasks, st[u] = "WAITING"
  PROVE  state'[u] = "WAITING"
<1>1. /\ taskList' \in Seq(Tasks) /\ taskList' # <<>>
      /\ Head(taskList') = Hello
  BY DEF DInv, IInv, TypeOK, HelloFirst
<1> QED BY <1>1, TimerKeepsWaiting

\* What a step may do to a task that waits.
ChildWakes ==
  \A t \in Listed :
    state[t] = "WAITING" /\ t \in Listed' /\ state'[t] # "WAITING"
      => \E c \in ChildrenOf(t) : c \notin Listed'

\* Hello never waits, the task on the CPU does not, and both are tasks.
LEMMA HelloReady ==
  ASSUME DInv
  PROVE  /\ state \in [Tasks -> States] /\ Hello \in Tasks
         /\ state[Hello] # "WAITING"
         /\ current # NULL => current \in Listed /\ state[current] = "RUNNING"
         /\ Listed \subseteq Tasks
BY LiveIsListed DEF DInv, IInv, TypeOK, HelloFirst, StatesFit, Listed

LEMMA TimerIRQWakes ==
  ASSUME DInv, TimerIRQ
  PROVE  ChildWakes
<1>1. /\ taskList \in Seq(Tasks) /\ taskList # <<>>
      /\ Head(taskList) = Hello /\ current \in Tasks \cup {NULL}
  BY DEF DInv, IInv, TypeOK, HelloFirst
<1>2. TimerInterrupt(taskList, state, sleepTime, current, cr3)
  BY DEF TimerIRQ
<1>3. \A u \in Tasks : state[u] = "WAITING" => state'[u] = "WAITING"
  BY <1>1, <1>2, HelloReady, TimerKeepsWaiting
<1> QED BY <1>3, HelloReady DEF ChildWakes

LEMMA ForkWakes ==
  ASSUME DInv, DInv', NEW t \in Tasks, Fork(t)
  PROVE  ChildWakes
<1>1. t # Hello /\ state[t] = "RUNNING"
  BY CallerRuns DEF Fork
<1>2. PICK child \in FreeTask :
        /\ CreateTask(child, nextPid, [ppid EXCEPT ![child] = pid[t]], t)
        /\ TimerInterrupt(taskList',
                          [state EXCEPT ![child] = "RUNNABLE", ![t] = "RUNNABLE"],
                          [sleepTime EXCEPT ![child] = 0], NULL, t)
  BY DEF Fork
<1>3. child \in Tasks /\ child \notin Listed
  BY <1>2, CreateTaskEffect DEF DInv, IInv, TypeOK, ListsTyped, PidsGivenOut
<1> DEFINE st == [state EXCEPT ![child] = "RUNNABLE", ![t] = "RUNNABLE"]
           slp == [sleepTime EXCEPT ![child] = 0]
<1>4. /\ st \in [Tasks -> States] /\ st[Hello] # "WAITING"
      /\ \A u \in Listed : state[u] = "WAITING" => st[u] = "WAITING"
  BY <1>1, <1>3, HelloReady DEF States
<1> HIDE DEF st, slp
<1>5. TimerInterrupt(taskList', st, slp, NULL, t)
  BY <1>2 DEF st, slp
<1>6. \A u \in Listed : state[u] = "WAITING" => state'[u] = "WAITING"
  BY <1>4, <1>5, HelloReady, CallKeepsWaiting
<1> QED BY <1>6 DEF ChildWakes

\* waitpid and sleep.
LEMMA BlockWakes ==
  ASSUME DInv, DInv', NEW t \in Tasks, NEW call, Calling(t, call),
         NEW b \in {"SLEEP", "WAITING"}, NEW slp, NEW pt,
         TimerInterrupt(taskList, [state EXCEPT ![t] = b], slp, NULL, pt),
         UNCHANGED lists
  PROVE  ChildWakes
<1> DEFINE st == [state EXCEPT ![t] = b]
<1>1. t # Hello /\ state[t] = "RUNNING" /\ taskList' = taskList
  BY CallerRuns DEF lists
<1>2. /\ st \in [Tasks -> States] /\ st[Hello] # "WAITING"
      /\ \A u \in Listed : state[u] = "WAITING" => st[u] = "WAITING"
  BY <1>1, HelloReady DEF States
<1> HIDE DEF st
<1>3. TimerInterrupt(taskList', st, slp, NULL, pt)
  BY <1>1 DEF st
<1>4. \A u \in Listed : state[u] = "WAITING" => state'[u] = "WAITING"
  BY <1>2, <1>3, HelloReady, CallKeepsWaiting
<1> QED BY <1>4 DEF ChildWakes

\* Of those that wait an exit wakes the parent only, and its child is gone.
LEMMA ExitWakes ==
  ASSUME DInv, DInv', NEW t \in Listed, current = t, t # Hello, ExitTask(t)
  PROVE  ChildWakes
<1>1. t \in Tasks /\ Listed' = Listed \ {t}
  BY FreeTaskEffect DEF ExitTask, DInv, IInv, TypeOK, ListsTyped
<1> DEFINE st == [ParentState(t) EXCEPT ![t] = "STOPPED"]
           slp == [sleepTime EXCEPT ![t] = 0]
<1>2. /\ ParentState(t) \in [Tasks -> States]
      /\ \A u \in Tasks :
           \/ ParentState(t)[u] = state[u]
           \/ ParentState(t)[u] = "RUNNABLE" /\ ppid[t] > 0 /\ u = parent[t]
  BY HelloReady DEF ParentState, WakeWaiter, States
<1>3. st \in [Tasks -> States] /\ st[Hello] # "WAITING"
  BY <1>1, <1>2, HelloReady DEF States
<1>4. \A u \in Tasks : u # t => st[u] = ParentState(t)[u]
  BY <1>1, <1>2
<1>5. TimerInterrupt(taskList', st, slp, NULL, NULL)
  BY DEF ExitTask
<1> HIDE DEF st, slp
<1>6. \A u \in Tasks : st[u] = "WAITING" => state'[u] = "WAITING"
  BY <1>3, <1>5, CallKeepsWaiting
<1> SUFFICES ASSUME NEW u \in Listed', state[u] = "WAITING",
                    state'[u] # "WAITING"
             PROVE  t \in ChildrenOf(u)
  BY <1>1 DEF ChildWakes
<1>7. u \in Tasks /\ u # t
  BY <1>1, HelloReady
<1>8. ppid[t] > 0 /\ u = parent[t]
  BY <1>2, <1>4, <1>6, <1>7
<1> QED BY <1>8 DEF ChildrenOf

LEMMA ExecveWakes ==
  ASSUME DInv, NEW t \in Tasks, Execve(t)
  PROVE  ChildWakes
<1>1. t \in Listed
  BY CallerRuns DEF Execve
<1>2. PICK image \in FreeTask :
        /\ CreateTask(image, pid[t],
                      [ppid EXCEPT ![image] = ppid[t], ![t] = 0], parent[t])
        /\ state' = [state EXCEPT ![image] = "RUNNABLE"]
  BY DEF Execve
<1>3. pid[t] \in Nat \ {0}
  BY <1>1 DEF DInv, IInv, TypeOK, ListsPartition
<1>4. image \notin Listed
  BY <1>2, <1>3, CreateTaskEffect DEF DInv, IInv, TypeOK, ListsTyped
<1> QED BY <1>2, <1>4, HelloReady DEF ChildWakes

\* kill makes nobody RUNNABLE.
LEMMA KillWakes ==
  ASSUME DInv, NEW t \in Tasks, NEW p, Kill(t, p)
  PROVE  ChildWakes
<1> DEFINE target == GetTask(p)
<1>1. /\ target # NULL
      /\ FreeTaskStruct(target, childCount)
      /\ state' = [state EXCEPT ![target] = "STOPPED"]
  BY DEF Kill
<1>2. target \in Listed
  BY <1>1, FirstFound DEF GetTask, DInv, IInv, TypeOK, Listed
<1> HIDE DEF target
<1>3. Listed' = Listed \ {target}
  BY <1>1, <1>2, FreeTaskEffect DEF DInv, IInv, TypeOK, ListsTyped
<1> QED BY <1>1, <1>3, HelloReady DEF ChildWakes

LEMMA StepWakes ==
  ASSUME DInv, DInv', [Next]_vars
  PROVE  ChildWakes
<1>1. CASE TimerIRQ
  BY <1>1, TimerIRQWakes
<1>2. ASSUME NEW t \in Tasks, Fork(t) PROVE ChildWakes
  BY <1>2, ForkWakes
<1>3. ASSUME NEW t \in Tasks, Execve(t) PROVE ChildWakes
  BY <1>3, ExecveWakes
<1>4. ASSUME NEW t \in Tasks, Exit(t) PROVE ChildWakes
  BY <1>4, CallerRuns, ExitWakes DEF Exit
<1>5. ASSUME NEW t \in Tasks, NEW p, Waitpid(t, p) PROVE ChildWakes
  BY <1>5, BlockWakes DEF Waitpid
<1>6. ASSUME NEW t \in Tasks, NEW p, Kill(t, p) PROVE ChildWakes
  BY <1>6, KillWakes
<1>7. ASSUME NEW t \in Tasks, NEW sec \in SleepArgs, Sleep(t, sec)
      PROVE  ChildWakes
  <2>1. /\ Calling(t, "sleep") /\ UNCHANGED lists
        /\ TimerInterrupt(taskList, [state EXCEPT ![t] = "SLEEP"],
                          [sleepTime EXCEPT ![t] = (sec - 1) % Word], NULL, t)
    BY <1>7 DEF Sleep
  <2> QED BY <2>1, BlockWakes
<1>8. ASSUME NEW t \in Tasks, PageFault(t) PROVE ChildWakes
  <2>1. current = t /\ t \in Listed /\ t # Hello
    BY <1>8, LiveIsListed DEF PageFault, DInv
  <2> QED BY <1>8, <2>1, ExitWakes DEF PageFault
<1>9. CASE UNCHANGED vars
  BY <1>9 DEF ChildWakes, vars, clock
<1> QED BY <1>1, <1>2, <1>3, <1>4, <1>5, <1>6, <1>7, <1>8, <1>9
        DEF Next, Syscall

LEMMA FamilyIsNext == FamilyNext => Next
BY DEF FamilyNext, FamilyCall, Next, Syscall

\* Without kill the head of the list is hello, whatever AnyVictim says.
LEMMA FamilyDispatches ==
  ASSUME DInv, [FamilyNext]_vars
  PROVE  DInv'
<1>1. CASE TimerIRQ
  BY <1>1, TimerIRQRefines
<1>2. ASSUME NEW t \in Tasks, Fork(t) PROVE DInv'
  BY <1>2, ForkRefines
<1>3. ASSUME NEW t \in Tasks, Execve(t) PROVE DInv'
  BY <1>3, ExecveRefines
<1>4. ASSUME NEW t \in Tasks, Exit(t) PROVE DInv'
  BY <1>4, CallerRuns, ExitTaskRefines DEF Exit
<1>5. ASSUME NEW t \in Tasks, NEW p \in 1 .. nextPid - 1, Waitpid(t, p)
      PROVE  DInv'
  <2>1. p \in Nat
    BY DEF DInv, IInv, TypeOK
  <2> QED BY <1>5, <2>1, WaitpidRefines
<1>6. ASSUME NEW t \in Tasks, NEW sec \in SleepArgs, Sleep(t, sec) PROVE DInv'
  BY <1>6, SleepRefines
<1>7. CASE UNCHANGED vars
  BY <1>7, StutterRefines
<1> QED BY <1>1, <1>2, <1>3, <1>4, <1>5, <1>6, <1>7 DEF FamilyNext, FamilyCall

-----------------------------------------------------------------------------
(* The theorems. *)

\* Programs that kill nothing and exit after their children keep the children
\* counted and the pointers to the parents alive.
THEOREM FInvHolds ==
  ASSUME CountsFit, OrphansAllowed = FALSE
  PROVE  FairSpec => []FInv
<1>1. FInv /\ [FamilyNext]_vars => FInv'
  BY FamilyStep
<1> QED BY <1>1, InitFamily, PTL DEF FairSpec

\* child_count is the number of children that have not exited: neither the
\* execve of a child, which puts another task_struct in its place, nor 64-bit
\* arithmetic loses one.
THEOREM ChildrenAreCounted ==
  ASSUME CountsFit, OrphansAllowed = FALSE
  PROVE  FairSpec => []ChildCountExact
<1>1. FairSpec => []FInv
  BY FInvHolds
<1> QED BY <1>1, PTL DEF FInv

\* The parent pointer of a child, copied by fork and execve, never leads to a
\* task_struct that was freed or given to another process.
THEOREM ParentPointerLive ==
  ASSUME CountsFit, OrphansAllowed = FALSE
  PROVE  FairSpec => []ParentIsLive
<1>1. FairSpec => []FInv
  BY FInvHolds
<1> QED BY <1>1, PTL DEF FInv

\* Only the exit of a child takes a task out of waitpid: neither a timer
\* interrupt nor the scan of the list from its head dispatches one that waits.
THEOREM WaitersWokenByChild == FairSpec => WaiterWokenByChild
<1>1. DInv /\ [FamilyNext]_vars => DInv'
  BY FamilyDispatches
<1>2. DInv /\ DInv' /\ [FamilyNext]_vars
        => [\A t \in Listed :
              state[t] = "WAITING" /\ t \in Listed' /\ state'[t] # "WAITING"
                => \E c \in ChildrenOf(t) : c \notin Listed']_vars
  BY FamilyIsNext, StepWakes DEF ChildWakes
<1> QED BY <1>1, <1>2, InitRefines, PTL
        DEF FairSpec, WaiterWokenByChild

\* The same when programs kill each other or leave orphans behind, as long as
\* nobody kills hello or itself.
THEOREM WokenByChildAmongKills ==
  ASSUME AnyVictim = FALSE
  PROVE  Spec => WaiterWokenByChild
<1>1. DInv /\ [Next]_vars => DInv'
  BY NextRefines
<1>2. DInv /\ DInv' /\ [Next]_vars
        => [\A t \in Listed :
              state[t] = "WAITING" /\ t \in Listed' /\ state'[t] # "WAITING"
                => \E c \in ChildrenOf(t) : c \notin Listed']_vars
  BY StepWakes DEF ChildWakes
<1> QED BY <1>1, <1>2, InitRefines, PTL
        DEF Spec, WaiterWokenByChild

=============================================================================
