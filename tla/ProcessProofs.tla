--------------------------- MODULE ProcessProofs ---------------------------
(***************************************************************************)
(* Theorems about Process, for every set of task_struct's and every value  *)
(* of the bounds.                                                          *)
(***************************************************************************)
EXTENDS Process, SequenceTheorems, WellFoundedInduction, TLAPS

(* What the list operators of Process do, for every sequence. *)

\* A set of natural numbers has a least element: the loops over a list stop
\* at the first match.
LEMMA LeastExists ==
  ASSUME NEW I, I \subseteq Nat, I # {}
  PROVE  \E i \in I : \A j \in I : i <= j
<1>1. PICK i \in I : \A j \in I : <<j, i>> \notin OpToRel(<, Nat)
  BY NatLessThanWellFounded, WFMin
<1>2. \A j \in I : ~(j < i)
  BY <1>1 DEF OpToRel
<1> QED BY <1>2

\* get_task and the two loops of get_next_task return an element of the list
\* that passes their test, NULL only when there is none.
LEMMA FirstFound ==
  ASSUME NEW s \in Seq(Tasks), NEW S
  PROVE  \/ First(s, S) = NULL /\ Range(s) \cap S = {}
         \/ First(s, S) \in Range(s) \cap S
<1> DEFINE I == {i \in DOMAIN s : s[i] \in S}
<1>1. I \subseteq Nat
  BY LenProperties
<1>2. CASE I = {}
  BY <1>2 DEF First, Range
<1>3. CASE I # {}
  <2> DEFINE k == CHOOSE i \in I : \A j \in I : i <= j
  <2>1. k \in I
    BY <1>1, <1>3, LeastExists
  <2>2. First(s, S) = s[k]
    BY <1>3 DEF First
  <2> QED BY <2>1, <2>2 DEF Range
<1> QED BY <1>2, <1>3

\* What follows a task on a list is on that list.
LEMMA AfterProperties ==
  ASSUME NEW s \in Seq(Tasks), NEW t
  PROVE  /\ After(s, t) \in Seq(Tasks)
         /\ Range(After(s, t)) \subseteq Range(s)
<1>1. CASE t \notin Range(s)
  BY <1>1, EmptySeq, LenProperties DEF After, Range
<1>2. CASE t \in Range(s)
  <2> DEFINE k == CHOOSE i \in DOMAIN s : s[i] = t
  <2>1. k \in 1 .. Len(s) /\ Len(s) \in Nat /\ DOMAIN s = 1 .. Len(s)
    BY <1>2, LenProperties DEF Range
  <2>2. After(s, t) = SubSeq(s, k + 1, Len(s))
    BY <1>2 DEF After
  <2>3. \A i \in k + 1 .. Len(s) : s[i] \in Tasks
    BY <2>1, ElementOfSeq
  <2> HIDE DEF k
  <2>4. /\ After(s, t) \in Seq(Tasks)
        /\ Len(After(s, t)) = IF k + 1 <= Len(s) THEN Len(s) - (k + 1) + 1 ELSE 0
        /\ \A i \in 1 .. Len(s) - (k + 1) + 1 : After(s, t)[i] = s[(k + 1) + i - 1]
    <3> DEFINE m == k + 1  n == Len(s)
    <3>1. m \in Int /\ n \in Int /\ \A i \in m .. n : s[i] \in Tasks
      BY <2>1, <2>3
    <3> HIDE DEF m, n
    <3>2. /\ SubSeq(s, m, n) \in Seq(Tasks)
          /\ Len(SubSeq(s, m, n)) = IF m <= n THEN n - m + 1 ELSE 0
          /\ \A i \in 1 .. n - m + 1 : SubSeq(s, m, n)[i] = s[m + i - 1]
      BY <3>1, SubSeqProperties
    <3> QED BY <2>2, <3>2 DEF m, n
  <2>5. \A i \in DOMAIN After(s, t) : After(s, t)[i] \in Range(s)
    <3> SUFFICES ASSUME NEW i \in DOMAIN After(s, t)
                 PROVE  After(s, t)[i] \in Range(s)
      OBVIOUS
    <3>1. i \in 1 .. Len(After(s, t))
      BY <2>4, LenProperties
    <3>2. i \in 1 .. Len(s) - (k + 1) + 1
      <4> DEFINE n == Len(s)  m == Len(After(s, t))
      <4>1. n \in Nat /\ k \in 1 .. n
        BY <2>1
      <4>2. m = IF k + 1 <= n THEN n - (k + 1) + 1 ELSE 0
        BY <2>4
      <4>3. i \in 1 .. m
        BY <3>1
      <4> HIDE DEF n, m
      <4>4. i \in 1 .. n - (k + 1) + 1
        BY <4>1, <4>2, <4>3
      <4> QED BY <4>4 DEF n
    <3>3. (k + 1) + i - 1 \in 1 .. Len(s)
      BY <2>1, <3>2
    <3>4. After(s, t)[i] = s[(k + 1) + i - 1]
      BY <2>4, <3>2
    <3> QED BY <2>1, <3>3, <3>4 DEF Range
  <2> QED BY <2>4, <2>5 DEF Range
<1> QED BY <1>1, <1>2

\* The members of a list.
LEMMA InRange ==
  ASSUME NEW s \in Seq(Tasks)
  PROVE  /\ \A x : x \in Range(s) <=> \E i \in 1 .. Len(s) : s[i] = x
         /\ Range(s) \subseteq Tasks
  BY LenProperties, ElementOfSeq DEF Range

\* remove_from_task_list takes out one node and relinks the rest in order.
LEMMA UnlinkShape ==
  ASSUME NEW s \in Seq(Tasks), NEW t \in Range(s)
  PROVE  \E k \in 1 .. Len(s) :
           /\ s[k] = t
           /\ Unlink(s, t) \in Seq(Tasks)
           /\ Len(Unlink(s, t)) = Len(s) - 1
           /\ \A i \in 1 .. Len(s) - 1 :
                Unlink(s, t)[i] = IF i < k THEN s[i] ELSE s[i + 1]
<1> DEFINE k == CHOOSE i \in DOMAIN s : s[i] = t
           n == Len(s)
<1>1. n \in Nat /\ k \in 1 .. n /\ s[k] = t
  BY LenProperties DEF Range
<1>2. \A i \in 1 .. n : s[i] \in Tasks
  BY ElementOfSeq
<1>3. Unlink(s, t) = SubSeq(s, 1, k - 1) \o SubSeq(s, k + 1, n)
  BY DEF Unlink
<1> HIDE DEF k, n
<1> DEFINE a == SubSeq(s, 1, k - 1)  b == SubSeq(s, k + 1, n)
<1>4. /\ a \in Seq(Tasks)
      /\ Len(a) = k - 1
      /\ \A i \in 1 .. k - 1 : a[i] = s[i]
  <2> DEFINE m == k - 1
  <2>1. m \in Int /\ \A i \in 1 .. m : s[i] \in Tasks
    BY <1>1, <1>2
  <2> HIDE DEF m
  <2>2. /\ SubSeq(s, 1, m) \in Seq(Tasks)
        /\ Len(SubSeq(s, 1, m)) = IF 1 <= m THEN m - 1 + 1 ELSE 0
        /\ \A i \in 1 .. m - 1 + 1 : SubSeq(s, 1, m)[i] = s[1 + i - 1]
    BY <2>1, SubSeqProperties
  <2> QED BY <1>1, <2>2 DEF m
<1>5. /\ b \in Seq(Tasks)
      /\ Len(b) = n - k
      /\ \A i \in 1 .. n - k : b[i] = s[k + i]
  <2> DEFINE m == k + 1
  <2>1. m \in Int /\ n \in Int /\ \A i \in m .. n : s[i] \in Tasks
    BY <1>1, <1>2
  <2> HIDE DEF m
  <2>2. /\ SubSeq(s, m, n) \in Seq(Tasks)
        /\ Len(SubSeq(s, m, n)) = IF m <= n THEN n - m + 1 ELSE 0
        /\ \A i \in 1 .. n - m + 1 : SubSeq(s, m, n)[i] = s[m + i - 1]
    BY <2>1, SubSeqProperties
  <2> QED BY <1>1, <2>2 DEF m
<1> HIDE DEF a, b
<1>6. /\ a \o b \in Seq(Tasks)
      /\ Len(a \o b) = Len(a) + Len(b)
      /\ \A i \in 1 .. Len(a) + Len(b) :
           (a \o b)[i] = IF i <= Len(a) THEN a[i] ELSE b[i - Len(a)]
  BY <1>4, <1>5, ConcatProperties
<1>7. \A i \in 1 .. n - 1 : (a \o b)[i] = IF i < k THEN s[i] ELSE s[i + 1]
  BY <1>1, <1>4, <1>5, <1>6
<1>8. Unlink(s, t) = a \o b
  BY <1>3 DEF a, b
<1>9. Len(a \o b) = n - 1
  BY <1>1, <1>4, <1>5, <1>6
<1> QED BY <1>1, <1>6, <1>7, <1>8, <1>9 DEF n

LEMMA UnlinkProperties ==
  ASSUME NEW s \in Seq(Tasks), NEW t, IsInjective(s)
  PROVE  /\ Unlink(s, t) \in Seq(Tasks)
         /\ Range(Unlink(s, t)) = Range(s) \ {t}
         /\ IsInjective(Unlink(s, t))
         /\ s # <<>> /\ Head(s) # t
              => Unlink(s, t) # <<>> /\ Head(Unlink(s, t)) = Head(s)
<1>1. CASE t \notin Range(s)
  BY <1>1 DEF Unlink
<1>2. CASE t \in Range(s)
  <2> DEFINE u == Unlink(s, t)  n == Len(s)
  <2>1. PICK k \in 1 .. n :
          /\ s[k] = t
          /\ u \in Seq(Tasks)
          /\ Len(u) = n - 1
          /\ \A i \in 1 .. n - 1 : u[i] = IF i < k THEN s[i] ELSE s[i + 1]
    BY <1>2, UnlinkShape
  <2>2. n \in Nat /\ DOMAIN s = 1 .. n /\ DOMAIN u = 1 .. n - 1
    BY <2>1, LenProperties
  <2>3. \A i, j \in 1 .. n : s[i] = s[j] => i = j
    BY <2>2 DEF IsInjective
  <2>4. IsInjective(u)
    BY <2>1, <2>2, <2>3 DEF IsInjective
  <2>5. \A i \in 1 .. n - 1 : u[i] \in Range(s) \ {t}
    <3> SUFFICES ASSUME NEW i \in 1 .. n - 1
                 PROVE  u[i] \in Range(s) /\ u[i] # t
      OBVIOUS
    <3>1. CASE i < k
      BY <2>1, <2>2, <2>3, <3>1, InRange
    <3>2. CASE ~(i < k)
      <4>1. i + 1 \in 1 .. n /\ i + 1 # k /\ u[i] = s[i + 1]
        BY <2>1, <2>2, <3>2
      <4> QED BY <2>1, <2>3, <4>1, InRange
    <3> QED BY <3>1, <3>2
  <2>6. \A i \in 1 .. n : s[i] # t => \E j \in 1 .. n - 1 : u[j] = s[i]
    <3> SUFFICES ASSUME NEW i \in 1 .. n, s[i] # t
                 PROVE  \E j \in 1 .. n - 1 : u[j] = s[i]
      OBVIOUS
    <3>1. CASE i < k
      BY <2>1, <2>2, <3>1
    <3>2. CASE k < i
      <4>1. i - 1 \in 1 .. n - 1 /\ ~(i - 1 < k) /\ (i - 1) + 1 = i
        BY <2>1, <2>2, <3>2
      <4> QED BY <2>1, <4>1
    <3> QED BY <2>1, <2>2, <3>1, <3>2
  <2>7. Range(u) = Range(s) \ {t}
    <3>1. \A x \in Range(u) : x \in Range(s) \ {t}
      BY <2>1, <2>5, InRange
    <3>2. \A x \in Range(s) \ {t} : x \in Range(u)
      BY <2>1, <2>6, InRange
    <3> QED BY <3>1, <3>2
  <2>8. s # <<>> /\ Head(s) # t => u # <<>> /\ Head(u) = Head(s)
    <3> SUFFICES ASSUME s # <<>>, s[1] # t
                 PROVE  u # <<>> /\ u[1] = s[1]
      BY <2>1, EmptySeq
    <3>1. 1 \in 1 .. n - 1 /\ 1 < k
      BY <2>1, <2>2
    <3> QED BY <2>1, <2>2, <3>1, EmptySeq
  <2> QED BY <2>1, <2>4, <2>7, <2>8
<1> QED BY <1>1, <1>2

\* add_to_task_list and add_to_free_task_list walk to the end of the chain.
LEMMA AppendToList ==
  ASSUME NEW s \in Seq(Tasks), NEW t \in Tasks
  PROVE  /\ Append(s, t) \in Seq(Tasks)
         /\ Append(s, t) # <<>>
         /\ Range(Append(s, t)) = Range(s) \cup {t}
         /\ IsInjective(s) /\ t \notin Range(s) => IsInjective(Append(s, t))
         /\ s # <<>> => Head(Append(s, t)) = Head(s)
<1> DEFINE u == Append(s, t)  n == Len(s)
<1>1. /\ n \in Nat
      /\ u \in Seq(Tasks) /\ u # <<>>
      /\ Len(u) = n + 1
      /\ \A i \in 1 .. n : u[i] = s[i]
      /\ u[n + 1] = t
  BY AppendProperties, LenProperties
<1>indices. /\ \A x : x \in Range(s) <=> \E i \in 1 .. n : s[i] = x
      /\ \A x : x \in Range(u) <=> \E i \in 1 .. Len(u) : u[i] = x
      /\ DOMAIN s = 1 .. n /\ DOMAIN u = 1 .. Len(u)
  BY <1>1, InRange, LenProperties
<1>2. \A i \in 1 .. n + 1 : i \in 1 .. n \/ i = n + 1
  BY <1>1
<1>head. s # <<>> => Head(u) = Head(s)
  BY HeadTailAppend
<1> HIDE DEF u
<1>3. Range(u) = Range(s) \cup {t}
  <2>1. \A x \in Range(u) : x \in Range(s) \cup {t}
    BY <1>1, <1>2, <1>indices
  <2>2. \A x \in Range(s) : x \in Range(u)
    BY <1>1, <1>indices
  <2>3. t \in Range(u)
    BY <1>1, <1>indices
  <2> QED BY <2>1, <2>2, <2>3
<1>4. ASSUME IsInjective(s), t \notin Range(s) PROVE IsInjective(u)
  <2>1. DOMAIN s = 1 .. n /\ DOMAIN u = 1 .. n + 1
    BY <1>1, <1>indices
  <2>2. \A i \in 1 .. n : u[i] # u[n + 1]
    BY <1>1, <1>4, <1>indices
  <2>3. \A i, j \in 1 .. n : u[i] = u[j] => i = j
    BY <1>1, <1>4, <2>1 DEF IsInjective
  <2>4. \A i, j \in 1 .. n + 1 : u[i] = u[j] => i = j
    BY <1>2, <2>2, <2>3
  <2> QED BY <2>1, <2>4 DEF IsInjective
<1> QED BY <1>1, <1>3, <1>4, <1>head DEF u

\* get_free_task takes the head of the free list.
LEMMA PopHead ==
  ASSUME NEW s \in Seq(Tasks), s # <<>>
  PROVE  /\ Head(s) \in Range(s)
         /\ Tail(s) \in Seq(Tasks)
         /\ Range(s) = Range(Tail(s)) \cup {Head(s)}
         /\ IsInjective(s) => /\ IsInjective(Tail(s))
                              /\ Head(s) \notin Range(Tail(s))
<1> DEFINE u == Tail(s)  n == Len(s)
<1>1. /\ n \in Nat \ {0}
      /\ u \in Seq(Tasks)
      /\ Len(u) = n - 1
      /\ \A i \in 1 .. n - 1 : u[i] = s[i + 1]
      /\ Head(s) = s[1]
  BY HeadTailProperties, EmptySeq, LenProperties
<1>indices. /\ \A x : x \in Range(s) <=> \E i \in 1 .. n : s[i] = x
      /\ \A x : x \in Range(u) <=> \E i \in 1 .. Len(u) : u[i] = x
      /\ DOMAIN s = 1 .. n /\ DOMAIN u = 1 .. Len(u)
  BY <1>1, InRange, LenProperties
<1> HIDE DEF u
<1>2. 1 \in 1 .. n /\ \A i \in 1 .. n - 1 : i + 1 \in 1 .. n /\ i + 1 # 1
  BY <1>1
<1>3. \A i \in 1 .. n : i = 1 \/ \E j \in 1 .. n - 1 : i = j + 1
  <2> SUFFICES ASSUME NEW i \in 1 .. n, i # 1
               PROVE  \E j \in 1 .. n - 1 : i = j + 1
    OBVIOUS
  <2>1. i - 1 \in 1 .. n - 1 /\ i = (i - 1) + 1
    BY <1>1
  <2> QED BY <2>1
<1>4. Head(s) \in Range(s)
  BY <1>1, <1>2, <1>indices
<1>5. Range(s) = Range(u) \cup {Head(s)}
  <2>1. \A x \in Range(s) : x \in Range(u) \cup {Head(s)}
    <3>1. \A j \in 1 .. n - 1 : s[j + 1] \in Range(u)
      BY <1>1, <1>indices
    <3> QED BY <1>1, <1>3, <1>indices, <3>1
  <2>2. \A x \in Range(u) : x \in Range(s)
    BY <1>1, <1>2, <1>indices
  <2> QED BY <1>4, <2>1, <2>2
<1>6. ASSUME IsInjective(s)
      PROVE  IsInjective(u) /\ Head(s) \notin Range(u)
  <2>1. DOMAIN s = 1 .. n /\ DOMAIN u = 1 .. n - 1
    BY <1>1, <1>indices
  <2>2. \A i, j \in 1 .. n : s[i] = s[j] => i = j
    BY <1>6, <2>1 DEF IsInjective
  <2>3. \A i, j \in 1 .. n - 1 : u[i] = u[j] => i = j
    <3> SUFFICES ASSUME NEW i \in 1 .. n - 1, NEW j \in 1 .. n - 1, u[i] = u[j]
                 PROVE  i = j
      OBVIOUS
    <3>1. i + 1 \in 1 .. n /\ j + 1 \in 1 .. n /\ s[i + 1] = s[j + 1]
      BY <1>1, <1>2
    <3>2. i + 1 = j + 1
      BY <2>2, <3>1
    <3> QED BY <1>1, <3>2
  <2>4. Head(s) \notin Range(u)
    BY <1>1, <1>2, <2>2, <1>indices
  <2> QED BY <2>1, <2>3, <2>4 DEF IsInjective
<1> QED BY <1>1, <1>4, <1>5, <1>6 DEF u

-----------------------------------------------------------------------------
(* The process manager. *)

\* uint64_t arithmetic stays in the counter's range.
LEMMA WrapInCounter ==
  ASSUME NEW n \in Counter
  PROVE  (n + 1) % Word \in Counter /\ (n - 1) % Word \in Counter
BY ProcessAssumption DEF Counter

-----------------------------------------------------------------------------
(* The timer interrupt, whatever called it. *)

\* The wake-ups of update_time_slices make no task RUNNING, its count-down
\* never goes below zero.
LEMMA SecondPasses ==
  ASSUME NEW list, NEW st \in [Tasks -> States], NEW slp \in [Tasks -> Counter]
  PROVE  /\ WakeSleepers(list, st, slp) \in [Tasks -> States]
         /\ CountDown(list, st, slp) \in [Tasks -> Counter]
         /\ \A t \in Tasks :
              WakeSleepers(list, st, slp)[t] = "RUNNING" => st[t] = "RUNNING"
<1>1. \A t \in Tasks : slp[t] # 0 => slp[t] - 1 \in Counter
  BY ProcessAssumption DEF Counter
<1> QED BY <1>1 DEF WakeSleepers, CountDown, States

\* get_next_task: the head of the list when the CPU is free, else another
\* RUNNABLE task, and NULL only when there is none.
LEMMA NextTaskEffect ==
  ASSUME NEW list \in Seq(Tasks), NEW st, NEW cur
  PROVE  LET next == NextTask(list, st, cur) IN
         \/ /\ next = NULL
            /\ IF cur = NULL THEN list = <<>>
               ELSE \A t \in Range(list) \ {cur} : st[t] # "RUNNABLE"
         \/ /\ next \in Range(list)
            /\ IF cur = NULL THEN list # <<>> /\ next = Head(list)
               ELSE next # cur /\ st[next] = "RUNNABLE"
<1> DEFINE ready == {t \in Tasks : t # cur /\ st[t] = "RUNNABLE"}
           ahead == First(After(list, cur), ready)
           again == First(list, ready)
<1>1. \/ again = NULL /\ Range(list) \cap ready = {}
      \/ again \in Range(list) \cap ready
  BY FirstFound
<1>2. ahead = NULL \/ ahead \in Range(list) \cap ready
  BY FirstFound, AfterProperties
<1>3. list # <<>> => Head(list) \in Range(list)
  BY PopHead
<1>4. Range(list) \subseteq Tasks
  BY InRange
<1>5. NextTask(list, st, cur) =
        IF cur = NULL THEN IF list = <<>> THEN NULL ELSE Head(list)
        ELSE IF ahead # NULL THEN ahead ELSE again
  BY DEF NextTask
<1> HIDE DEF ahead, again
<1> QED BY <1>1, <1>2, <1>3, <1>4, <1>5

\* Either nothing is scheduled and the CPU stays as the code before left it,
\* or a listed task is RUNNING in its own address space.
LEMMA ScheduleEffect ==
  ASSUME NEW list \in Seq(Tasks), NEW st \in [Tasks -> States],
         NEW cur \in Tasks \cup {NULL}, NEW pt, Schedule(list, st, cur, pt)
  PROVE  /\ state' \in [Tasks -> States]
         /\ \/ current' = cur /\ cr3' = pt /\ state' = st
            \/ current' \in Range(list) /\ cr3' = current'
         /\ (\A t \in Tasks : st[t] = "RUNNING" => t = cur)
              => \A t \in Tasks : state'[t] = "RUNNING" => t = current'
<1>1. NextTask(list, st, cur) \in Range(list) \cup {NULL}
  BY NextTaskEffect
<1>2. Range(list) \subseteq Tasks
  BY InRange
<1> QED BY <1>1, <1>2 DEF Schedule, States

LEMMA TimerEffect ==
  ASSUME ticks \in 0 .. TicksPerSecond - 1,
         NEW list \in Seq(Tasks), NEW st \in [Tasks -> States],
         NEW slp \in [Tasks -> Counter], NEW cur \in Tasks \cup {NULL}, NEW pt,
         TimerInterrupt(list, st, slp, cur, pt)
  PROVE  /\ ticks' \in 0 .. TicksPerSecond - 1
         /\ sleepTime' \in [Tasks -> Counter]
         /\ state' \in [Tasks -> States]
         /\ \/ current' = cur /\ cr3' = pt
            \/ current' \in Range(list) /\ cr3' = current'
         /\ (\A t \in Tasks : st[t] = "RUNNING" => t = cur)
              => \A t \in Tasks : state'[t] = "RUNNING" => t = current'
<1> DEFINE second == ticks + 1 = TicksPerSecond
           st2 == IF second THEN WakeSleepers(list, st, slp) ELSE st
<1>1. /\ WakeSleepers(list, st, slp) \in [Tasks -> States]
      /\ CountDown(list, st, slp) \in [Tasks -> Counter]
      /\ \A t \in Tasks :
           WakeSleepers(list, st, slp)[t] = "RUNNING" => st[t] = "RUNNING"
  BY SecondPasses
<1>2. ticks' \in 0 .. TicksPerSecond - 1
  BY ProcessAssumption DEF TimerInterrupt
<1>3. sleepTime' \in [Tasks -> Counter]
  BY <1>1 DEF TimerInterrupt
<1>4. Schedule(list, st2, cur, pt)
  BY DEF TimerInterrupt
<1>5. /\ st2 \in [Tasks -> States]
      /\ \A t \in Tasks : st2[t] = "RUNNING" => st[t] = "RUNNING"
  BY <1>1
<1> HIDE DEF st2
<1>6. /\ state' \in [Tasks -> States]
      /\ \/ current' = cur /\ cr3' = pt
         \/ current' \in Range(list) /\ cr3' = current'
      /\ (\A t \in Tasks : st2[t] = "RUNNING" => t = cur)
           => \A t \in Tasks : state'[t] = "RUNNING" => t = current'
  BY <1>4, <1>5, ScheduleEffect
<1> QED BY <1>2, <1>3, <1>5, <1>6

-----------------------------------------------------------------------------
(* Creation and destruction. *)

ListsTyped == taskList \in Seq(Tasks) /\ freeList \in Seq(Tasks)

\* create_new_task moves a struct that is on no list, or on the free list, to
\* the task list.
LEMMA CreateTaskEffect ==
  ASSUME ListsTyped, ListsPartition, pid \in [Tasks -> Nat],
         NEW t \in FreeTask, NEW newPid \in Nat \ {0}, NEW ppids, NEW newParent,
         CreateTask(t, newPid, ppids, newParent)
  PROVE  /\ t \in Tasks /\ t \notin Listed
         /\ ListsTyped' /\ ListsPartition'
         /\ Listed' = Listed \cup {t}
         /\ taskList' # <<>>
<1>1. t \in Tasks /\ t \notin Listed
  BY PopHead, InRange DEF FreeTask, ListsTyped, ListsPartition, Listed, Freed
<1>2. /\ taskList' \in Seq(Tasks) /\ taskList' # <<>>
      /\ Listed' = Listed \cup {t}
      /\ IsInjective(taskList')
  BY <1>1, AppendToList DEF CreateTask, ListsTyped, ListsPartition, Listed
<1>3. /\ freeList' \in Seq(Tasks)
      /\ IsInjective(freeList')
      /\ t \notin Freed'
      /\ Freed \subseteq Freed' \cup {t} /\ Freed' \subseteq Freed
  <2>1. CASE freeList = <<>>
    BY <2>1, EmptySeq, LenProperties
       DEF CreateTask, ListsTyped, ListsPartition, Freed, Range
  <2>2. CASE freeList # <<>>
    BY <2>2, PopHead
       DEF CreateTask, FreeTask, ListsTyped, ListsPartition, Freed
  <2> QED BY <2>1, <2>2
<1>4. \A u \in Tasks : pid'[u] # 0 <=> u \in Listed' \cup Freed'
  BY <1>1, <1>2, <1>3 DEF CreateTask, ListsPartition
<1> QED BY <1>1, <1>2, <1>3, <1>4 DEF ListsTyped, ListsPartition

\* free_task_struct moves the struct to the free list.
LEMMA FreeTaskEffect ==
  ASSUME ListsTyped, ListsPartition, pid \in [Tasks -> Nat],
         NEW t \in Listed, NEW cc, FreeTaskStruct(t, cc)
  PROVE  /\ t \in Tasks
         /\ ListsTyped' /\ ListsPartition'
         /\ Listed' = Listed \ {t}
<1>1. t \in Tasks /\ t \notin Freed
  BY InRange DEF ListsTyped, ListsPartition, Listed, Freed
<1>2. /\ taskList' \in Seq(Tasks)
      /\ Listed' = Listed \ {t}
      /\ IsInjective(taskList')
  BY UnlinkProperties DEF FreeTaskStruct, ListsTyped, ListsPartition, Listed
<1>3. /\ freeList' \in Seq(Tasks)
      /\ Freed' = Freed \cup {t}
      /\ IsInjective(freeList')
  BY <1>1, AppendToList DEF FreeTaskStruct, AddToFreeTaskList, ListsTyped, ListsPartition, Freed
<1>4. \A u \in Tasks : pid'[u] # 0 <=> u \in Listed' \cup Freed'
  BY <1>2, <1>3 DEF FreeTaskStruct, ListsPartition
<1> QED BY <1>1, <1>2, <1>3, <1>4 DEF ListsTyped, ListsPartition

-----------------------------------------------------------------------------
(* The inductive invariant. *)

\* The task whose page table is loaded is on the task list: only then may it
\* call exit, which takes it off.
CurrentListed == current # NULL /\ cr3 = current => current \in Listed

\* The pid a fork is about to give out is new.
PidsGivenOut == nextPid # 0 /\ \A t \in Listed : pid[t] < nextPid

IInv ==
  /\ TypeOK
  /\ ListsPartition
  /\ OnlyCurrentRuns
  /\ OwnAddressSpace
  /\ CurrentListed
  /\ PidsGivenOut
  /\ OneImageReports
  /\ ChildHasParent

\* The inductive invariant holds when the kernel starts hello.
THEOREM InitIInv == Init => IInv
<1> SUFFICES ASSUME Init PROVE IInv
  OBVIOUS
<1> USE ProcessAssumption
<1>1. /\ taskList \in Seq(Tasks) /\ freeList \in Seq(Tasks)
      /\ Listed = Boot /\ Freed = {}
      /\ IsInjective(taskList) /\ IsInjective(freeList)
  <2>1. /\ taskList \in Seq(Tasks) /\ Len(taskList) = 2
        /\ taskList[1] = Hello /\ taskList[2] = Sbush
    BY DEF Init
  <2>2. DOMAIN taskList = 1 .. 2
    BY <2>1, LenProperties
  <2>3. Listed = Boot /\ IsInjective(taskList)
    BY <2>1, <2>2 DEF Listed, Range, Boot, IsInjective
  <2>4. freeList \in Seq(Tasks) /\ DOMAIN freeList = 1 .. 0
    BY EmptySeq, LenProperties DEF Init
  <2> QED BY <2>1, <2>3, <2>4 DEF Freed, Range, IsInjective
<1>2. TypeOK
  <2>1. 0 \in Counter /\ 0 \in 0 .. TicksPerSecond - 1
    BY DEF Counter
  <2>2. /\ state \in [Tasks -> States]
        /\ parent \in [Tasks -> Tasks \cup {NULL}]
    BY DEF Init, States
  <2>3. /\ pid \in [Tasks -> Nat] /\ ppid \in [Tasks -> Nat]
        /\ waitFor \in [Tasks -> Nat] /\ nextPid \in Nat
    BY DEF Init, HelloPid
  <2>4. /\ childCount \in [Tasks -> Counter]
        /\ sleepTime \in [Tasks -> Counter]
    BY <2>1 DEF Init
  <2>5. current \in Tasks \cup {NULL} /\ cr3 \in Tasks \cup {NULL}
    BY DEF Init
  <2> QED BY <1>1, <2>1, <2>2, <2>3, <2>4, <2>5 DEF TypeOK, Init
<1>3. ListsPartition
  BY <1>1 DEF ListsPartition, Init, HelloPid, Boot
<1>4. /\ OnlyCurrentRuns /\ OwnAddressSpace /\ CurrentListed /\ PidsGivenOut
      /\ OneImageReports /\ ChildHasParent
  BY <1>1 DEF OnlyCurrentRuns, OwnAddressSpace, CurrentListed, PidsGivenOut,
              OneImageReports, ChildHasParent, Init, HelloPid, Boot
<1> QED BY <1>2, <1>3, <1>4 DEF IInv

\* A timer interrupt taken in user code.
LEMMA TimerIRQIInv == IInv /\ TimerIRQ => IInv'
<1> SUFFICES ASSUME IInv, TimerIRQ PROVE IInv'
  OBVIOUS
<1> USE DEF IInv
<1>1. /\ UNCHANGED <<family, lists, crashed>>
      /\ Listed' = Listed /\ Freed' = Freed
  BY DEF TimerIRQ, lists, Listed, Freed
<1>2. /\ ticks' \in 0 .. TicksPerSecond - 1
      /\ sleepTime' \in [Tasks -> Counter]
      /\ state' \in [Tasks -> States]
      /\ \/ current' = current /\ cr3' = cr3
         \/ current' \in Listed /\ cr3' = current'
      /\ \A t \in Tasks : state'[t] = "RUNNING" => t = current'
  BY TimerEffect DEF TimerIRQ, TypeOK, OnlyCurrentRuns, Listed
<1>3. Listed \subseteq Tasks
  BY InRange DEF TypeOK, Listed
<1>4. TypeOK'
  BY <1>1, <1>2, <1>3 DEF TypeOK, family, lists
<1>5. OnlyCurrentRuns' /\ OwnAddressSpace' /\ CurrentListed'
  BY <1>1, <1>2 DEF OnlyCurrentRuns, OwnAddressSpace, CurrentListed
<1>6. ListsPartition' /\ PidsGivenOut' /\ OneImageReports' /\ ChildHasParent'
  BY <1>1, <1>2 DEF ListsPartition, PidsGivenOut, OneImageReports,
                   ChildHasParent, family, lists
<1> QED BY <1>4, <1>5, <1>6

\* A caller runs under its own page table, so it is on the list.
LEMMA CallerListed ==
  ASSUME IInv, NEW t \in Tasks, NEW call, Calling(t, call)
  PROVE  t \in Listed /\ current = t /\ t # NULL
BY ProcessAssumption DEF Calling, IInv, CurrentListed

LEMMA ForkIInv ==
  ASSUME IInv, NEW t \in Tasks, Fork(t)
  PROVE  IInv'
<1> USE DEF IInv
<1>1. t \in Listed /\ current = t
  BY CallerListed DEF Fork
<1>2. PICK child \in FreeTask :
        /\ CreateTask(child, nextPid, [ppid EXCEPT ![child] = pid[t]], t)
        /\ childCount' = [[childCount EXCEPT ![child] = 0]
                            EXCEPT ![t] = (@ + 1) % Word]
        /\ TimerInterrupt(taskList',
                          [state EXCEPT ![child] = "RUNNABLE", ![t] = "RUNNABLE"],
                          [sleepTime EXCEPT ![child] = 0], NULL, t)
  BY DEF Fork
<1>3. /\ child \in Tasks /\ child \notin Listed
      /\ taskList' \in Seq(Tasks) /\ freeList' \in Seq(Tasks)
      /\ ListsPartition'
      /\ Listed' = Listed \cup {child}
  BY <1>2, CreateTaskEffect DEF TypeOK, ListsTyped, PidsGivenOut
<1> DEFINE st == [state EXCEPT ![child] = "RUNNABLE", ![t] = "RUNNABLE"]
           slp == [sleepTime EXCEPT ![child] = 0]
<1>4. 0 \in Counter /\ NULL \notin Tasks
  BY ProcessAssumption DEF Counter
<1>5. /\ st \in [Tasks -> States] /\ slp \in [Tasks -> Counter]
      /\ \A u \in Tasks : st[u] # "RUNNING"
  BY <1>1, <1>3, <1>4 DEF TypeOK, States, OnlyCurrentRuns
<1> HIDE DEF st, slp
<1>6. TimerInterrupt(taskList', st, slp, NULL, t)
  BY <1>2 DEF st, slp
<1>7. /\ ticks' \in 0 .. TicksPerSecond - 1
      /\ sleepTime' \in [Tasks -> Counter]
      /\ state' \in [Tasks -> States]
      /\ \/ current' = NULL /\ cr3' = t
         \/ current' \in Listed' /\ cr3' = current'
      /\ \A u \in Tasks : state'[u] = "RUNNING" => u = current'
  BY <1>3, <1>5, <1>6, TimerEffect DEF TypeOK, Listed
<1>8. /\ pid' = [pid EXCEPT ![child] = nextPid]
      /\ ppid' = [ppid EXCEPT ![child] = pid[t]]
      /\ parent' = [parent EXCEPT ![child] = t]
      /\ waitFor' = [waitFor EXCEPT ![child] = 0]
      /\ nextPid' = nextPid + 1
      /\ crashed' = crashed
  BY <1>2 DEF CreateTask, Fork
<1>9. childCount' \in [Tasks -> Counter]
  BY <1>2, <1>3, <1>4, WrapInCounter DEF TypeOK
<1>10. TypeOK'
  <2>1. Listed' \subseteq Tasks
    BY <1>3, InRange DEF TypeOK, Listed
  <2>2. pid' \in [Tasks -> Nat] /\ ppid' \in [Tasks -> Nat]
        /\ waitFor' \in [Tasks -> Nat] /\ nextPid' \in Nat
    BY <1>3, <1>8, SMTT(30) DEF TypeOK
  <2>3. parent' \in [Tasks -> Tasks \cup {NULL}]
    BY <1>3, <1>8 DEF TypeOK
  <2>4. current' \in Tasks \cup {NULL} /\ cr3' \in Tasks \cup {NULL}
    BY <1>7, <2>1
  <2>5. crashed' \in BOOLEAN
    BY <1>8 DEF TypeOK
  <2> QED BY <1>3, <1>7, <1>9, <2>2, <2>3, <2>4, <2>5 DEF TypeOK
<1>11. OnlyCurrentRuns' /\ OwnAddressSpace' /\ CurrentListed'
  BY <1>7 DEF OnlyCurrentRuns, OwnAddressSpace, CurrentListed
<1>12. PidsGivenOut' /\ OneImageReports' /\ ChildHasParent'
  <2>0. Listed \subseteq Tasks
    BY InRange DEF TypeOK, Listed
  <2>1. /\ pid'[child] = nextPid /\ parent'[child] = t
        /\ \A u \in Listed : /\ pid'[u] = pid[u] /\ pid'[u] < nextPid
                             /\ ppid'[u] = ppid[u] /\ parent'[u] = parent[u]
    BY <1>3, <1>8, <2>0 DEF TypeOK, PidsGivenOut
  <2>2. PidsGivenOut'
    <3>1. nextPid \in Nat /\ \A u \in Listed : pid[u] \in Nat
      BY <2>0 DEF TypeOK
    <3> QED BY <1>3, <1>8, <2>1, <3>1 DEF PidsGivenOut
  <2>3. \A u \in Listed : pid'[u] # pid'[child]
    BY <2>0, <2>1 DEF TypeOK
  <2>4. OneImageReports' /\ ChildHasParent'
    BY <1>3, <1>4, <2>1, <2>3 DEF OneImageReports, ChildHasParent
  <2> QED BY <2>2, <2>4
<1> QED BY <1>3, <1>10, <1>11, <1>12

LEMMA ExecveIInv ==
  ASSUME IInv, NEW t \in Tasks, Execve(t)
  PROVE  IInv'
<1> USE DEF IInv
<1>1. t \in Listed /\ current = t
  BY CallerListed DEF Execve
<1>2. PICK image \in FreeTask :
        /\ CreateTask(image, pid[t],
                      [ppid EXCEPT ![image] = ppid[t], ![t] = 0], parent[t])
        /\ childCount' = [childCount EXCEPT ![image] = 0]
        /\ state' = [state EXCEPT ![image] = "RUNNABLE"]
        /\ sleepTime' = [sleepTime EXCEPT ![image] = 0]
  BY DEF Execve
<1>own. Listed \subseteq Tasks /\ pid[t] \in Nat \ {0} /\ 0 \in Counter
  BY <1>1, InRange, ProcessAssumption DEF TypeOK, Listed, ListsPartition, Counter
<1>3. /\ image \in Tasks /\ image \notin Listed
      /\ taskList' \in Seq(Tasks) /\ freeList' \in Seq(Tasks)
      /\ ListsPartition'
      /\ Listed' = Listed \cup {image}
  BY <1>own, <1>2, CreateTaskEffect DEF TypeOK, ListsTyped
<1>4. /\ pid' = [pid EXCEPT ![image] = pid[t]]
      /\ ppid' = [ppid EXCEPT ![image] = ppid[t], ![t] = 0]
      /\ parent' = [parent EXCEPT ![image] = parent[t]]
      /\ waitFor' = [waitFor EXCEPT ![image] = 0]
      /\ nextPid' = nextPid + 1
      /\ UNCHANGED <<current, cr3, ticks, crashed>>
  BY <1>2 DEF CreateTask, Execve
<1>5. TypeOK'
  <2>1. pid' \in [Tasks -> Nat] /\ ppid' \in [Tasks -> Nat]
    BY <1>3, <1>4 DEF TypeOK
  <2>5. waitFor' \in [Tasks -> Nat] /\ nextPid' \in Nat
    BY <1>3, <1>4 DEF TypeOK
  <2>2. parent' \in [Tasks -> Tasks \cup {NULL}]
    BY <1>3, <1>4 DEF TypeOK
  <2>3. state' \in [Tasks -> States]
    BY <1>2, <1>3 DEF TypeOK, States
  <2>4. childCount' \in [Tasks -> Counter] /\ sleepTime' \in [Tasks -> Counter]
    BY <1>own, <1>2, <1>3 DEF TypeOK
  <2> QED BY <1>3, <1>4, <2>1, <2>2, <2>3, <2>4, <2>5 DEF TypeOK
<1>6. OnlyCurrentRuns' /\ OwnAddressSpace' /\ CurrentListed'
  BY <1>2, <1>3, <1>4
     DEF TypeOK, OnlyCurrentRuns, OwnAddressSpace, CurrentListed
<1>7. PidsGivenOut' /\ OneImageReports' /\ ChildHasParent'
  <2>1. /\ pid'[image] = pid[t] /\ ppid'[image] = ppid[t]
        /\ parent'[image] = parent[t] /\ ppid'[t] = 0
        /\ \A u \in Listed : pid'[u] = pid[u] /\ parent'[u] = parent[u]
        /\ \A u \in Listed \ {t} : ppid'[u] = ppid[u]
    BY <1>own, <1>1, <1>3, <1>4 DEF TypeOK
  <2>2. PidsGivenOut'
    <3>1. /\ nextPid \in Nat /\ nextPid # 0
          /\ \A u \in Listed : pid[u] \in Nat /\ pid[u] < nextPid
      BY <1>own DEF TypeOK, PidsGivenOut
    <3>2. \A u \in Listed' : pid'[u] \in Nat /\ pid'[u] < nextPid
      BY <1>1, <1>3, <2>1, <3>1
    <3> QED BY <1>4, <3>1, <3>2 DEF PidsGivenOut
  <2>3. OneImageReports'
    BY <1>1, <1>3, <2>1 DEF OneImageReports
  <2>4. ChildHasParent'
    BY <1>1, <1>3, <2>1 DEF ChildHasParent
  <2> QED BY <2>2, <2>3, <2>4
<1> QED BY <1>3, <1>5, <1>6, <1>7

\* A task that blocks gives the CPU to the head of the list.
LEMMA BlockIInv ==
  ASSUME IInv, NEW t \in Tasks, current = t,
         NEW st \in [Tasks -> States], st[t] # "RUNNING",
         \A u \in Tasks \ {t} : st[u] = state[u],
         NEW slp \in [Tasks -> Counter],
         TimerInterrupt(taskList, st, slp, NULL, t),
         waitFor' \in [Tasks -> Nat],
         UNCHANGED <<pid, ppid, parent, childCount, lists, crashed>>
  PROVE  IInv'
<1> USE DEF IInv
<1>1. Listed' = Listed /\ Freed' = Freed /\ Listed \subseteq Tasks
  BY InRange DEF lists, Listed, Freed, TypeOK
<1>2. \A u \in Tasks : st[u] # "RUNNING"
  BY DEF OnlyCurrentRuns
<1>3. /\ ticks' \in 0 .. TicksPerSecond - 1
      /\ sleepTime' \in [Tasks -> Counter]
      /\ state' \in [Tasks -> States]
      /\ \/ current' = NULL /\ cr3' = t
         \/ current' \in Listed /\ cr3' = current'
      /\ \A u \in Tasks : state'[u] = "RUNNING" => u = current'
  <2>1. ticks \in 0 .. TicksPerSecond - 1 /\ taskList \in Seq(Tasks)
    BY DEF TypeOK
  <2>2. NULL \in Tasks \cup {NULL}
    OBVIOUS
  <2> HIDE DEF IInv
  <2>3. /\ ticks' \in 0 .. TicksPerSecond - 1
        /\ sleepTime' \in [Tasks -> Counter]
        /\ state' \in [Tasks -> States]
        /\ \/ current' = NULL /\ cr3' = t
           \/ current' \in Range(taskList) /\ cr3' = current'
        /\ (\A u \in Tasks : st[u] = "RUNNING" => u = NULL)
             => \A u \in Tasks : state'[u] = "RUNNING" => u = current'
    BY <2>1, <2>2, TimerEffect
  <2> QED BY <1>2, <2>3 DEF Listed
<1>4. TypeOK'
  <2>1. current' \in Tasks \cup {NULL} /\ cr3' \in Tasks \cup {NULL}
    BY <1>1, <1>3
  <2> QED BY <1>3, <2>1 DEF TypeOK, lists
<1>5. OnlyCurrentRuns' /\ OwnAddressSpace' /\ CurrentListed'
  BY <1>1, <1>3 DEF OnlyCurrentRuns, OwnAddressSpace, CurrentListed
<1>6. ListsPartition' /\ PidsGivenOut' /\ OneImageReports' /\ ChildHasParent'
  BY <1>1 DEF ListsPartition, PidsGivenOut, OneImageReports, ChildHasParent,
              lists
<1> QED BY <1>4, <1>5, <1>6

LEMMA WaitpidIInv ==
  ASSUME IInv, NEW t \in Tasks, NEW p \in Nat, Waitpid(t, p)
  PROVE  IInv'
<1> DEFINE st == [state EXCEPT ![t] = "WAITING"]
<1>1. current = t
  BY CallerListed DEF Waitpid
<1>2. /\ st \in [Tasks -> States] /\ st[t] # "RUNNING"
      /\ \A u \in Tasks \ {t} : st[u] = state[u]
      /\ sleepTime \in [Tasks -> Counter]
      /\ waitFor' \in [Tasks -> Nat]
  BY DEF IInv, TypeOK, States, Waitpid
<1>3. /\ TimerInterrupt(taskList, st, sleepTime, NULL, t)
      /\ UNCHANGED <<pid, ppid, parent, childCount, lists, crashed>>
  BY DEF Waitpid
<1> HIDE DEF st
<1> QED BY <1>1, <1>2, <1>3, BlockIInv

LEMMA SleepIInv ==
  ASSUME IInv, NEW t \in Tasks, NEW sec \in SleepArgs, Sleep(t, sec)
  PROVE  IInv'
<1> DEFINE st == [state EXCEPT ![t] = "SLEEP"]
           slp == [sleepTime EXCEPT ![t] = (sec - 1) % Word]
<1>1. current = t
  BY CallerListed DEF Sleep
<1>2. (sec - 1) % Word \in Counter
  BY ProcessAssumption, WrapInCounter DEF Counter
<1>3. /\ st \in [Tasks -> States] /\ st[t] # "RUNNING"
      /\ \A u \in Tasks \ {t} : st[u] = state[u]
      /\ slp \in [Tasks -> Counter]
      /\ waitFor' \in [Tasks -> Nat]
  BY <1>2 DEF IInv, TypeOK, States, Sleep, family
<1>4. /\ TimerInterrupt(taskList, st, slp, NULL, t)
      /\ UNCHANGED <<pid, ppid, parent, childCount, lists, crashed>>
  BY DEF Sleep, family
<1> HIDE DEF st, slp
<1> QED BY <1>1, <1>3, <1>4, BlockIInv

\* What any free_task_struct does to the tasks that stay: nothing but to drop
\* one of them.
LEMMA FreeTaskFamily ==
  ASSUME IInv, NEW t \in Listed, NEW cc \in [Tasks -> Counter],
         FreeTaskStruct(t, cc)
  PROVE  /\ ListsPartition' /\ PidsGivenOut' /\ OneImageReports'
         /\ ChildHasParent'
         /\ t \in Tasks
         /\ Listed' = Listed \ {t}
         /\ taskList' \in Seq(Tasks) /\ freeList' \in Seq(Tasks)
         /\ pid' \in [Tasks -> Nat] /\ ppid' \in [Tasks -> Nat]
         /\ parent' \in [Tasks -> Tasks \cup {NULL}]
         /\ childCount' \in [Tasks -> Counter]
         /\ waitFor' \in [Tasks -> Nat]
         /\ nextPid' \in Nat
<1> USE DEF IInv
<1>1. /\ t \in Tasks
      /\ taskList' \in Seq(Tasks) /\ freeList' \in Seq(Tasks)
      /\ ListsPartition'
      /\ Listed' = Listed \ {t}
  BY FreeTaskEffect DEF TypeOK, ListsTyped
<1>2. /\ pid' = pid /\ nextPid' = nextPid
      /\ ppid' = [ppid EXCEPT ![t] = 0]
      /\ parent' = [parent EXCEPT ![t] = NULL]
      /\ childCount' = [cc EXCEPT ![t] = 0]
      /\ waitFor' = [waitFor EXCEPT ![t] = 0]
  BY DEF FreeTaskStruct
<1>3. 0 \in Counter
  BY ProcessAssumption DEF Counter
<1>4. pid' \in [Tasks -> Nat] /\ nextPid' \in Nat
  BY <1>2 DEF TypeOK
<1>5. /\ ppid' \in [Tasks -> Nat]
      /\ parent' \in [Tasks -> Tasks \cup {NULL}]
      /\ childCount' \in [Tasks -> Counter]
      /\ waitFor' \in [Tasks -> Nat]
  BY <1>2, <1>3 DEF TypeOK
<1>6. \A u \in Listed \ {t} : ppid'[u] = ppid[u] /\ parent'[u] = parent[u]
  <2>1. Listed \subseteq Tasks
    BY InRange DEF TypeOK, Listed
  <2> QED BY <1>2, <2>1 DEF TypeOK
<1>7. PidsGivenOut' /\ OneImageReports' /\ ChildHasParent'
  BY <1>1, <1>2, <1>6 DEF PidsGivenOut, OneImageReports, ChildHasParent
<1> QED BY <1>1, <1>4, <1>5, <1>7

LEMMA ExitTaskIInv ==
  ASSUME IInv, NEW t \in Listed, current = t, ExitTask(t)
  PROVE  IInv'
<1> USE DEF IInv
<1> DEFINE st == [ParentState(t) EXCEPT ![t] = "STOPPED"]
           slp == [sleepTime EXCEPT ![t] = 0]
<1>1. t \in Tasks
  BY InRange DEF TypeOK, Listed
<1>2. 0 \in Counter /\ NULL \notin Tasks
  BY ProcessAssumption DEF Counter
<1>3. ParentCount(t) \in [Tasks -> Counter]
  <2>1. CASE ppid[t] > 0
    <3>1. parent[t] \in Tasks
      BY <2>1, <1>1 DEF TypeOK, ChildHasParent
    <3>2. (childCount[parent[t]] - 1) % Word \in Counter
      BY <3>1, WrapInCounter DEF TypeOK
    <3> QED BY <2>1, <3>1, <3>2 DEF ParentCount, TypeOK
  <2>2. CASE ~(ppid[t] > 0)
    BY <2>2 DEF ParentCount, TypeOK
  <2> QED BY <2>1, <2>2
<1>4. FreeTaskStruct(t, ParentCount(t))
  BY DEF ExitTask
<1>5. /\ ListsPartition' /\ PidsGivenOut' /\ OneImageReports'
      /\ ChildHasParent'
      /\ taskList' \in Seq(Tasks) /\ freeList' \in Seq(Tasks)
      /\ pid' \in [Tasks -> Nat] /\ ppid' \in [Tasks -> Nat]
      /\ parent' \in [Tasks -> Tasks \cup {NULL}]
      /\ childCount' \in [Tasks -> Counter]
      /\ waitFor' \in [Tasks -> Nat]
      /\ nextPid' \in Nat
  BY <1>3, <1>4, FreeTaskFamily
<1>6. /\ ParentState(t) \in [Tasks -> States]
      /\ \A u \in Tasks : ParentState(t)[u] = "RUNNING" => state[u] = "RUNNING"
  BY DEF ParentState, WakeWaiter, TypeOK, States
<1>7. /\ st \in [Tasks -> States] /\ slp \in [Tasks -> Counter]
      /\ \A u \in Tasks : st[u] # "RUNNING"
  BY <1>1, <1>2, <1>6 DEF TypeOK, States, OnlyCurrentRuns
<1>8. TimerInterrupt(taskList', st, slp, NULL, NULL) /\ crashed' = crashed
  BY DEF ExitTask
<1> HIDE DEF st, slp
<1>9. /\ ticks' \in 0 .. TicksPerSecond - 1
      /\ sleepTime' \in [Tasks -> Counter]
      /\ state' \in [Tasks -> States]
      /\ \/ current' = NULL /\ cr3' = NULL
         \/ current' \in Listed' /\ cr3' = current'
      /\ \A u \in Tasks : state'[u] = "RUNNING" => u = current'
  BY <1>5, <1>7, <1>8, TimerEffect DEF TypeOK, Listed
<1>10. TypeOK'
  <2>1. Listed' \subseteq Tasks
    BY <1>5, InRange DEF Listed
  <2>2. current' \in Tasks \cup {NULL} /\ cr3' \in Tasks \cup {NULL}
    BY <1>9, <2>1
  <2> QED BY <1>5, <1>8, <1>9, <2>2 DEF TypeOK
<1>11. OnlyCurrentRuns' /\ OwnAddressSpace' /\ CurrentListed'
  BY <1>9 DEF OnlyCurrentRuns, OwnAddressSpace, CurrentListed
<1> QED BY <1>5, <1>10, <1>11

LEMMA KillIInv ==
  ASSUME IInv, NEW t \in Tasks, NEW p, Kill(t, p)
  PROVE  IInv'
<1> USE DEF IInv
<1> DEFINE target == GetTask(p)
<1>1. /\ target # NULL
      /\ FreeTaskStruct(target, childCount)
      /\ state' = [state EXCEPT ![target] = "STOPPED"]
      /\ sleepTime' = [sleepTime EXCEPT ![target] = 0]
      /\ cr3' = NULL /\ UNCHANGED <<current, ticks, crashed>>
  BY DEF Kill
<1>2. target \in Listed
  BY <1>1, FirstFound DEF GetTask, TypeOK, Listed
<1> HIDE DEF target
<1>3. /\ ListsPartition' /\ PidsGivenOut' /\ OneImageReports'
      /\ ChildHasParent'
      /\ target \in Tasks
      /\ taskList' \in Seq(Tasks) /\ freeList' \in Seq(Tasks)
      /\ pid' \in [Tasks -> Nat] /\ ppid' \in [Tasks -> Nat]
      /\ parent' \in [Tasks -> Tasks \cup {NULL}]
      /\ childCount' \in [Tasks -> Counter]
      /\ waitFor' \in [Tasks -> Nat]
      /\ nextPid' \in Nat
  BY <1>1, <1>2, FreeTaskFamily DEF TypeOK
<1>4. 0 \in Counter /\ NULL \notin Tasks
  BY ProcessAssumption DEF Counter
<1>5. TypeOK'
  <2>1. state' \in [Tasks -> States]
    BY <1>1, <1>3 DEF TypeOK, States
  <2>2. sleepTime' \in [Tasks -> Counter]
    BY <1>1, <1>3, <1>4 DEF TypeOK
  <2> QED BY <1>1, <1>3, <2>1, <2>2 DEF TypeOK
<1>6. OnlyCurrentRuns' /\ OwnAddressSpace' /\ CurrentListed'
  BY <1>1, <1>3, <1>4
     DEF TypeOK, OnlyCurrentRuns, OwnAddressSpace, CurrentListed
<1> QED BY <1>3, <1>5, <1>6

LEMMA PageFaultIInv ==
  ASSUME IInv, NEW t \in Tasks, PageFault(t)
  PROVE  IInv'
<1>1. CASE t \in Listed
  BY <1>1, ExitTaskIInv DEF PageFault
<1>2. CASE t \notin Listed
  BY <1>2
     DEF PageFault, IInv, TypeOK, ListsPartition, OnlyCurrentRuns,
         OwnAddressSpace, CurrentListed, PidsGivenOut, OneImageReports,
         ChildHasParent, family, lists, clock, Listed, Freed
<1> QED BY <1>1, <1>2

LEMMA StutterIInv == IInv /\ UNCHANGED vars => IInv'
BY DEF IInv, TypeOK, ListsPartition, OnlyCurrentRuns, OwnAddressSpace,
       CurrentListed, PidsGivenOut, OneImageReports, ChildHasParent,
       vars, family, lists, clock, Listed, Freed

\* Every system call and every timer interrupt preserves it.
THEOREM NextIInv == IInv /\ [Next]_vars => IInv'
<1> SUFFICES ASSUME IInv, [Next]_vars PROVE IInv'
  OBVIOUS
<1>1. CASE TimerIRQ
  BY <1>1, TimerIRQIInv
<1>2. ASSUME NEW t \in Tasks, Fork(t) PROVE IInv'
  BY <1>2, ForkIInv
<1>3. ASSUME NEW t \in Tasks, Execve(t) PROVE IInv'
  BY <1>3, ExecveIInv
<1>4. ASSUME NEW t \in Tasks, Exit(t) PROVE IInv'
  BY <1>4, CallerListed, ExitTaskIInv DEF Exit
<1>5. ASSUME NEW t \in Tasks, NEW p \in 1 .. nextPid - 1, Waitpid(t, p)
      PROVE  IInv'
  <2>1. p \in Nat
    BY DEF IInv, TypeOK
  <2> QED BY <1>5, <2>1, WaitpidIInv
<1>6. ASSUME NEW t \in Tasks, NEW p \in 1 .. nextPid - 1, Kill(t, p)
      PROVE  IInv'
  BY <1>6, KillIInv
<1>7. ASSUME NEW t \in Tasks, NEW sec \in SleepArgs, Sleep(t, sec) PROVE IInv'
  BY <1>7, SleepIInv
<1>8. ASSUME NEW t \in Tasks, PageFault(t) PROVE IInv'
  BY <1>8, PageFaultIInv
<1>9. CASE UNCHANGED vars
  BY <1>9, StutterIInv
<1> QED BY <1>1, <1>2, <1>3, <1>4, <1>5, <1>6, <1>7, <1>8, <1>9
        DEF Next, Syscall

-----------------------------------------------------------------------------
(* The theorems. *)

\* So it holds in every reachable state.
THEOREM IInvHolds == Spec => []IInv
BY InitIInv, NextIInv, PTL DEF Spec

\* Type correctness: the counters never leave 64 bits, the pointers are NULL or
\* lead to task_struct's.
THEOREM TypeCorrect == Spec => []TypeOK
BY IInvHolds, PTL DEF IInv

\* However tasks come and go, the task list and the free list share no node,
\* have no cycle and lose no task_struct.
THEOREM ListsStayDisjoint == Spec => []ListsPartition
BY IInvHolds, PTL DEF IInv

\* No call gives the CPU away and leaves its caller RUNNING.
THEOREM AtMostOneRuns == Spec => []OnlyCurrentRuns
BY IInvHolds, PTL DEF IInv

\* Of the images execve leaves under one pid, one reports its exit.
THEOREM OneExitPerFork == Spec => []OneImageReports
BY IInvHolds, PTL DEF IInv

\* remove_from_parent never follows a NULL pointer.
THEOREM ParentNeverNull == Spec => []ChildHasParent
BY IInvHolds, PTL DEF IInv

\* User code never runs in the address space of another task.
THEOREM AddressSpaceIsOwn == Spec => []OwnAddressSpace
BY IInvHolds, PTL DEF IInv

\* A task leaves the list by its own exit or fault, or by a kill that leaves
\* the CPU to the killer.
LEMMA StepLeaves ==
  ASSUME IInv, [Next]_vars
  PROVE  \A t \in Listed :
           t \notin Listed' =>
             /\ Listed' = Listed \ {t}
             /\ t = current \/ current' = current
<1> DEFINE Leaves == \A t \in Listed :
                       t \notin Listed' =>
                         /\ Listed' = Listed \ {t}
                         /\ t = current \/ current' = current
<1> USE DEF IInv
<1>1. ASSUME UNCHANGED taskList PROVE Leaves
  BY <1>1 DEF Listed
<1>2. ASSUME NEW t \in FreeTask, NEW p, NEW q, NEW r, CreateTask(t, p, q, r)
      PROVE  Leaves
  <2>1. t \in Tasks
    BY PopHead, InRange DEF FreeTask, TypeOK
  <2>2. Listed' = Listed \cup {t}
    BY <1>2, <2>1, AppendToList DEF CreateTask, TypeOK, Listed
  <2> QED BY <2>2
<1>3. ASSUME NEW t \in Listed, NEW cc, FreeTaskStruct(t, cc)
      PROVE  Listed' = Listed \ {t}
  BY <1>3, FreeTaskEffect DEF TypeOK, ListsTyped
<1>4. CASE TimerIRQ
  BY <1>1, <1>4 DEF TimerIRQ, lists
<1>5. ASSUME NEW t \in Tasks, Fork(t) PROVE Leaves
  BY <1>2, <1>5 DEF Fork
<1>6. ASSUME NEW t \in Tasks, Execve(t) PROVE Leaves
  BY <1>2, <1>6 DEF Execve
<1>7. ASSUME NEW t \in Tasks, Exit(t) PROVE Leaves
  BY <1>3, <1>7, CallerListed DEF Exit, ExitTask
<1>8. ASSUME NEW t \in Tasks, NEW p, Waitpid(t, p) PROVE Leaves
  BY <1>1, <1>8 DEF Waitpid, lists
<1>9. ASSUME NEW t \in Tasks, NEW p, Kill(t, p) PROVE Leaves
  <2>1. GetTask(p) \in Listed
    BY <1>9, FirstFound DEF Kill, GetTask, TypeOK, Listed
  <2>2. Listed' = Listed \ {GetTask(p)}
    BY <1>3, <1>9, <2>1 DEF Kill
  <2> QED BY <1>9, <2>2 DEF Kill
<1>10. ASSUME NEW t \in Tasks, NEW sec, Sleep(t, sec) PROVE Leaves
  BY <1>1, <1>10 DEF Sleep, lists
<1>11. ASSUME NEW t \in Tasks, PageFault(t) PROVE Leaves
  BY <1>1, <1>3, <1>11 DEF PageFault, ExitTask, lists
<1>12. CASE UNCHANGED vars
  BY <1>1, <1>12 DEF vars, lists
<1> QED BY <1>4, <1>5, <1>6, <1>7, <1>8, <1>9, <1>10, <1>11, <1>12
        DEF Next, Syscall

\* A task leaves the list by its own exit, or by a kill, and never two in a step.
THEOREM TasksLeaveAlone == Spec => LeavesByExitOrKill
BY IInvHolds, StepLeaves, PTL DEF Spec, LeavesByExitOrKill

=============================================================================
