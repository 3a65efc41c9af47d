---------------------------- MODULE SchedProofs ----------------------------
(***************************************************************************)
(* The scheduler's invariants, for every table of tasks, every set of      *)
(* sleep times, every word size and every bound on the clock.              *)
(***************************************************************************)
EXTENDS SchedRefinement, Lemmas

Word == -Half .. Half - 1

(***************************************************************************)
(* Constants and machine arithmetic.                                       *)
(***************************************************************************)

\* The idle task is in the table, so that schedule may fall back on it.
LEMMA IdleIsTask == Idle \in Tasks
BY TableAssumption DEF Idle, Tasks, ToSet

\* Conversions yield machine words.
LEMMA WordTypes ==
    ASSUME NEW n \in Int
    PROVE  U32(n) \in 0 .. Wrap - 1 /\ S32(U32(n)) \in Word
<1>1. Wrap \in Nat \ {0} /\ Wrap = Half + Half
    BY TimeAssumption DEF Wrap
<1>2. U32(n) \in 0 .. Wrap - 1
    BY <1>1 DEF U32
<1>3. QED
    BY <1>1, <1>2, TimeAssumption DEF S32, Word

\* task->ticks-- in clock_handler stays an int.
LEMMA DecrementType == ASSUME NEW n \in Word PROVE Decrement(n) \in Word
BY TimeAssumption DEF Decrement, Word

\* A new slice is an int.
LEMMA PriorityType == ASSUME NEW u \in Tasks PROVE Priority[u] \in Word
BY TimeAssumption DEF Word

\* task_sleep sleeps for one tick at least.
LEMMA TicksOfType == ASSUME NEW ms \in SleepMs PROVE TicksOf(ms) \in Nat \ {0}
BY TimeAssumption DEF TicksOf

(***************************************************************************)
(* task_search and schedule.                                               *)
(***************************************************************************)

\* task_search returns a ready task other than the current one, or the idle
\* task.
LEMMA SearchResult ==
    ASSUME NEW st, NEW tk
    PROVE  LET next == TaskSearch(st, tk)
           IN  /\ next \in Tasks
               /\ next = Idle \/ Candidate(st, next)
BY IdleIsTask DEF TaskSearch

\* What a slot of task_table makes of the choice so far.
Turn(st, tk, choice, i) ==
    IF i = 0 THEN None ELSE Better(st, tk, choice[i - 1], Table[i])

\* The loop of task_search is well defined: for any number of slots there is
\* the sequence of its choices.
LEMMA LoopDefined ==
    ASSUME NEW st, NEW tk, NEW n \in Nat
    PROVE  \E choice : choice = [i \in 0 .. n |-> Turn(st, tk, choice, i)]
<1> DEFINE Loop(m) ==
               \E choice : choice = [i \in 0 .. m |-> Turn(st, tk, choice, i)]
<1>1. Loop(0)
    <2> DEFINE f == [i \in 0 .. 0 |-> None]
    <2>1. f = [i \in 0 .. 0 |-> Turn(st, tk, f, i)]
        BY DEF Turn
    <2>2. QED
        BY <2>1
<1>2. ASSUME NEW m \in Nat, Loop(m) PROVE Loop(m + 1)
    <2>1. PICK f : f = [i \in 0 .. m |-> Turn(st, tk, f, i)]
        BY <1>2
    <2> DEFINE last == Better(st, tk, f[m], Table[m + 1])
               g == [i \in 0 .. m + 1 |-> IF i = m + 1 THEN last ELSE f[i]]
    <2>2. ASSUME NEW i \in 0 .. m + 1 PROVE g[i] = Turn(st, tk, g, i)
        <3>1. CASE i = m + 1
            <4>1. i # 0 /\ i - 1 = m /\ m \in 0 .. m + 1 /\ m # m + 1
                BY <3>1
            <4>2. g[i] = last /\ g[i - 1] = f[m]
                BY <3>1, <4>1
            <4>3. QED
                BY <3>1, <4>1, <4>2 DEF Turn
        <3>2. CASE i # m + 1
            <4>1. i \in 0 .. m
                BY <3>2
            <4>2. g[i] = f[i] /\ f[i] = Turn(st, tk, f, i)
                BY <2>1, <3>2, <4>1
            <4>3. i # 0 => g[i - 1] = f[i - 1]
                BY <4>1
            <4>4. QED
                BY <4>2, <4>3 DEF Turn
        <3>3. QED
            BY <3>1, <3>2
    <2>3. g = [i \in 0 .. m + 1 |-> g[i]]
        OBVIOUS
    <2> HIDE DEF g
    <2>4. g = [i \in 0 .. m + 1 |-> Turn(st, tk, g, i)]
        BY <2>2, <2>3, Zenon
    <2>5. QED
        BY <2>4
<1> HIDE DEF Loop
<1> DEFINE good == {m \in Nat : Loop(m)}
<1>3. 0 \in good /\ \A m \in Nat : m \in good => m + 1 \in good
    BY <1>1, <1>2
<1> HIDE DEF good
<1>4. n \in good
    BY <1>3, SetInduction
<1>5. QED
    BY <1>4 DEF Loop, good

\* The choice after the whole table is that of the loop.
LEMMA LoopResult ==
    ASSUME NEW st, NEW tk
    PROVE  \E choice :
             /\ \A i \in 0 .. Len(Table) : choice[i] = Turn(st, tk, choice, i)
             /\ SearchLoop(st, tk) = choice[Len(Table)]
<1> DEFINE choices == CHOOSE choice :
               choice = [i \in 0 .. Len(Table) |-> Turn(st, tk, choice, i)]
<1>1. choices = [i \in 0 .. Len(Table) |-> Turn(st, tk, choices, i)]
    BY LoopDefined, TableAssumption
<1>2. SearchLoop(st, tk) = choices[Len(Table)]
    BY DEF SearchLoop, Turn
<1> HIDE DEF choices
<1>3. \A i \in 0 .. Len(Table) : choices[i] = Turn(st, tk, choices, i)
    BY <1>1
<1>4. QED
    BY <1>2, <1>3

\* The loop finds a candidate when there is one: it never gives up a choice
\* but for another candidate.
LEMMA LoopFinds ==
    ASSUME NEW st, NEW tk, NEW u \in Tasks, Candidate(st, u)
    PROVE  SearchLoop(st, tk) \in Tasks /\ Candidate(st, SearchLoop(st, tk))
<1>1. PICK choice :
        /\ \A i \in 0 .. Len(Table) : choice[i] = Turn(st, tk, choice, i)
        /\ SearchLoop(st, tk) = choice[Len(Table)]
    BY LoopResult
<1>2. /\ Len(Table) \in Nat /\ None \notin Tasks
      /\ \A i \in 1 .. Len(Table) : Table[i] \in Tasks
      /\ \E i \in 1 .. Len(Table) : Table[i] = u
    BY TableAssumption DEF Tasks, ToSet
<1> DEFINE Good(i) ==
               i <= Len(Table) =>
                 /\ choice[i] = None
                       => \A j \in 1 .. i : ~ Candidate(st, Table[j])
                 /\ choice[i] # None
                       => choice[i] \in Tasks /\ Candidate(st, choice[i])
           good == {i \in Nat : Good(i)}
<1>3. Good(0)
    BY <1>1, <1>2 DEF Turn
<1>4. ASSUME NEW i \in Nat, Good(i) PROVE Good(i + 1)
    <2>1. SUFFICES ASSUME i + 1 <= Len(Table) PROVE Good(i + 1)
        OBVIOUS
    <2>2. i <= Len(Table) /\ i + 1 \in 1 .. Len(Table) /\ i + 1 # 0
          /\ (i + 1) - 1 = i /\ Table[i + 1] \in Tasks
        BY <1>2, <2>1
    <2>3. choice[i + 1] = Better(st, tk, choice[i], Table[i + 1])
        BY <1>1, <2>2 DEF Turn
    <2>4. \/ Candidate(st, Table[i + 1]) /\ choice[i + 1] = Table[i + 1]
          \/ choice[i + 1] = choice[i] /\ choice[i] # None
          \/ choice[i + 1] = choice[i] /\ ~ Candidate(st, Table[i + 1])
        BY <2>3 DEF Better
    <2>5. \A j \in 1 .. i + 1 : j \in 1 .. i \/ j = i + 1
        OBVIOUS
    <2>6. QED
        BY <1>2, <1>4, <2>2, <2>4, <2>5, Zenon
<1> HIDE DEF Good
<1>5. 0 \in good /\ \A i \in Nat : i \in good => i + 1 \in good
    BY <1>3, <1>4
<1> HIDE DEF good
<1>6. Len(Table) \in good
    BY <1>2, <1>5, SetInduction
<1>7. QED
    BY <1>1, <1>2, <1>6 DEF good, Good

\* task_search takes a ready task other than the current one if there is any,
\* and falls back on the idle task only if there is none.
LEMMA SearchFinds ==
    ASSUME NEW st, NEW tk
    PROVE  LET others == {u \in Tasks : Candidate(st, u)}
           IN  TaskSearch(st, tk) \in IF others = {} THEN {Idle} ELSE others
<1>1. CASE \E u \in Tasks : Candidate(st, u)
    BY <1>1, LoopFinds DEF TaskSearch
<1>2. CASE ~ \E u \in Tasks : Candidate(st, u)
    BY <1>2 DEF TaskSearch
<1>3. QED
    BY <1>1, <1>2

\* The states st and ticks tk with which schedule may be called.
CallState(st, tk) ==
    /\ st \in [Tasks -> States]
    /\ tk \in [Tasks -> Word]
    /\ \A u \in Tasks : st[u] = "running" => u = current
    /\ st[Idle] \in {"ready", "running"}

\* schedule leaves one running task, and moves none in or out of the lists.
LEMMA ScheduleEffect ==
    ASSUME NEW st, NEW tk, CallState(st, tk), Schedule(st, tk)
    PROVE  /\ current' \in Tasks
           /\ state' \in [Tasks -> States]
           /\ ticks' \in [Tasks -> Word]
           /\ \A u \in Tasks :
                /\ state'[u] = "running" <=> u = current'
                /\ state'[u] = "sleeping" <=> st[u] = "sleeping"
                /\ state'[u] = "blocked" <=> st[u] = "blocked"
                /\ tk[u] # 0 => ticks'[u] = tk[u]
           /\ state'[Idle] \in {"ready", "running"}
<1> DEFINE next == TaskSearch(st, tk)
<1>1. next \in Tasks /\ st[next] \in {"ready", "running"}
    BY SearchResult DEF CallState, Candidate
<1> HIDE DEF next
<1>2. /\ current' = next
      /\ state' = [u \in Tasks |->
             IF u = next THEN "running"
             ELSE IF u = current /\ st[u] = "running" THEN "ready"
             ELSE st[u]]
      /\ ticks' = [u \in Tasks |->
             IF u = current /\ tk[u] = 0 THEN Priority[u] ELSE tk[u]]
    BY DEF Schedule, next
<1>3. state' \in [Tasks -> States]
    BY <1>2 DEF CallState, States
<1>4. ticks' \in [Tasks -> Word]
    BY <1>2, PriorityType DEF CallState
<1>5. ASSUME NEW u \in Tasks
      PROVE  /\ state'[u] = "running" <=> u = current'
             /\ state'[u] = "sleeping" <=> st[u] = "sleeping"
             /\ state'[u] = "blocked" <=> st[u] = "blocked"
             /\ tk[u] # 0 => ticks'[u] = tk[u]
    BY <1>1, <1>2 DEF CallState
<1>6. state'[Idle] \in {"ready", "running"}
    BY <1>2, IdleIsTask DEF CallState
<1>7. QED
    BY <1>1, <1>2, <1>3, <1>4, <1>5, <1>6

(***************************************************************************)
(* task_wakeup.                                                            *)
(***************************************************************************)

\* What the scheduler keeps about its tasks whoever else blocks tasks: all
\* of the inductive invariant but what it says of blocked tasks.
TasksInv ==
    /\ TypeOK
    /\ OneRunning
    /\ \A u \in Tasks : state[u] = "sleeping" <=> u \in ToSet(sleepList)
    /\ IsInjective(sleepList)
    /\ state[Idle] \in {"ready", "running"}

Blocked == {u \in Tasks : state[u] = "blocked"}

\* task_wakeup splits the sleepers into those it wakes and those it leaves.
LEMMA WakeSplits ==
    ASSUME TasksInv, NEW now \in Int
    PROVE  /\ DueCount(now) \in 0 .. Len(sleepList)
           /\ StillAsleep(now) \in Seq(Tasks)
           /\ IsInjective(StillAsleep(now))
           /\ ToSet(StillAsleep(now)) = ToSet(sleepList) \ Woken(now)
           /\ \A u \in Woken(now) : u \in Tasks /\ state[u] = "sleeping"
<1>1. sleepList \in Seq(Tasks) /\ IsInjective(sleepList) /\ Len(sleepList) \in Nat
    BY DEF TasksInv, TypeOK
<1>2. DueCount(now) \in 0 .. Len(sleepList)
    BY <1>1, StopAtStops DEF DueCount
<1>3. /\ StillAsleep(now) \in Seq(Tasks)
      /\ IsInjective(StillAsleep(now))
      /\ ToSet(StillAsleep(now)) = ToSet(sleepList) \ Woken(now)
    <2> DEFINE n == DueCount(now)
               r == SubSeq(sleepList, n + 1, Len(sleepList))
    <2>1. n \in 0 .. Len(sleepList)
        BY <1>2
    <2> HIDE DEF n
    <2>2. sleepList \in Seq(Tasks) /\ IsInjective(sleepList)
        BY <1>1
    <2>3. r \in Seq(Tasks)
        BY <2>1, <2>2, SuffixElements
    <2>4. /\ IsInjective(r)
          /\ ToSet(r) = ToSet(sleepList) \ {sleepList[i] : i \in 1 .. n}
        BY <2>1, <2>2, SuffixRemains, Zenon
    <2>5. StillAsleep(now) = r /\ Woken(now) = {sleepList[i] : i \in 1 .. n}
        BY DEF StillAsleep, Woken, n
    <2>6. QED
        BY <2>3, <2>4, <2>5, Zenon
<1>4. ASSUME NEW i \in 1 .. DueCount(now)
      PROVE  sleepList[i] \in Tasks /\ state[sleepList[i]] = "sleeping"
    <2>1. i \in 1 .. Len(sleepList)
        BY <1>1, <1>2
    <2>2. sleepList[i] \in Tasks /\ sleepList[i] \in ToSet(sleepList)
        BY <1>1, <2>1 DEF ToSet
    <2>3. QED
        BY <2>2 DEF TasksInv
<1>5. QED
    BY <1>2, <1>3, <1>4 DEF Woken

\* The states and ticks after task_wakeup are those a handler may call
\* schedule with, and no task is asleep but those left on the list.
LEMMA WakeEffect ==
    ASSUME TasksInv, NEW now \in Int
    PROVE  /\ CallState(WakeState(now), WakeTicks(now))
           /\ \A u \in Tasks :
                /\ WakeState(now)[u] = "running" <=> state[u] = "running"
                /\ WakeState(now)[u] = "sleeping"
                      <=> u \in ToSet(StillAsleep(now))
                /\ WakeState(now)[u] = "blocked" <=> state[u] = "blocked"
                /\ WakeState(now)[u] = "sleeping"
                      => state[u] = "sleeping" /\ WakeTicks(now)[u] = ticks[u]
<1>1. /\ state \in [Tasks -> States] /\ ticks \in [Tasks -> Word]
      /\ \A u \in Tasks : state[u] = "running" => u = current
      /\ \A u \in Tasks : state[u] = "sleeping" <=> u \in ToSet(sleepList)
      /\ state[Idle] \in {"ready", "running"}
    BY DEF TasksInv, TypeOK, OneRunning, Word
<1>2. /\ WakeState(now) \in [Tasks -> States]
      /\ \A u \in Tasks : WakeState(now)[u] =
            IF u \in Woken(now) THEN "ready" ELSE state[u]
    BY <1>1 DEF WakeState, States
<1>3. /\ WakeTicks(now) \in [Tasks -> Word]
      /\ \A u \in Tasks : WakeTicks(now)[u] =
            IF u \in Woken(now) THEN 0 ELSE ticks[u]
    <2>1. 0 \in Word
        BY TimeAssumption DEF Word
    <2>2. QED
        BY <1>1, <2>1 DEF WakeTicks
<1>4. /\ ToSet(StillAsleep(now)) = ToSet(sleepList) \ Woken(now)
      /\ \A u \in Woken(now) : u \in Tasks /\ state[u] = "sleeping"
    BY WakeSplits
<1>5. QED
    BY <1>1, <1>2, <1>3, <1>4, IdleIsTask DEF CallState

(***************************************************************************)
(* What every operation does to the tasks.                                 *)
(***************************************************************************)

\* What an operation that ends in schedule has to establish before it.
LEMMA ScheduledTasks ==
    ASSUME NEW st, NEW tk, CallState(st, tk), Schedule(st, tk),
           jif' \in [Tasks -> 0 .. Wrap - 1],
           jiffies' \in 0 .. Wrap - 1,
           sleepList' \in Seq(Tasks), IsInjective(sleepList'),
           blockList' \in Seq(Tasks),
           sysTask' \in Tasks \cup {None},
           intr' \in [Tasks -> BOOLEAN],
           \A u \in Tasks : st[u] = "sleeping" <=> u \in ToSet(sleepList')
    PROVE  /\ TasksInv'
           /\ Asleep' = {u \in Tasks : st[u] = "sleeping"}
           /\ Blocked' = {u \in Tasks : st[u] = "blocked"}
<1>1. /\ current' \in Tasks
      /\ state' \in [Tasks -> States]
      /\ ticks' \in [Tasks -> Word]
      /\ \A u \in Tasks :
           /\ state'[u] = "running" <=> u = current'
           /\ state'[u] = "sleeping" <=> st[u] = "sleeping"
           /\ state'[u] = "blocked" <=> st[u] = "blocked"
      /\ state'[Idle] \in {"ready", "running"}
    BY ScheduleEffect
<1>2. TypeOK'
    BY <1>1 DEF TypeOK, Word
<1>3. OneRunning'
    BY <1>1 DEF OneRunning
<1>4. TasksInv'
    BY <1>1, <1>2, <1>3 DEF TasksInv
<1>5. QED
    BY <1>1, <1>4 DEF Asleep, Blocked

\* A handler may call schedule without having changed anything.
LEMMA CallNow == ASSUME TasksInv PROVE CallState(state, ticks)
BY DEF TasksInv, TypeOK, OneRunning, CallState, Word

\* A handler may call schedule after it has blocked the running task, which
\* is not the idle task.
LEMMA CallBlocked ==
    ASSUME TasksInv, NEW t \in Users, t = current
    PROVE  /\ CallState([state EXCEPT ![t] = "blocked"], ticks)
           /\ state[t] = "running"
           /\ \A u \in Tasks :
                [state EXCEPT ![t] = "blocked"][u] =
                    IF u = t THEN "blocked" ELSE state[u]
BY DEF TasksInv, TypeOK, OneRunning, CallState, Word, States, Users

\* yield() puts no task on a list and takes none off.
LEMMA YieldTasks ==
    ASSUME TasksInv, NEW t \in Tasks, Yield(t)
    PROVE  /\ TasksInv' /\ Asleep' = Asleep /\ Blocked' = Blocked
           /\ UNCHANGED <<blockList, sysTask>>
<1>1. CallState(state, ticks)
    BY CallNow
<1>2. Schedule(state, ticks)
    BY DEF Yield
<1>3. UNCHANGED <<jif, jiffies, sleepList, blockList, sysTask, intr>>
    BY DEF Yield
<1>4. QED
    BY <1>1, <1>2, <1>3, ScheduledTasks
       DEF TasksInv, TypeOK, Asleep, Blocked

\* sleep() puts the caller on the sleep list and takes it off the processor.
LEMMA SleepTasks ==
    ASSUME TasksInv, NEW t \in Users, NEW ms \in SleepMs, Sleep(t, ms)
    PROVE  /\ TasksInv' /\ Asleep' = Asleep \cup {t} /\ Blocked' = Blocked
           /\ UNCHANGED <<blockList, sysTask>>
<1> DEFINE target == S32(U32(jiffies + TicksOf(ms)))
           st == [state EXCEPT ![t] = "sleeping"]
           tk == [ticks EXCEPT ![t] = target]
<1>1. t \in Tasks /\ t = current /\ t # Idle /\ state[t] = "running"
    BY DEF Sleep, Users, TasksInv, OneRunning
<1>2. target \in Word
    <2>1. jiffies + TicksOf(ms) \in Int
        BY TicksOfType, TimeAssumption DEF TasksInv, TypeOK, Wrap
    <2>2. QED
        BY <2>1, WordTypes
<1>3. /\ sleepList' = InsertAt(sleepList, SleepSlot(target), t)
      /\ Schedule(st, tk)
      /\ UNCHANGED <<jif, jiffies, blockList, sysTask, intr>>
    BY DEF Sleep
<1> HIDE DEF target
<1>4. CallState(st, tk)
    BY <1>1, <1>2 DEF TasksInv, TypeOK, OneRunning, CallState, Word, States
<1>5. /\ sleepList' \in Seq(Tasks)
      /\ ToSet(sleepList') = ToSet(sleepList) \cup {t}
      /\ IsInjective(sleepList')
    <2>1. sleepList \in Seq(Tasks) /\ IsInjective(sleepList)
        BY DEF TasksInv, TypeOK
    <2>2. SleepSlot(target) \in 1 .. Len(sleepList) + 1
        BY <2>1, StopAtStops DEF SleepSlot
    <2>3. t \notin ToSet(sleepList)
        BY <1>1 DEF TasksInv
    <2>4. QED
        BY <1>1, <1>3, <2>1, <2>2, <2>3, InsertAtSlot, InsertAtLinks
<1>6. /\ \A u \in Tasks : st[u] = "sleeping" <=> u \in ToSet(sleepList')
      /\ {u \in Tasks : st[u] = "sleeping"} = Asleep \cup {t}
      /\ {u \in Tasks : st[u] = "blocked"} = Blocked
    BY <1>1, <1>5 DEF TasksInv, TypeOK, Asleep, Blocked
<1> HIDE DEF st, tk
<1>7. QED
    BY <1>3, <1>4, <1>5, <1>6, ScheduledTasks DEF TasksInv, TypeOK

\* test() that blocks the caller puts it at the head of the block list.
LEMMA TestBlockTasks ==
    ASSUME TasksInv, NEW t \in Users, TestBlock(t), t \notin ToSet(blockList)
    PROVE  /\ TasksInv' /\ Asleep' = Asleep /\ Blocked' = Blocked \cup {t}
           /\ t \notin Blocked
           /\ sysTask = None /\ sysTask' = t
           /\ ToSet(blockList') = ToSet(blockList) \cup {t}
           /\ IsInjective(blockList) => IsInjective(blockList')
<1> DEFINE st == [state EXCEPT ![t] = "blocked"]
<1>1. /\ t \in Tasks /\ t = current
      /\ sysTask = None /\ sysTask' = t
      /\ blockList' = <<t>> \o blockList
      /\ Schedule(st, ticks)
      /\ UNCHANGED <<jif, jiffies, sleepList, intr>>
    BY DEF TestBlock, Users
<1>2. /\ CallState(st, ticks) /\ state[t] = "running"
      /\ \A u \in Tasks : st[u] = IF u = t THEN "blocked" ELSE state[u]
    BY <1>1, CallBlocked
<1>3. /\ blockList' \in Seq(Tasks)
      /\ ToSet(blockList') = ToSet(blockList) \cup {t}
      /\ IsInjective(blockList) => IsInjective(blockList')
    BY <1>1, PushLinks DEF TasksInv, TypeOK
<1>4. /\ \A u \in Tasks : st[u] = "sleeping" <=> u \in ToSet(sleepList')
      /\ {u \in Tasks : st[u] = "sleeping"} = Asleep
      /\ {u \in Tasks : st[u] = "blocked"} = Blocked \cup {t}
      /\ t \notin Blocked
    BY <1>1, <1>2 DEF TasksInv, Asleep, Blocked
<1> HIDE DEF st
<1>5. QED
    BY <1>1, <1>2, <1>3, <1>4, ScheduledTasks DEF TasksInv, TypeOK

\* test() that finds a blocked task takes it off the block list.
LEMMA TestUnblockTasks ==
    ASSUME TasksInv, NEW t \in Users, TestUnblock(t),
           sysTask \in Blocked, sysTask \in ToSet(blockList),
           IsInjective(blockList)
    PROVE  /\ TasksInv' /\ Asleep' = Asleep
           /\ Blocked' = Blocked \ {sysTask}
           /\ sysTask' = None
           /\ ToSet(blockList') = ToSet(blockList) \ {sysTask}
           /\ IsInjective(blockList')
<1>1. /\ blockList' = Unlink(blockList, sysTask)
      /\ state' = [state EXCEPT ![sysTask] = "ready"]
      /\ sysTask' = None
      /\ UNCHANGED <<current, ticks, jif, jiffies, sleepList, intr>>
    BY DEF TestUnblock
<1>2. /\ blockList' \in Seq(Tasks)
      /\ ToSet(blockList') = ToSet(blockList) \ {sysTask}
      /\ IsInjective(blockList')
    BY <1>1, UnlinkRemoves DEF TasksInv, TypeOK
<1>3. sysTask \in Tasks /\ state[sysTask] = "blocked"
    BY DEF Blocked
<1>4. TypeOK'
    BY <1>1, <1>2, <1>3 DEF TasksInv, TypeOK, States
<1>5. OneRunning'
    BY <1>1, <1>3 DEF TasksInv, TypeOK, OneRunning
<1>6. TasksInv'
    BY <1>1, <1>3, <1>4, <1>5, IdleIsTask DEF TasksInv, TypeOK
<1>7. Asleep' = Asleep /\ Blocked' = Blocked \ {sysTask}
    BY <1>1, <1>3 DEF TasksInv, TypeOK, Asleep, Blocked
<1>8. QED
    BY <1>1, <1>2, <1>6, <1>7

\* A thread that enables interrupts changes no task's state.
LEMMA StartTasks ==
    ASSUME TasksInv, NEW t \in Tasks, Start(t)
    PROVE  /\ TasksInv' /\ Asleep' = Asleep /\ Blocked' = Blocked
           /\ UNCHANGED <<current, state, blockList, sysTask>>
<1>1. /\ intr' = [intr EXCEPT ![t] = TRUE]
      /\ UNCHANGED <<current, state, ticks, jif, jiffies, sleepList,
                     blockList, sysTask>>
    BY DEF Start
<1>2. TypeOK' /\ OneRunning'
    BY <1>1 DEF TasksInv, TypeOK, OneRunning
<1>3. QED
    BY <1>1, <1>2 DEF TasksInv, Asleep, Blocked

\* What the clock handler does whether or not it switches tasks.
LEMMA TickEffect ==
    ASSUME TasksInv, Tick
    PROVE  /\ jiffies' \in 0 .. Wrap - 1
           /\ jif' \in [Tasks -> 0 .. Wrap - 1]
           /\ sleepList' \in Seq(Tasks) /\ IsInjective(sleepList')
           /\ \A u \in Tasks : WakeState(jiffies')[u] = "sleeping"
                                 <=> u \in ToSet(sleepList')
           /\ CallState(WakeState(jiffies'), WakeTicks(jiffies'))
           /\ UNCHANGED <<blockList, sysTask, intr>>
<1>1. /\ jiffies' = U32(jiffies + 1)
      /\ sleepList' = StillAsleep(jiffies')
      /\ jif' = [u \in Tasks |-> IF u = current THEN jiffies' ELSE jif[u]]
      /\ UNCHANGED <<blockList, sysTask, intr>>
    BY DEF Tick
<1>2. jiffies' \in 0 .. Wrap - 1
    <2>1. jiffies + 1 \in Int
        BY DEF TasksInv, TypeOK
    <2>2. QED
        BY <1>1, <2>1, WordTypes
<1>3. jif' \in [Tasks -> 0 .. Wrap - 1]
    BY <1>1, <1>2 DEF TasksInv, TypeOK
<1>4. jiffies' \in Int
    BY <1>2, TimeAssumption DEF Wrap
<1>5. QED
    BY <1>1, <1>2, <1>3, <1>4, WakeSplits, WakeEffect

\* The clock handler, in each of its three outcomes, wakes sleepers and
\* leaves the blocked tasks alone.
LEMMA ClockTasks ==
    ASSUME TasksInv, Clock
    PROVE  /\ TasksInv' /\ Asleep' \subseteq Asleep /\ Blocked' = Blocked
           /\ UNCHANGED <<blockList, sysTask>>
<1> DEFINE st == WakeState(jiffies')
           tk == WakeTicks(jiffies')
<1>1. Tick
    BY DEF Clock, ClockBoot, ClockKeep, ClockSwitch
<1>2. /\ jiffies' \in 0 .. Wrap - 1
      /\ jif' \in [Tasks -> 0 .. Wrap - 1]
      /\ sleepList' \in Seq(Tasks) /\ IsInjective(sleepList')
      /\ \A u \in Tasks : st[u] = "sleeping" <=> u \in ToSet(sleepList')
      /\ CallState(st, tk)
      /\ UNCHANGED <<blockList, sysTask, intr>>
    BY <1>1, TickEffect
<1>3. jiffies' \in Int
    BY <1>2, TimeAssumption DEF Wrap
<1>4. /\ \A u \in Tasks : st[u] = "running" <=> state[u] = "running"
      /\ {u \in Tasks : st[u] = "sleeping"} \subseteq Asleep
      /\ {u \in Tasks : st[u] = "blocked"} = Blocked
    BY <1>3, WakeEffect DEF Asleep, Blocked
<1> HIDE DEF st, tk
<1>5. /\ blockList' \in Seq(Tasks)
      /\ sysTask' \in Tasks \cup {None} /\ intr' \in [Tasks -> BOOLEAN]
    BY <1>2 DEF TasksInv, TypeOK
<1>6. CASE ClockBoot
    <2>1. Schedule(st, tk)
        BY <1>6 DEF ClockBoot, st, tk
    <2>2. QED
        BY <1>2, <1>4, <1>5, <2>1, ScheduledTasks
<1>7. ASSUME NEW t \in Tasks, ClockSwitch(t)
      PROVE  TasksInv' /\ Asleep' \subseteq Asleep /\ Blocked' = Blocked
    <2> DEFINE tp == [tk EXCEPT ![t] = Priority[t]]
    <2>1. Schedule(st, tp)
        BY <1>7 DEF ClockSwitch, st, tk
    <2>2. CallState(st, tp)
        BY <1>2, PriorityType DEF CallState
    <2> HIDE DEF tp
    <2>3. QED
        BY <1>2, <1>4, <1>5, <2>1, <2>2, ScheduledTasks
<1>8. ASSUME NEW t \in Tasks, ClockKeep(t)
      PROVE  TasksInv' /\ Asleep' \subseteq Asleep /\ Blocked' = Blocked
    <2>1. /\ state' = st
          /\ ticks' = [tk EXCEPT ![t] = Decrement(ticks[t])]
          /\ current' = current
        BY <1>8 DEF ClockKeep, st, tk
    <2>2. ticks' \in [Tasks -> Word]
        BY <1>2, <2>1, DecrementType DEF CallState, TasksInv, TypeOK, Word
    <2>3. TypeOK'
        BY <1>2, <1>5, <2>1, <2>2 DEF CallState, TasksInv, TypeOK, Word
    <2>4. OneRunning'
        BY <1>4, <2>1 DEF TasksInv, OneRunning
    <2>5. TasksInv'
        BY <1>2, <2>1, <2>3, <2>4 DEF CallState, TasksInv
    <2>6. QED
        BY <1>4, <2>1, <2>5 DEF Asleep, Blocked
<1>9. QED
    BY <1>2, <1>6, <1>7, <1>8 DEF Clock

(***************************************************************************)
(* Every operation of the scheduler preserves IInv.                        *)
(***************************************************************************)

\* The inductive invariant.
IInv == TypeOK /\ OneRunning /\ ListsMatchStates /\ OneRendezvous

\* It is TasksInv, and that a blocked task is on the block list and in
\* sys_test's variable.
LEMMA IInvParts ==
    IInv <=> /\ TasksInv
             /\ \A u \in Tasks : /\ u \in Blocked <=> u \in ToSet(blockList)
                                 /\ u \in Blocked <=> sysTask = u
             /\ IsInjective(blockList)
<1>1. \A u \in Tasks : u \in Blocked <=> state[u] = "blocked"
    BY DEF Blocked
<1>2. QED
    BY <1>1 DEF IInv, TasksInv, ListsMatchStates, OneRendezvous

\* The tasks on the block list are the blocked ones.
LEMMA BlockListMatches ==
    ASSUME IInv
    PROVE  ToSet(blockList) = Blocked /\ Blocked = {sysTask} \cap Tasks
<1>1. ToSet(blockList) \subseteq Tasks
    BY DEF IInv, TypeOK, ToSet
<1>2. QED
    BY <1>1, IInvParts DEF Blocked

\* A step that leaves the blocked tasks and what is known of them alone.
LEMMA BlockedUntouched ==
    ASSUME IInv, TasksInv', Blocked' = Blocked, UNCHANGED <<blockList, sysTask>>
    PROVE  IInv'
<1>1. /\ \A u \in Tasks : /\ u \in Blocked' <=> u \in ToSet(blockList')
                          /\ u \in Blocked' <=> sysTask' = u
      /\ IsInjective(blockList')
    BY IInvParts
<1>2. QED
    BY <1>1 DEF TasksInv, IInv, ListsMatchStates, OneRendezvous, Blocked

\* task_init establishes the inductive invariant.
LEMMA InitInv == Init => IInv
<1> SUFFICES ASSUME Init PROVE IInv
    OBVIOUS
<1>1. ToSet(<<>>) = {} /\ IsInjective(<<>>) /\ <<>> \in Seq(Tasks)
    BY DEF ToSet, IsInjective
<1>2. Priority \in [Tasks -> Word] /\ 0 \in 0 .. Wrap - 1
    BY TimeAssumption DEF Word, Wrap
<1>3. TypeOK
    BY <1>1, <1>2 DEF Init, TypeOK, States, Word
<1>4. OneRunning
    BY TableAssumption DEF Init, OneRunning
<1>5. ListsMatchStates
    BY <1>1, IdleIsTask DEF Init, ListsMatchStates
<1>6. OneRendezvous
    BY TableAssumption DEF Init, OneRendezvous
<1>7. QED
    BY <1>3, <1>4, <1>5, <1>6 DEF IInv

\* test() keeps it when it blocks the caller.
LEMMA TestBlockInv ==
    ASSUME IInv, NEW t \in Users, TestBlock(t)
    PROVE  IInv'
<1>1. TasksInv /\ t \in Tasks /\ sysTask = None
    BY IInvParts DEF TestBlock, Users
<1>2. Blocked = {} /\ ToSet(blockList) = {}
    BY <1>1, BlockListMatches, TableAssumption
<1>3. /\ TasksInv' /\ Blocked' = {t} /\ sysTask' = t
      /\ ToSet(blockList') = {t}
      /\ IsInjective(blockList')
    BY <1>1, <1>2, IInvParts, TestBlockTasks
<1>4. QED
    BY <1>3 DEF TasksInv, IInv, ListsMatchStates, OneRendezvous, Blocked

\* test() keeps it when it unblocks the task that waits.
LEMMA TestUnblockInv ==
    ASSUME IInv, NEW t \in Users, TestUnblock(t)
    PROVE  IInv'
<1>1. TasksInv /\ sysTask \in Tasks /\ IsInjective(blockList)
    BY IInvParts DEF TestUnblock, IInv, TypeOK
<1>2. Blocked = {sysTask} /\ ToSet(blockList) = {sysTask}
    BY <1>1, BlockListMatches
<1>3. /\ TasksInv' /\ Blocked' = {} /\ sysTask' = None
      /\ ToSet(blockList') = {}
      /\ IsInjective(blockList')
    BY <1>1, <1>2, TestUnblockTasks
<1>4. QED
    BY <1>3, TableAssumption
       DEF TasksInv, IInv, ListsMatchStates, OneRendezvous, Blocked

\* Every step of the scheduler preserves the inductive invariant.
LEMMA NextInv == IInv /\ [Next]_vars => IInv'
<1> SUFFICES ASSUME IInv, [Next]_vars PROVE IInv'
    OBVIOUS
<1>1. TasksInv
    BY IInvParts
<1>2. CASE UNCHANGED vars
    BY <1>2 DEF vars, IInv, TypeOK, OneRunning, ListsMatchStates, OneRendezvous
<1>3. CASE Clock
    BY <1>1, <1>3, ClockTasks, BlockedUntouched
<1>4. ASSUME NEW t \in Tasks, Start(t) PROVE IInv'
    BY <1>1, <1>4, StartTasks, BlockedUntouched
<1>5. ASSUME NEW t \in Tasks, Yield(t) PROVE IInv'
    BY <1>1, <1>5, YieldTasks, BlockedUntouched
<1>6. ASSUME NEW t \in Users, NEW ms \in SleepMs, Sleep(t, ms) PROVE IInv'
    BY <1>1, <1>6, SleepTasks, BlockedUntouched
<1>7. ASSUME NEW t \in Users, TestBlock(t) \/ TestUnblock(t) PROVE IInv'
    BY <1>7, TestBlockInv, TestUnblockInv
<1>8. QED
    BY <1>2, <1>3, <1>4, <1>5, <1>6, <1>7 DEF Next, Call

\* The inductive invariant holds in every reachable state.
THEOREM Invariance == Spec => []IInv
<1>1. QED
    BY InitInv, NextInv, PTL DEF Spec

\* Types: no conversion between the words of clock.c and task.c goes wrong.
THEOREM TypeCorrect == Spec => []TypeOK
<1>1. IInv => TypeOK
    BY DEF IInv
<1>2. QED
    BY <1>1, Invariance, PTL

\* schedule leaves exactly one task in TASK_RUNNING, the one that runs.
THEOREM OneTaskRuns == Spec => []OneRunning
<1>1. IInv => OneRunning
    BY DEF IInv
<1>2. QED
    BY <1>1, Invariance, PTL

\* The assertions on list nodes in task_block, task_sleep and list_remove
\* never fail, and the idle task can always be fallen back on.
THEOREM ListsConsistent == Spec => []ListsMatchStates
<1>1. IInv => ListsMatchStates
    BY DEF IInv
<1>2. QED
    BY <1>1, Invariance, PTL

\* sys_test unblocks a task that is blocked, and forgets none.
THEOREM RendezvousConsistent == Spec => []OneRendezvous
<1>1. IInv => OneRendezvous
    BY DEF IInv
<1>2. QED
    BY <1>1, Invariance, PTL

(***************************************************************************)
(* No sleeper is overdue, as long as no time overflows.                    *)
(***************************************************************************)

\* task_wakeup stops at the first task that is not due, which is enough only
\* because the list is ordered; the order in turn needs times that the signed
\* comparison of task_sleep and the unsigned one of task_wakeup agree on.
TimeInv == IInv /\ SleepOrder /\ NoOversleep /\ jiffies <= Horizon

\* Without overflow the conversions keep a time as it is.
LEMMA SmallWords ==
    ASSUME NEW n \in Nat, n < Half
    PROVE  U32(n) = n /\ S32(n) = n
<1>1. n \in 0 .. Wrap - 1
    BY TimeAssumption DEF Wrap
<1>2. Wrap \in Nat \ {0}
    BY TimeAssumption DEF Wrap
<1>3. n % Wrap = n
    BY <1>1, <1>2
<1>4. QED
    BY <1>3, TimeAssumption DEF U32, S32

\* schedule changes no wake-up time and no list.
LEMMA ScheduleKeepsSleepers ==
    ASSUME NEW st, NEW tk, CallState(st, tk), Schedule(st, tk),
           NEW u \in Tasks, st[u] = "sleeping", tk[u] > 0
    PROVE  ticks'[u] = tk[u] /\ tk[u] \in Word
<1>1. tk[u] # 0 /\ tk[u] \in Word
    BY DEF CallState, Word
<1>2. QED
    BY <1>1, ScheduleEffect

\* A task is on the sleep list at some position if it sleeps, and then
\* only.
LEMMA SleepersListed ==
    ASSUME IInv
    PROVE  /\ sleepList \in Seq(Tasks) /\ Len(sleepList) \in Nat
           /\ \A i \in 1 .. Len(sleepList) :
                 sleepList[i] \in Tasks /\ state[sleepList[i]] = "sleeping"
<1>1. sleepList \in Seq(Tasks) /\ Len(sleepList) \in Nat
    BY DEF IInv, TypeOK
<1>2. ASSUME NEW i \in 1 .. Len(sleepList)
      PROVE  sleepList[i] \in Tasks /\ state[sleepList[i]] = "sleeping"
    <2>1. sleepList[i] \in Tasks /\ sleepList[i] \in ToSet(sleepList)
        BY <1>1 DEF ToSet
    <2>2. QED
        BY <2>1 DEF IInv, ListsMatchStates
<1>3. QED
    BY <1>1, <1>2

\* Wake-up times and jiffies are small numbers in every state of TimeInv.
LEMMA SmallTimes ==
    ASSUME NoOverflow, TimeInv
    PROVE  /\ jiffies \in Nat /\ jiffies < Half /\ Horizon \in Nat
           /\ \A u \in Tasks : state[u] = "sleeping"
                 => ticks[u] \in Nat /\ ticks[u] < Half /\ U32(ticks[u]) = ticks[u]
<1>1. jiffies \in Nat /\ jiffies < Half /\ Horizon \in Nat
    BY TimeAssumption DEF NoOverflow, TimeInv, IInv, TypeOK, Wrap
<1>2. ASSUME NEW u \in Tasks, state[u] = "sleeping"
      PROVE  ticks[u] \in Nat /\ ticks[u] < Half /\ U32(ticks[u]) = ticks[u]
    <2>1. ticks[u] \in -Half .. Half - 1 /\ ticks[u] > jiffies
        BY <1>2 DEF TimeInv, IInv, TypeOK, NoOversleep
    <2>2. ticks[u] \in Nat /\ ticks[u] < Half
        BY <1>1, <2>1, TimeAssumption
    <2>3. QED
        BY <2>2, SmallWords
<1>3. QED
    BY <1>1, <1>2

\* A step that leaves the clock, the list and the sleepers' times alone.
LEMMA TimesUntouched ==
    ASSUME TimeInv, IInv', UNCHANGED <<jiffies, sleepList>>,
           \A u \in Tasks : state[u] = "sleeping" => ticks'[u] = ticks[u],
           \A u \in Tasks : state'[u] = "sleeping" => state[u] = "sleeping"
    PROVE  TimeInv'
<1>1. \A i \in 1 .. Len(sleepList) : ticks'[sleepList[i]] = ticks[sleepList[i]]
    BY SleepersListed DEF TimeInv
<1>2. SleepOrder'
    BY <1>1 DEF TimeInv, SleepOrder
<1>3. NoOversleep'
    BY DEF TimeInv, NoOversleep
<1>4. QED
    BY <1>2, <1>3 DEF TimeInv

\* A call of schedule with the sleepers as they were.
LEMMA SchedulePassesBy ==
    ASSUME NoOverflow, TimeInv, IInv', UNCHANGED <<jiffies, sleepList>>,
           NEW st, CallState(st, ticks), Schedule(st, ticks),
           \A u \in Tasks : st[u] = "sleeping" <=> state[u] = "sleeping"
    PROVE  TimeInv'
<1>1. ASSUME NEW u \in Tasks, state'[u] = "sleeping"
      PROVE  state[u] = "sleeping"
    BY <1>1, ScheduleEffect
<1>2. ASSUME NEW u \in Tasks, state[u] = "sleeping"
      PROVE  ticks'[u] = ticks[u]
    <2>1. ticks[u] > 0
        BY <1>2, SmallTimes DEF TimeInv, NoOversleep
    <2>2. QED
        BY <1>2, <2>1, ScheduleKeepsSleepers
<1>3. QED
    BY <1>1, <1>2, TimesUntouched

\* Without overflow a task sleeps until the tick that it asked for.
LEMMA SleepTarget ==
    ASSUME NoOverflow, TimeInv, NEW ms \in SleepMs
    PROVE  LET target == S32(U32(jiffies + TicksOf(ms)))
           IN  /\ target = jiffies + TicksOf(ms)
               /\ target \in Nat \ {0} /\ target \in Word
               /\ target > jiffies /\ target < Half
<1>1. /\ jiffies \in Nat /\ TicksOf(ms) \in Nat \ {0}
      /\ jiffies <= Horizon /\ Horizon \in Nat /\ Horizon + TicksOf(ms) < Half
    BY SmallTimes, TicksOfType DEF TimeInv, NoOverflow
<1>2. jiffies + TicksOf(ms) \in Nat /\ jiffies + TicksOf(ms) < Half
    BY <1>1, TimeAssumption
<1>3. S32(U32(jiffies + TicksOf(ms))) = jiffies + TicksOf(ms)
    BY <1>2, SmallWords
<1>4. QED
    BY <1>1, <1>2, <1>3, TimeAssumption DEF Word

\* task_sleep links the caller where the order of the list wants it.
LEMMA SleepTime ==
    ASSUME NoOverflow, TimeInv, IInv', NEW t \in Users, NEW ms \in SleepMs,
           Sleep(t, ms)
    PROVE  TimeInv'
<1> DEFINE target == S32(U32(jiffies + TicksOf(ms)))
           st == [state EXCEPT ![t] = "sleeping"]
           tk == [ticks EXCEPT ![t] = target]
           p == SleepSlot(target)
           n == Len(sleepList)
           r == InsertAt(sleepList, p, t)
<1>1. /\ t \in Tasks /\ t = current /\ t # Idle /\ state[t] = "running"
      /\ state \in [Tasks -> States] /\ ticks \in [Tasks -> Word]
    BY DEF Sleep, Users, TimeInv, IInv, OneRunning, TypeOK, Word
<1>2. target \in Nat /\ target > jiffies /\ target < Half
    BY SleepTarget
<1>3. sleepList' = r /\ Schedule(st, tk) /\ jiffies' = jiffies
    BY DEF Sleep
<1> HIDE DEF target
<1>4. CallState(st, tk)
    <2>1. target \in Word
        BY <1>2, TimeAssumption DEF Word
    <2>2. QED
        BY <1>1, <2>1 DEF TimeInv, IInv, OneRunning, ListsMatchStates,
                          CallState, States
<1>5. ASSUME NEW u \in Tasks, state'[u] = "sleeping"
      PROVE  ticks'[u] = (IF u = t THEN target ELSE ticks[u])
             /\ (u # t => state[u] = "sleeping")
    <2>1. st[u] = "sleeping"
        BY <1>3, <1>4, <1>5, ScheduleEffect
    <2>2. u # t => state[u] = "sleeping" /\ ticks[u] > jiffies
        BY <1>1, <2>1 DEF TimeInv, NoOversleep
    <2>3. ticks[u] \in Int
        BY <1>1 DEF Word
    <2>4. tk[u] > 0
        BY <1>1, <1>2, <2>2, <2>3, SmallTimes
    <2> HIDE DEF st
    <2> HIDE DEF tk
    <2>5. ticks'[u] = tk[u]
        <3>1. CallState(st, tk) /\ Schedule(st, tk)
            BY <1>3, <1>4
        <3>2. QED
            BY <2>1, <2>4, <3>1, ScheduleKeepsSleepers
    <2> USE DEF tk
    <2>6. QED
        BY <1>1, <2>2, <2>5
<1> HIDE DEF st, tk
<1>6. NoOversleep'
    BY <1>2, <1>3, <1>5 DEF TimeInv, NoOversleep
<1>7. /\ sleepList \in Seq(Tasks) /\ n \in Nat
      /\ \A i \in 1 .. n : /\ sleepList[i] \in Tasks
                           /\ state[sleepList[i]] = "sleeping"
                           /\ ticks[sleepList[i]] \in Int
    BY <1>1, SleepersListed DEF TimeInv, Word
<1>8. /\ p \in 1 .. n + 1
      /\ \A i \in 1 .. p - 1 : ticks[sleepList[i]] <= target
      /\ \A i \in p .. n : ticks[sleepList[i]] > target
    <2> DEFINE late == {u \in Tasks : ticks[u] > target}
    <2>1. /\ p \in 1 .. n + 1
          /\ \A i \in 1 .. p - 1 : sleepList[i] \notin late
          /\ p <= n => sleepList[p] \in late
        BY <1>7, StopAtStops DEF SleepSlot
    <2>2. ASSUME NEW i \in 1 .. p - 1 PROVE ticks[sleepList[i]] <= target
        BY <1>2, <1>7, <2>1
    <2>3. ASSUME NEW i \in p .. n PROVE ticks[sleepList[i]] > target
        <3>1. ticks[sleepList[p]] > target /\ p \in 1 .. n /\ i \in 1 .. n
            BY <1>7, <2>1
        <3>2. ticks[sleepList[p]] <= ticks[sleepList[i]]
            BY <1>7, <3>1 DEF TimeInv, SleepOrder
        <3>3. QED
            BY <1>2, <1>7, <3>1, <3>2
    <2>4. QED
        BY <2>1, <2>2, <2>3
<1> HIDE DEF p
<1>9. /\ r \in Seq(Tasks) /\ Len(r) = n + 1
      /\ \A j \in 1 .. n + 1 :
            r[j] = IF j < p THEN sleepList[j]
                   ELSE IF j = p THEN t ELSE sleepList[j - 1]
    <2>1. t \in Tasks /\ sleepList \in Seq(Tasks) /\ p \in 1 .. Len(sleepList) + 1
        BY <1>1, <1>7, <1>8
    <2>2. r \in Seq(Tasks)
        BY <2>1, InsertAtSlot
    <2>3. Len(r) = Len(sleepList) + 1
        BY <2>1, InsertAtSlot
    <2>4. ASSUME NEW j \in 1 .. Len(sleepList) + 1
          PROVE  r[j] = IF j < p THEN sleepList[j]
                        ELSE IF j = p THEN t ELSE sleepList[j - 1]
        BY <2>1, InsertAtElement
    <2>5. QED
        BY <2>2, <2>3, <2>4, Zenon
<1>10. \A j \in 1 .. n + 1 : r[j] \in Tasks /\ state'[r[j]] = "sleeping"
    <2>1. \A u \in Tasks : state'[u] = "sleeping" <=> u \in ToSet(r)
        BY <1>3 DEF IInv, ListsMatchStates
    <2>2. \A j \in 1 .. n + 1 : r[j] \in Tasks /\ r[j] \in ToSet(r)
        BY <1>9 DEF ToSet
    <2>3. QED
        BY <2>1, <2>2
<1> HIDE DEF r
<1>11. \A i \in 1 .. n : sleepList[i] # t
    BY <1>1, <1>7
<1>12. ASSUME NEW j \in 1 .. n + 1
       PROVE  ticks'[r[j]] = IF j < p THEN ticks[sleepList[j]]
                             ELSE IF j = p THEN target
                             ELSE ticks[sleepList[j - 1]]
    <2>1. ticks'[r[j]] = IF r[j] = t THEN target ELSE ticks[r[j]]
        BY <1>5, <1>10
    <2>2. CASE j < p
        <3>1. j \in 1 .. n /\ r[j] = sleepList[j]
            BY <1>7, <1>8, <1>9, <2>2
        <3>2. QED
            BY <1>11, <2>1, <2>2, <3>1
    <2>3. CASE j = p
        BY <1>9, <2>1, <2>3
    <2>4. CASE j > p
        <3>1. j - 1 \in 1 .. n /\ r[j] = sleepList[j - 1]
            BY <1>7, <1>8, <1>9, <2>4
        <3>2. QED
            BY <1>8, <1>11, <2>1, <2>4, <3>1
    <2>5. QED
        BY <1>7, <1>8, <2>2, <2>3, <2>4
<1>13. ASSUME NEW i \in 1 .. n + 1, NEW j \in 1 .. n + 1, i < j
       PROVE  ticks'[r[i]] <= ticks'[r[j]]
    <2>1. CASE j < p
        <3>1. i \in 1 .. n /\ j \in 1 .. n /\ i < p
            BY <1>7, <1>8, <1>13, <2>1
        <3>2. QED
            BY <1>12, <1>13, <2>1, <3>1 DEF TimeInv, SleepOrder
    <2>2. CASE j = p
        <3>1. i \in 1 .. p - 1 /\ i < p
            BY <1>7, <1>8, <1>13, <2>2
        <3>2. QED
            BY <1>8, <1>12, <2>2, <3>1
    <2>3. CASE j > p
        <3>1. j - 1 \in p .. n /\ j - 1 \in 1 .. n /\ ~ (j < p) /\ j # p
            BY <1>7, <1>8, <2>3
        <3>2. ticks'[r[j]] = ticks[sleepList[j - 1]]
              /\ ticks[sleepList[j - 1]] > target
              /\ ticks[sleepList[j - 1]] \in Int
            BY <1>7, <1>8, <1>12, <3>1
        <3>3. CASE i < p
            <4>1. i \in 1 .. p - 1 /\ i \in 1 .. n
                BY <1>7, <1>8, <3>3
            <4>2. ticks'[r[i]] = ticks[sleepList[i]]
                  /\ ticks[sleepList[i]] <= target /\ ticks[sleepList[i]] \in Int
                BY <1>7, <1>8, <1>12, <3>3, <4>1
            <4>3. QED
                BY <1>2, <3>2, <4>2
        <3>4. CASE i = p
            BY <1>2, <1>12, <3>2, <3>4
        <3>5. CASE i > p
            <4>1. /\ i - 1 \in 1 .. n /\ i - 1 < j - 1
                  /\ ticks'[r[i]] = ticks[sleepList[i - 1]]
                BY <1>7, <1>8, <1>12, <1>13, <3>5
            <4>2. QED
                BY <3>1, <3>2, <4>1 DEF TimeInv, SleepOrder
        <3>6. QED
            BY <1>7, <1>8, <3>3, <3>4, <3>5
    <2>4. QED
        BY <1>7, <1>8, <2>1, <2>2, <2>3
<1>14. SleepOrder'
    BY <1>3, <1>9, <1>13 DEF SleepOrder
<1>15. QED
    BY <1>3, <1>6, <1>14 DEF TimeInv

\* Because the list is in order, task_wakeup wakes all sleepers that are due,
\* and no other.
LEMMA WakesTheDue ==
    ASSUME NoOverflow, TimeInv, NEW now \in Nat
    PROVE  Woken(now) = {u \in Asleep : ticks[u] <= now}
<1> DEFINE late == {u \in Tasks : U32(ticks[u]) > now}
           n == DueCount(now)
           l == Len(sleepList)
<1>1. /\ sleepList \in Seq(Tasks) /\ l \in Nat
      /\ \A i \in 1 .. l : /\ sleepList[i] \in Tasks
                           /\ state[sleepList[i]] = "sleeping"
                           /\ ticks[sleepList[i]] \in Nat
                           /\ U32(ticks[sleepList[i]]) = ticks[sleepList[i]]
    BY SleepersListed, SmallTimes DEF TimeInv
<1>2. /\ n \in 0 .. l
      /\ \A i \in 1 .. n : sleepList[i] \notin late
      /\ n < l => sleepList[n + 1] \in late
    <2> DEFINE p == StopAt(sleepList, late)
    <2>1. /\ p \in 1 .. l + 1
          /\ \A i \in 1 .. p - 1 : sleepList[i] \notin late
          /\ p <= l => sleepList[p] \in late
        BY <1>1, StopAtStops
    <2>2. n = p - 1
        BY DEF DueCount
    <2> HIDE DEF p, n, late
    <2>3. QED
        BY <1>1, <2>1, <2>2
<1> HIDE DEF n
<1>3. ASSUME NEW i \in 1 .. n
      PROVE  sleepList[i] \in Asleep /\ ticks[sleepList[i]] <= now
    BY <1>1, <1>2 DEF Asleep
<1>4. ASSUME NEW i \in 1 .. l, ticks[sleepList[i]] <= now
      PROVE  i \in 1 .. n
    <2>1. SUFFICES ASSUME i > n PROVE FALSE
        BY <1>1, <1>2
    <2>2. n < l /\ n + 1 \in 1 .. l /\ n + 1 <= i
        BY <1>1, <1>2, <2>1
    <2>3. ticks[sleepList[n + 1]] > now
        BY <1>1, <1>2, <2>2
    <2>4. ticks[sleepList[n + 1]] <= ticks[sleepList[i]]
        BY <1>1, <2>2 DEF TimeInv, SleepOrder
    <2>5. QED
        BY <1>1, <1>4, <2>2, <2>3, <2>4
<1>5. ASSUME NEW u \in Asleep PROVE \E i \in 1 .. l : sleepList[i] = u
    <2>1. u \in ToSet(sleepList)
        BY DEF Asleep, TimeInv, IInv, ListsMatchStates
    <2>2. QED
        BY <1>1, <2>1 DEF ToSet
<1>6. Woken(now) = {sleepList[i] : i \in 1 .. n}
    BY DEF Woken, n
<1>7. QED
    BY <1>3, <1>4, <1>5, <1>6

\* Without overflow the clock counts.
LEMMA TickOnTime ==
    ASSUME NoOverflow, TimeInv, Tick
    PROVE  jiffies' = jiffies + 1 /\ jiffies' \in Nat /\ jiffies' <= Horizon
<1>1. jiffies' = U32(jiffies + 1) /\ jiffies < Horizon
    BY DEF Tick
<1>2. jiffies + 1 \in Nat /\ jiffies + 1 < Half /\ jiffies + 1 <= Horizon
    BY <1>1, SmallTimes, TimeAssumption DEF NoOverflow
<1>3. QED
    BY <1>1, <1>2, SmallWords

\* After a tick the sleepers that are left are not due, and in order.
LEMMA ClockTime ==
    ASSUME NoOverflow, TimeInv, IInv', Clock
    PROVE  TimeInv'
<1> DEFINE now == jiffies'
           st == WakeState(now)
           tk == WakeTicks(now)
           n == DueCount(now)
           r == StillAsleep(now)
           l == Len(sleepList)
<1>1. Tick
    BY DEF Clock, ClockBoot, ClockKeep, ClockSwitch
<1>2. now = jiffies + 1 /\ now \in Nat /\ now <= Horizon /\ sleepList' = r
    BY <1>1, TickOnTime DEF Tick
<1>3. IInv /\ TasksInv /\ now \in Int
    BY <1>2, IInvParts DEF TimeInv
<1> HIDE DEF now
<1>4. /\ CallState(st, tk)
      /\ \A u \in Tasks : /\ st[u] = "sleeping" <=> u \in ToSet(r)
                          /\ st[u] = "sleeping"
                                => state[u] = "sleeping" /\ tk[u] = ticks[u]
    BY <1>3, WakeEffect
<1>5. /\ sleepList \in Seq(Tasks) /\ l \in Nat
      /\ \A i \in 1 .. l : /\ sleepList[i] \in Tasks
                           /\ state[sleepList[i]] = "sleeping"
    BY <1>3, SleepersListed
<1>6. /\ n \in 0 .. l
      /\ r \in Seq(Tasks) /\ Len(r) = l - n
      /\ \A j \in 1 .. l - n : r[j] = sleepList[n + j]
    <2>1. n \in 0 .. l
        BY <1>3, WakeSplits
    <2>2. QED
        BY <1>5, <2>1, SuffixElements DEF StillAsleep
<1>7. ASSUME NEW j \in 1 .. l - n
      PROVE  n + j \in 1 .. l /\ ticks[r[j]] = ticks[sleepList[n + j]]
    BY <1>5, <1>6
<1>8. ASSUME NEW u \in Tasks, st[u] = "sleeping"
      PROVE  ticks[u] > now /\ tk[u] = ticks[u] /\ ticks[u] \in Nat /\ u # current
    <2>1. u \in ToSet(r) /\ tk[u] = ticks[u] /\ state[u] = "sleeping"
        BY <1>4, <1>8
    <2>2. u \in Asleep /\ u \notin Woken(now) /\ ticks[u] \in Nat
        BY <1>3, <2>1, WakeSplits, SmallTimes DEF Asleep
    <2>3. ticks[u] > now
        BY <1>2, <2>2, WakesTheDue
    <2>4. u # current
        BY <1>3, <2>1 DEF IInv, OneRunning
    <2>5. QED
        BY <2>1, <2>2, <2>3, <2>4
<1> HIDE DEF st, tk, n, r
<1>9. ASSUME NEW u \in Tasks, state'[u] = "sleeping"
       PROVE  st[u] = "sleeping" /\ ticks'[u] = ticks[u]
    <2>1. CASE ClockBoot
        <3>1. Schedule(st, tk)
            BY <2>1 DEF ClockBoot, st, tk, now
        <3>2. st[u] = "sleeping"
            BY <1>4, <1>9, <3>1, ScheduleEffect
        <3>3. ticks[u] > 0 /\ tk[u] = ticks[u]
            BY <1>2, <1>8, <3>2
        <3>4. QED
            BY <1>4, <3>1, <3>2, <3>3, ScheduleKeepsSleepers
    <2>2. ASSUME NEW t \in Tasks, ClockSwitch(t)
          PROVE  st[u] = "sleeping" /\ ticks'[u] = ticks[u]
        <3> DEFINE tp == [tk EXCEPT ![t] = Priority[t]]
        <3>1. Schedule(st, tp) /\ t = current
            BY <2>2 DEF ClockSwitch, st, tk, now
        <3>2. CallState(st, tp)
            BY <1>4, PriorityType DEF CallState
        <3>3. st[u] = "sleeping"
            BY <1>9, <3>1, <3>2, ScheduleEffect
        <3>4. ticks[u] > 0 /\ tk[u] = ticks[u] /\ u # t
            BY <1>2, <1>8, <3>1, <3>3
        <3>5. tp[u] = ticks[u]
            BY <1>4, <3>4 DEF CallState
        <3> HIDE DEF tp
        <3>6. QED
            BY <3>1, <3>2, <3>3, <3>4, <3>5, ScheduleKeepsSleepers
    <2>3. ASSUME NEW t \in Tasks, ClockKeep(t)
          PROVE  st[u] = "sleeping" /\ ticks'[u] = ticks[u]
        <3>1. /\ state' = st /\ t = current
              /\ ticks' = [tk EXCEPT ![t] = Decrement(ticks[t])]
            BY <2>3 DEF ClockKeep, st, tk, now
        <3>2. st[u] = "sleeping"
            BY <1>9, <3>1
        <3>3. tk[u] = ticks[u] /\ u # t
            BY <1>8, <3>1, <3>2
        <3>4. QED
            BY <1>4, <3>1, <3>2, <3>3 DEF CallState
    <2>4. QED
        BY <2>1, <2>2, <2>3 DEF Clock
<1>10. NoOversleep'
    BY <1>8, <1>9 DEF NoOversleep, now
<1>11. ASSUME NEW i \in 1 .. l - n, NEW j \in 1 .. l - n, i < j
       PROVE  ticks'[r[i]] <= ticks'[r[j]]
    <2>1. \A k \in 1 .. l - n : r[k] \in Tasks /\ st[r[k]] = "sleeping"
        BY <1>4, <1>6 DEF ToSet
    <2>2. \A u \in Tasks : state'[u] = "sleeping" <=> u \in ToSet(r)
        BY <1>2 DEF IInv, ListsMatchStates
    <2>3. \A k \in 1 .. l - n : r[k] \in ToSet(r)
        BY <1>6 DEF ToSet
    <2>4. /\ ticks'[r[i]] = ticks[sleepList[n + i]]
          /\ ticks'[r[j]] = ticks[sleepList[n + j]]
        BY <1>7, <1>9, <2>1, <2>2, <2>3
    <2>5. n + i \in 1 .. l /\ n + j \in 1 .. l /\ n + i < n + j
        BY <1>6, <1>7, <1>11
    <2>6. QED
        BY <2>4, <2>5 DEF TimeInv, SleepOrder
<1>12. SleepOrder'
    BY <1>2, <1>6, <1>11 DEF SleepOrder
<1>13. QED
    BY <1>2, <1>10, <1>12 DEF TimeInv, now

\* task_init establishes the order of the (empty) sleep list.
LEMMA TimeInit == NoOverflow /\ Init => TimeInv
<1> SUFFICES ASSUME Init PROVE TimeInv
    OBVIOUS
<1>1. IInv
    BY InitInv
<1>2. SleepOrder /\ NoOversleep
    BY DEF Init, SleepOrder, NoOversleep
<1>3. jiffies <= Horizon
    BY TimeAssumption DEF Init, Wrap
<1>4. QED
    BY <1>1, <1>2, <1>3 DEF TimeInv

\* Every step keeps the sleep list in order and leaves no sleeper that is
\* due.
LEMMA TimeNext == NoOverflow /\ TimeInv /\ [Next]_vars => TimeInv'
<1> SUFFICES ASSUME NoOverflow, TimeInv, [Next]_vars PROVE TimeInv'
    OBVIOUS
<1>1. IInv'
    BY NextInv DEF TimeInv
<1>2. CASE UNCHANGED vars
    BY <1>1, <1>2, TimesUntouched DEF vars
<1>3. CASE Clock
    BY <1>1, <1>3, ClockTime
<1>4. ASSUME NEW t \in Tasks, Start(t) PROVE TimeInv'
    BY <1>1, <1>4, TimesUntouched DEF Start
<1>5. ASSUME NEW t \in Tasks, Yield(t) PROVE TimeInv'
    <2>1. Schedule(state, ticks) /\ UNCHANGED <<jiffies, sleepList>>
        BY <1>5 DEF Yield
    <2>2. CallState(state, ticks)
        BY DEF TimeInv, IInv, TypeOK, OneRunning, ListsMatchStates, CallState,
               Word
    <2>3. QED
        BY <1>1, <2>1, <2>2, SchedulePassesBy
<1>6. ASSUME NEW t \in Users, TestBlock(t) PROVE TimeInv'
    <2> DEFINE st == [state EXCEPT ![t] = "blocked"]
    <2>1. Schedule(st, ticks) /\ UNCHANGED <<jiffies, sleepList>>
        BY <1>6 DEF TestBlock
    <2>2. t = current /\ t # Idle /\ t \in Tasks
        BY <1>6 DEF TestBlock, Users
    <2>3. /\ CallState(st, ticks)
          /\ \A u \in Tasks : st[u] = "sleeping" => state[u] = "sleeping"
          /\ state[t] # "sleeping"
        BY <2>2 DEF TimeInv, IInv, TypeOK, OneRunning, ListsMatchStates,
                    CallState, Word, States
    <2>4. \A u \in Tasks : state[u] = "sleeping" => st[u] = "sleeping"
        BY <2>3 DEF TimeInv, IInv, TypeOK
    <2> HIDE DEF st
    <2>5. QED
        BY <1>1, <2>1, <2>3, <2>4, SchedulePassesBy
<1>7. ASSUME NEW t \in Users, TestUnblock(t) PROVE TimeInv'
    <2>1. /\ state' = [state EXCEPT ![sysTask] = "ready"]
          /\ UNCHANGED <<jiffies, sleepList, ticks>>
        BY <1>7 DEF TestUnblock
    <2>2. \A u \in Tasks : state'[u] = "sleeping" => state[u] = "sleeping"
        BY <2>1 DEF TimeInv, IInv, TypeOK
    <2>3. QED
        BY <1>1, <2>1, <2>2, TimesUntouched
<1>8. ASSUME NEW t \in Users, NEW ms \in SleepMs, Sleep(t, ms) PROVE TimeInv'
    BY <1>1, <1>8, SleepTime
<1>9. QED
    BY <1>2, <1>3, <1>4, <1>5, <1>6, <1>7, <1>8 DEF Next, Call

\* No task sleeps past the time it asked to be woken at: a handler never
\* returns leaving a task on the sleep list whose time has come.
THEOREM SleepersAreEarly == NoOverflow => (Spec => []NoOversleep)
<1> SUFFICES ASSUME NoOverflow PROVE Spec => []NoOversleep
    OBVIOUS
<1>1. Init => TimeInv
    BY TimeInit
<1>2. TimeInv /\ [Next]_vars => TimeInv'
    BY TimeNext
<1>3. TimeInv => NoOversleep
    BY DEF TimeInv
<1>4. QED
    BY <1>1, <1>2, <1>3, PTL DEF Spec

(***************************************************************************)
(* The scheduler implements TaskSpec.                                      *)
(***************************************************************************)

\* The tasks that st gives the state name.
In(st, name) == {u \in Tasks : st[u] = name}

\* The wake-up times of the tasks that st and tk have asleep.
Alarms(st, tk) == [u \in In(st, "sleeping") |-> tk[u]]

\* Who runs and who is ready after schedule is what TaskSpec's Dispatch says,
\* of the tasks that the caller of schedule has left ready; and no time of a
\* task that sleeps changes unless it is 0.
LEMMA ScheduleDispatches ==
    ASSUME NEW st, NEW tk, CallState(st, tk), Schedule(st, tk),
           current \notin In(st, "ready"),
           \A u \in In(st, "sleeping") : tk[u] # 0
    PROVE  /\ current' \in IF In(st, "ready") = {} THEN {Idle}
                           ELSE In(st, "ready")
           /\ In(state', "ready")
                  = (In(st, "ready") \cup In(st, "running")) \ {current'}
           /\ Alarms(state', ticks') = Alarms(st, tk)
<1>1. In(st, "ready") = {u \in Tasks : Candidate(st, u)}
    BY DEF Candidate, In
<1>2. current' = TaskSearch(st, tk)
    BY DEF Schedule
<1>3. current' \in IF In(st, "ready") = {} THEN {Idle} ELSE In(st, "ready")
    BY <1>1, <1>2, SearchFinds
<1>4. \A u \in Tasks : state'[u] = IF u = current' THEN "running"
                      ELSE IF u = current /\ st[u] = "running" THEN "ready"
                      ELSE st[u]
    BY <1>2 DEF Schedule
<1>5. \A u \in Tasks : st[u] = "running" => u = current
    BY DEF CallState
<1>6. In(state', "ready")
         = (In(st, "ready") \cup In(st, "running")) \ {current'}
    BY <1>4, <1>5 DEF In
<1>7. Alarms(state', ticks') = Alarms(st, tk)
    <2>1. In(state', "sleeping") = In(st, "sleeping")
        BY ScheduleEffect DEF In
    <2>2. \A u \in In(st, "sleeping") : ticks'[u] = tk[u]
        BY ScheduleEffect DEF In
    <2>3. QED
        BY <2>1, <2>2 DEF Alarms
<1>8. QED
    BY <1>3, <1>6, <1>7

\* In every state of TimeInv the sleepers' times are positive, and the running
\* task is none of the ready ones.
LEMMA NowDispatchable ==
    ASSUME NoOverflow, TimeInv
    PROVE  /\ TasksInv
           /\ current \notin In(state, "ready")
           /\ In(state, "running") = {current} \cap Tasks
           /\ \A u \in In(state, "sleeping") : ticks[u] \in Nat \ {0}
<1>1. TasksInv
    BY IInvParts DEF TimeInv
<1>2. \A u \in In(state, "sleeping") : ticks[u] \in Nat \ {0}
    BY SmallTimes DEF In, TimeInv, NoOversleep
<1>3. QED
    BY <1>1, <1>2 DEF TasksInv, OneRunning, In

\* The initial state is TaskSpec's.
LEMMA InitPromised == Init => Abstract!Init
<1> SUFFICES ASSUME Init PROVE Abstract!Init
    OBVIOUS
<1>1. Asleep = {} /\ {u \in Tasks : state[u] = "ready"} = Tasks
    BY DEF Init, Asleep
<1>2. QED
    BY <1>1 DEF Init, Abstract!Init

\* TaskSpec's variables in terms of In and Alarms.
LEMMA Mapping ==
    /\ {u \in Tasks : state[u] = "ready"} = In(state, "ready")
    /\ {u \in Tasks : state'[u] = "ready"} = In(state', "ready")
    /\ [u \in Asleep |-> ticks[u]] = Alarms(state, ticks)
    /\ [u \in Asleep' |-> ticks'[u]] = Alarms(state', ticks')
    /\ Asleep = In(state, "sleeping")
BY DEF In, Alarms, Asleep

\* yield() is TaskSpec's Yield.
LEMMA YieldPromised ==
    ASSUME NoOverflow, TimeInv, NEW t \in Tasks, Yield(t)
    PROVE  Abstract!Yield
<1>1. /\ t = current /\ Schedule(state, ticks)
      /\ UNCHANGED <<jiffies, sysTask>>
    BY DEF Yield
<1>2. CallState(state, ticks)
    BY CallNow, NowDispatchable
<1>3. /\ current' \in IF In(state, "ready") = {} THEN {Idle}
                      ELSE In(state, "ready")
      /\ In(state', "ready")
            = (In(state, "ready") \cup ({current} \cap Tasks)) \ {current'}
      /\ Alarms(state', ticks') = Alarms(state, ticks)
    BY <1>1, <1>2, ScheduleDispatches, NowDispatchable
<1>4. QED
    BY <1>1, <1>3, Mapping
       DEF Abstract!Yield, Abstract!Dispatch, Abstract!Runner

\* sleep() is TaskSpec's Sleep, for the number of ticks that task_sleep makes
\* of the milliseconds.
LEMMA SleepPromised ==
    ASSUME NoOverflow, TimeInv, NEW t \in Users, NEW ms \in SleepMs, Sleep(t, ms)
    PROVE  Abstract!Sleep(TicksOf(ms))
<1> DEFINE target == S32(U32(jiffies + TicksOf(ms)))
           st == [state EXCEPT ![t] = "sleeping"]
           tk == [ticks EXCEPT ![t] = target]
<1>1. /\ t = current /\ t \in Tasks \ {Idle} /\ Schedule(st, tk)
      /\ UNCHANGED <<jiffies, sysTask>>
    BY DEF Sleep, Users
<1>2. target = jiffies + TicksOf(ms) /\ target \in Nat \ {0} /\ target \in Word
    BY SleepTarget
<1> HIDE DEF target
<1>3. /\ TasksInv /\ state[t] = "running"
      /\ state \in [Tasks -> States] /\ ticks \in [Tasks -> Word]
    BY <1>1, NowDispatchable DEF TasksInv, OneRunning, TypeOK, Word
<1>4. CallState(st, tk)
    BY <1>1, <1>2, <1>3 DEF TasksInv, OneRunning, CallState, States
<1>5. /\ In(st, "ready") = In(state, "ready")
      /\ In(st, "running") = {}
      /\ In(st, "sleeping") = In(state, "sleeping") \cup {t}
      /\ \A u \in In(st, "sleeping") :
            /\ tk[u] = IF u = t THEN target ELSE ticks[u]
            /\ tk[u] # 0
    BY <1>1, <1>2, <1>3, NowDispatchable DEF In
<1>6. Alarms(st, tk) = [u \in In(state, "sleeping") \cup {t} |->
                           IF u = t THEN target ELSE Alarms(state, ticks)[u]]
    BY <1>5 DEF Alarms
<1> HIDE DEF st, tk
<1>7. /\ current' \in IF In(state, "ready") = {} THEN {Idle}
                      ELSE In(state, "ready")
      /\ In(state', "ready") = In(state, "ready") \ {current'}
      /\ Alarms(state', ticks') = Alarms(st, tk)
    BY <1>1, <1>4, <1>5, ScheduleDispatches, NowDispatchable
<1>8. DOMAIN Alarms(state, ticks) = In(state, "sleeping")
    BY DEF Alarms
<1>9. QED
    BY <1>1, <1>2, <1>6, <1>7, <1>8, Mapping
       DEF Abstract!Sleep, Abstract!Dispatch

\* test() that blocks its caller is TaskSpec's Wait.
LEMMA WaitPromised ==
    ASSUME NoOverflow, TimeInv, NEW t \in Users, TestBlock(t)
    PROVE  Abstract!Wait
<1> DEFINE st == [state EXCEPT ![t] = "blocked"]
<1>1. /\ t = current /\ t \in Tasks \ {Idle} /\ Schedule(st, ticks)
      /\ sysTask = None /\ sysTask' = t /\ jiffies' = jiffies
    BY DEF TestBlock, Users
<1>2. /\ CallState(st, ticks) /\ state[t] = "running"
      /\ \A u \in Tasks : st[u] = IF u = t THEN "blocked" ELSE state[u]
    BY <1>1, CallBlocked, NowDispatchable
<1>3. /\ In(st, "ready") = In(state, "ready")
      /\ In(st, "running") = {}
      /\ In(st, "sleeping") = In(state, "sleeping")
    BY <1>1, <1>2, NowDispatchable DEF In
<1>4. Alarms(st, ticks) = Alarms(state, ticks)
    BY <1>3 DEF Alarms
<1> HIDE DEF st
<1>5. /\ current' \in IF In(state, "ready") = {} THEN {Idle}
                      ELSE In(state, "ready")
      /\ In(state', "ready") = In(state, "ready") \ {current'}
      /\ Alarms(state', ticks') = Alarms(state, ticks)
    BY <1>1, <1>2, <1>3, <1>4, ScheduleDispatches, NowDispatchable
<1>6. QED
    BY <1>1, <1>5, Mapping DEF Abstract!Wait, Abstract!Dispatch

\* test() that finds a task waiting is TaskSpec's Signal.
LEMMA SignalPromised ==
    ASSUME NoOverflow, TimeInv, NEW t \in Users, TestUnblock(t)
    PROVE  Abstract!Signal
<1>1. /\ t = current /\ t \in Tasks \ {Idle} /\ sysTask # None
      /\ state' = [state EXCEPT ![sysTask] = "ready"] /\ sysTask' = None
      /\ UNCHANGED <<current, ticks, jiffies>>
    BY DEF TestUnblock, Users
<1>2. sysTask \in Tasks /\ state[sysTask] = "blocked"
    BY <1>1 DEF TimeInv, IInv, TypeOK, OneRendezvous
<1>3. In(state', "ready") = In(state, "ready") \cup {sysTask}
      /\ In(state', "sleeping") = In(state, "sleeping")
    BY <1>1, <1>2 DEF In, TimeInv, IInv, TypeOK
<1>4. Alarms(state', ticks') = Alarms(state, ticks)
    BY <1>1, <1>3 DEF Alarms
<1>5. QED
    BY <1>1, <1>3, <1>4, Mapping DEF Abstract!Signal

\* task_wakeup as TaskSpec sees it: the tasks whose time has come are ready
\* and the others keep their times.
LEMMA WakePromised ==
    ASSUME NoOverflow, TimeInv, Tick,
           NEW st, st = WakeState(jiffies'), NEW tk, tk = WakeTicks(jiffies'),
           NEW due, due = {u \in In(state, "sleeping") : ticks[u] <= jiffies + 1}
    PROVE  /\ jiffies' = jiffies + 1 /\ sysTask' = sysTask
           /\ CallState(st, tk)
           /\ In(st, "ready") = In(state, "ready") \cup due
           /\ In(st, "running") = {current} \cap Tasks
           /\ In(st, "sleeping") = In(state, "sleeping") \ due
           /\ \A u \in In(st, "sleeping") : tk[u] = ticks[u]
           /\ current \notin In(st, "ready")
<1>1. jiffies' = jiffies + 1 /\ jiffies' \in Nat /\ sysTask' = sysTask
    BY TickOnTime DEF Tick
<1>2. TasksInv /\ CallState(st, tk)
    BY <1>1, WakeEffect, NowDispatchable
<1>3. Woken(jiffies') = due
    BY <1>1, WakesTheDue, Mapping
<1>4. \A u \in Tasks : st[u] = IF u \in due THEN "ready" ELSE state[u]
    BY <1>3 DEF WakeState
<1>5. \A u \in Tasks : tk[u] = IF u \in due THEN 0 ELSE ticks[u]
    BY <1>3 DEF WakeTicks
<1>6. \A u \in due : u \in Tasks /\ state[u] = "sleeping"
    BY DEF In
<1>7. /\ In(st, "ready") = In(state, "ready") \cup due
      /\ In(st, "running") = In(state, "running")
      /\ In(st, "sleeping") = In(state, "sleeping") \ due
      /\ \A u \in In(st, "sleeping") : tk[u] = ticks[u]
    BY <1>4, <1>5, <1>6 DEF In
<1>8. current \notin due
    BY <1>2, <1>6 DEF TasksInv, OneRunning
<1>9. QED
    BY <1>1, <1>2, <1>7, <1>8, NowDispatchable

\* What TaskSpec's Tick requires, in terms of In and Alarms.
LEMMA TickMapped ==
    ASSUME NEW due, due = {u \in In(state, "sleeping") : ticks[u] <= jiffies + 1},
           jiffies' = jiffies + 1, sysTask' = sysTask,
           Alarms(state', ticks')
               = [u \in In(state, "sleeping") \ due |-> ticks[u]],
           \/ /\ current' \in IF In(state, "ready") \cup due = {} THEN {Idle}
                              ELSE In(state, "ready") \cup due
              /\ In(state', "ready")
                    = ((In(state, "ready") \cup due) \cup ({current} \cap Tasks))
                           \ {current'}
           \/ /\ current \in Tasks /\ current' = current
              /\ In(state', "ready") = In(state, "ready") \cup due
    PROVE  Abstract!Tick
<1> DEFINE alarm == Alarms(state, ticks)
<1>1. DOMAIN alarm = In(state, "sleeping")
      /\ \A u \in DOMAIN alarm : alarm[u] = ticks[u]
    BY DEF Alarms
<1>2. {u \in DOMAIN alarm : alarm[u] <= jiffies + 1} = due
    BY <1>1
<1>3. Abstract!Restrict(alarm, DOMAIN alarm \ due) = Alarms(state', ticks')
    BY <1>1 DEF Abstract!Restrict
<1> HIDE DEF alarm
<1>4. alarm = [u \in Asleep |-> ticks[u]]
    BY Mapping DEF alarm
<1>5. QED
    BY <1>2, <1>3, <1>4, Mapping
       DEF Abstract!Tick, Abstract!Dispatch, Abstract!Runner

\* The clock handler, in each of its outcomes, is TaskSpec's Tick.
LEMMA ClockPromised ==
    ASSUME NoOverflow, TimeInv, Clock
    PROVE  Abstract!Tick
<1> DEFINE st == WakeState(jiffies')
           tk == WakeTicks(jiffies')
           due == {u \in In(state, "sleeping") : ticks[u] <= jiffies + 1}
<1>1. Tick
    BY DEF Clock, ClockBoot, ClockKeep, ClockSwitch
<1>2. /\ jiffies' = jiffies + 1 /\ sysTask' = sysTask
      /\ CallState(st, tk)
      /\ In(st, "ready") = In(state, "ready") \cup due
      /\ In(st, "running") = {current} \cap Tasks
      /\ In(st, "sleeping") = In(state, "sleeping") \ due
      /\ \A u \in In(st, "sleeping") : tk[u] = ticks[u]
      /\ current \notin In(st, "ready")
    BY <1>1, WakePromised
<1>3. \A u \in In(st, "sleeping") : ticks[u] # 0
    BY <1>2, NowDispatchable
<1> HIDE DEF st, tk, due
<1>4. ASSUME NEW tp, CallState(st, tp), Schedule(st, tp),
             \A u \in In(st, "sleeping") : tp[u] = ticks[u]
      PROVE  Abstract!Tick
    <2>1. /\ current' \in IF In(st, "ready") = {} THEN {Idle}
                          ELSE In(st, "ready")
          /\ In(state', "ready")
                = (In(st, "ready") \cup In(st, "running")) \ {current'}
          /\ Alarms(state', ticks') = Alarms(st, tp)
        BY <1>2, <1>3, <1>4, ScheduleDispatches
    <2>2. Alarms(st, tp) = [u \in In(state, "sleeping") \ due |-> ticks[u]]
        BY <1>2, <1>4 DEF Alarms
    <2>3. QED
        BY <1>2, <2>1, <2>2, TickMapped DEF due
<1>5. CASE ClockBoot
    <2>1. Schedule(st, tk)
        BY <1>5 DEF ClockBoot, st, tk
    <2>2. QED
        BY <1>2, <1>4, <2>1
<1>6. ASSUME NEW t \in Tasks, ClockSwitch(t) PROVE Abstract!Tick
    <2> DEFINE tp == [tk EXCEPT ![t] = Priority[t]]
    <2>1. Schedule(st, tp) /\ t = current
        BY <1>6 DEF ClockSwitch, st, tk
    <2>2. CallState(st, tp)
        BY <1>2, PriorityType DEF CallState
    <2>3. current \notin In(st, "sleeping")
        BY <1>2, <2>1 DEF In
    <2>4. \A u \in In(st, "sleeping") : tp[u] = ticks[u]
        BY <1>2, <2>1, <2>3 DEF CallState, In
    <2> HIDE DEF tp
    <2>5. QED
        BY <1>4, <2>1, <2>2, <2>4
<1>7. ASSUME NEW t \in Tasks, ClockKeep(t) PROVE Abstract!Tick
    <2>1. /\ state' = st /\ t = current /\ current' = current
          /\ ticks' = [tk EXCEPT ![t] = Decrement(ticks[t])]
        BY <1>7 DEF ClockKeep, st, tk
    <2>2. current \notin In(st, "sleeping")
        BY <1>2, <2>1 DEF In
    <2>3. \A u \in In(st, "sleeping") : ticks'[u] = ticks[u]
        BY <1>2, <2>1, <2>2 DEF CallState, In
    <2>4. Alarms(state', ticks') = [u \in In(state, "sleeping") \ due |-> ticks[u]]
        BY <1>2, <2>1, <2>3 DEF Alarms
    <2>5. QED
        BY <1>2, <2>1, <2>4, TickMapped DEF due
<1>8. QED
    BY <1>5, <1>6, <1>7 DEF Clock

\* Every step of the scheduler is a step of TaskSpec, or changes nothing that
\* TaskSpec speaks of.
LEMMA NextPromised ==
    ASSUME NoOverflow, TimeInv, [Next]_vars
    PROVE  [Abstract!Next]_(Abstract!vars)
<1>1. CASE UNCHANGED vars
    BY <1>1 DEF vars, Abstract!vars, Asleep
<1>2. ASSUME NEW t \in Tasks, Start(t) PROVE UNCHANGED Abstract!vars
    BY <1>2 DEF Start, Abstract!vars, Asleep
<1>3. CASE Clock
    BY <1>3, ClockPromised DEF Abstract!Next
<1>4. ASSUME NEW t \in Tasks, Yield(t) PROVE Abstract!Next
    BY <1>4, YieldPromised DEF Abstract!Next
<1>5. ASSUME NEW t \in Users, NEW ms \in SleepMs, Sleep(t, ms)
      PROVE  Abstract!Next
    BY <1>5, SleepPromised DEF Abstract!Next
<1>6. ASSUME NEW t \in Users, TestBlock(t) PROVE Abstract!Next
    BY <1>6, WaitPromised DEF Abstract!Next
<1>7. ASSUME NEW t \in Users, TestUnblock(t) PROVE Abstract!Next
    BY <1>7, SignalPromised DEF Abstract!Next
<1>8. QED
    BY <1>1, <1>2, <1>3, <1>4, <1>5, <1>6, <1>7 DEF Next, Call

\* The scheduler keeps TaskSpec's promise while no time overflows: a sleeper
\* becomes ready at the very tick it asked for, a ready task takes over
\* whenever there is one, and no task that can run is lost.
THEOREM SchedulerImplements == NoOverflow => (Spec => Promise)
<1> SUFFICES ASSUME NoOverflow PROVE Spec => Promise
    OBVIOUS
<1>1. Init => TimeInv
    BY TimeInit
<1>2. TimeInv /\ [Next]_vars => TimeInv'
    BY TimeNext
<1>3. Init => Abstract!Init
    BY InitPromised
<1>4. TimeInv /\ [Next]_vars => [Abstract!Next]_(Abstract!vars)
    BY NextPromised
<1>5. QED
    BY <1>1, <1>2, <1>3, <1>4, PTL DEF Spec, Promise, Abstract!Spec
=============================================================================
