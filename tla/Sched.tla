------------------------------- MODULE Sched -------------------------------
(***************************************************************************)
(* The task scheduler of Liunix: kernel/task.c, the clock interrupt of     *)
(* kernel/clock.c that drives it, and the system calls of kernel/gate.c    *)
(* that threads reach it by.                                               *)
(*                                                                         *)
(* The machine has one processor.  Interrupt and system-call gates clear   *)
(* IF, so that a handler is one atomic step; what interleaves is the clock *)
(* with the threads, and the threads with each other.  A handler that      *)
(* switches tasks leaves the old task inside the handler with nothing left *)
(* to change, so the whole handler is still one step.                      *)
(*                                                                         *)
(* Times are 32-bit machine words: jiffies is unsigned, task_t.ticks is    *)
(* signed and holds a remaining time slice, or a wake-up time while the    *)
(* task sleeps.  Half stands for 2^31.                                     *)
(***************************************************************************)
EXTENDS Integers, TaskLists

CONSTANTS
    Table,      \* task_table: the tasks task_init creates, in slot order
    Priority,   \* task_t.priority
    Boot,       \* the context that runs kernel_init; it is in no table
    None,       \* NULL
    Jiffy,      \* milliseconds in a clock tick
    SleepMs,    \* the arguments threads give to sleep()
    Half,       \* half of the range of a machine word
    Horizon     \* bound on jiffies; Wrap means that there is none

Wrap == 2 * Half
Tasks == ToSet(Table)
Idle == Table[1]
Users == Tasks \ {Idle}

ASSUME TableAssumption ==
    /\ Len(Table) \in Nat \ {0}
    /\ DOMAIN Table = 1 .. Len(Table)
    /\ \A i, j \in DOMAIN Table : Table[i] = Table[j] => i = j
    /\ Boot \notin Tasks
    /\ None \notin Tasks \cup {Boot}

ASSUME TimeAssumption ==
    /\ Half \in Nat \ {0}
    /\ Jiffy \in Nat \ {0}
    /\ SleepMs \subseteq Nat
    /\ Horizon \in 1 .. Wrap
    /\ Priority \in [Tasks -> 1 .. Half - 1]

VARIABLES
    current,    \* running_task(): the task whose stack is in use
    state,      \* task_t.state
    ticks,      \* task_t.ticks (int)
    jif,        \* task_t.jiffies (u32), the tick at which the task last ran
    jiffies,    \* the clock (u32)
    sleepList,  \* sleep_list, head first
    blockList,  \* block_list, head first
    sysTask,    \* the static variable task of sys_test
    intr        \* whether the thread runs with interrupts enabled

vars == <<current, state, ticks, jif, jiffies, sleepList, blockList,
          sysTask, intr>>

States == {"running", "ready", "blocked", "sleeping"}

-----------------------------------------------------------------------------
(* Machine arithmetic.                                                     *)

\* An integer in -Half .. Wrap stored in a u32.
U32(n) == n % Wrap

\* A u32 stored in an int.
S32(n) == IF n >= Half THEN n - Wrap ELSE n

\* ticks-- on an int.
Decrement(n) == IF n = -Half THEN Half - 1 ELSE n - 1

-----------------------------------------------------------------------------
(* task_search and schedule.  They take the states st and ticks tk that    *)
(* their caller has already assigned when it calls them.                   *)

\* A slot that the loop does not skip.
Candidate(st, u) == st[u] = "ready" /\ u # current

\* One turn of the loop of task_search: task is the choice so far.
Better(st, tk, task, ptr) ==
    IF /\ Candidate(st, ptr)
       /\ \/ task = None
          \/ tk[task] < tk[ptr]
          \/ jif[ptr] < jif[task]
    THEN ptr ELSE task

\* The choice after the whole table, NULL when it has no candidate.
SearchLoop(st, tk) ==
    LET task[i \in 0 .. Len(Table)] ==
            IF i = 0 THEN None ELSE Better(st, tk, task[i - 1], Table[i])
    IN  task[Len(Table)]

\* Mutant: no idle task to fall back on.
TaskSearch_NoIdle(st, tk) == SearchLoop(st, tk)

\* Without a candidate the idle task is taken, whatever its state.
TaskSearch(st, tk) ==
    LET found == SearchLoop(st, tk)
    IN  IF found \in Tasks /\ Candidate(st, found) THEN found ELSE Idle

\* Mutant: the task that schedule leaves stays TASK_RUNNING.
Schedule_KeepsState(st, tk) ==
    LET next == TaskSearch(st, tk)
    IN  /\ current' = next
        /\ state' = [st EXCEPT ![next] = "running"]
        /\ ticks' = [u \in Tasks |->
               IF u = current /\ tk[u] = 0 THEN Priority[u] ELSE tk[u]]

Schedule(st, tk) ==
    LET next == TaskSearch(st, tk)
    IN  /\ current' = next
        /\ state' = [u \in Tasks |->
               IF u = next THEN "running"
               ELSE IF u = current /\ st[u] = "running" THEN "ready"
               ELSE st[u]]
        /\ ticks' = [u \in Tasks |->
               IF u = current /\ tk[u] = 0 THEN Priority[u] ELSE tk[u]]

-----------------------------------------------------------------------------
(* The operations.                                                         *)

\* task_init.  The boot context then waits, with interrupts enabled, for
\* the clock.
Init ==
    /\ current = Boot
    /\ state = [u \in Tasks |-> "ready"]
    /\ ticks = Priority
    /\ jif = [u \in Tasks |-> 0]
    /\ jiffies = 0
    /\ sleepList = <<>>
    /\ blockList = <<>>
    /\ sysTask = None
    /\ intr = [u \in Tasks |-> FALSE]

\* A thread first runs inside the handler that switched to it, with IF
\* clear, until its set_interrupt_state(true).
Start(t) ==
    /\ t = current /\ ~intr[t]
    /\ intr' = [intr EXCEPT ![t] = TRUE]
    /\ UNCHANGED <<current, state, ticks, jif, jiffies, sleepList, blockList,
                   sysTask>>

\* yield()
Yield(t) ==
    /\ t = current /\ intr[t]
    /\ Schedule(state, ticks)
    /\ UNCHANGED <<jif, jiffies, sleepList, blockList, sysTask, intr>>

\* The number of clock ticks that task_sleep makes of its argument.
TicksOf(ms) == IF ms \div Jiffy > 0 THEN ms \div Jiffy ELSE 1

\* Mutant: task_sleep appends to the list.
SleepSlot_Append(target) == Len(sleepList) + 1

\* Where task_sleep links a task that is to wake at target (an int): before
\* the first sleeper that wakes later.
SleepSlot(target) == StopAt(sleepList, {u \in Tasks : ticks[u] > target})

\* sleep(ms)
Sleep(t, ms) ==
    LET target == S32(U32(jiffies + TicksOf(ms)))
    IN  /\ t = current /\ intr[t]
        /\ sleepList' = InsertAt(sleepList, SleepSlot(target), t)
        /\ Schedule([state EXCEPT ![t] = "sleeping"],
                    [ticks EXCEPT ![t] = target])
        /\ UNCHANGED <<jif, jiffies, blockList, sysTask, intr>>

\* test() when no task waits in it: the caller blocks.
TestBlock(t) ==
    /\ t = current /\ intr[t]
    /\ sysTask = None
    /\ sysTask' = t
    /\ blockList' = <<t>> \o blockList
    /\ Schedule([state EXCEPT ![t] = "blocked"], ticks)
    /\ UNCHANGED <<jif, jiffies, sleepList, intr>>

\* Mutant: sys_test does not reset its variable.
TestUnblock_KeepsTask(t) ==
    /\ t = current /\ intr[t]
    /\ sysTask # None
    /\ blockList' = Unlink(blockList, sysTask)
    /\ state' = [state EXCEPT ![sysTask] = "ready"]
    /\ UNCHANGED <<current, ticks, jif, jiffies, sleepList, sysTask, intr>>

\* test() when a task waits in it: that task becomes ready and the caller
\* goes on.
TestUnblock(t) ==
    /\ t = current /\ intr[t]
    /\ sysTask # None
    /\ blockList' = Unlink(blockList, sysTask)
    /\ state' = [state EXCEPT ![sysTask] = "ready"]
    /\ sysTask' = None
    /\ UNCHANGED <<current, ticks, jif, jiffies, sleepList, intr>>

\* Mutant: task_wakeup wakes one sleeper at most.
DueCount_One(now) ==
    IF sleepList # <<>> /\ U32(ticks[Head(sleepList)]) <= now THEN 1 ELSE 0

\* Mutant: task_wakeup wakes the sleepers whose time has passed.
DueCount_Late(now) ==
    StopAt(sleepList, {u \in Tasks : U32(ticks[u]) >= now}) - 1

\* task_wakeup at time now removes the sleepers ahead of the first one that
\* is not due.
DueCount(now) == StopAt(sleepList, {u \in Tasks : U32(ticks[u]) > now}) - 1
Woken(now) == {sleepList[i] : i \in 1 .. DueCount(now)}
StillAsleep(now) == SubSeq(sleepList, DueCount(now) + 1, Len(sleepList))
WakeState(now) ==
    [u \in Tasks |-> IF u \in Woken(now) THEN "ready" ELSE state[u]]
WakeTicks(now) == [u \in Tasks |-> IF u \in Woken(now) THEN 0 ELSE ticks[u]]

\* The part of clock_handler common to its three outcomes.
Tick ==
    /\ jiffies < Horizon
    /\ jiffies' = U32(jiffies + 1)
    /\ sleepList' = StillAsleep(jiffies')
    /\ jif' = [u \in Tasks |-> IF u = current THEN jiffies' ELSE jif[u]]
    /\ UNCHANGED <<blockList, sysTask, intr>>

\* The boot context has one tick, so that its first clock interrupt ends it.
ClockBoot ==
    /\ current = Boot
    /\ Tick
    /\ Schedule(WakeState(jiffies'), WakeTicks(jiffies'))

\* The running task has time left.
ClockKeep(t) ==
    /\ t = current /\ intr[t]
    /\ Decrement(ticks[t]) # 0
    /\ Tick
    /\ state' = WakeState(jiffies')
    /\ ticks' = [WakeTicks(jiffies') EXCEPT ![t] = Decrement(ticks[t])]
    /\ UNCHANGED current

\* The time slice of the running task ends.
ClockSwitch(t) ==
    /\ t = current /\ intr[t]
    /\ Decrement(ticks[t]) = 0
    /\ Tick
    /\ Schedule(WakeState(jiffies'),
                [WakeTicks(jiffies') EXCEPT ![t] = Priority[t]])

Clock == ClockBoot \/ \E t \in Tasks : ClockKeep(t) \/ ClockSwitch(t)

\* What a thread may call.  The idle thread only halts and yields.
Call(t) ==
    \/ Yield(t)
    \/ /\ t \in Users
       /\ \/ \E ms \in SleepMs : Sleep(t, ms)
          \/ TestBlock(t)
          \/ TestUnblock(t)

Next == Clock \/ \E t \in Tasks : Start(t) \/ Call(t)

Spec == Init /\ [][Next]_vars

\* The clock keeps ticking, and a thread that has the processor executes
\* its first instructions.
Fairness == WF_vars(Clock) /\ WF_vars(\E t \in Tasks : Start(t))

FairSpec == Spec /\ Fairness
-----------------------------------------------------------------------------
(* Properties.                                                             *)

\* Every variable has its type; in particular ticks stays an int and
\* jiffies a u32 through every conversion.
TypeOK ==
    /\ current \in Tasks \cup {Boot}
    /\ state \in [Tasks -> States]
    /\ ticks \in [Tasks -> -Half .. Half - 1]
    /\ jif \in [Tasks -> 0 .. Wrap - 1]
    /\ jiffies \in 0 .. Wrap - 1
    /\ sleepList \in Seq(Tasks)
    /\ blockList \in Seq(Tasks)
    /\ sysTask \in Tasks \cup {None}
    /\ intr \in [Tasks -> BOOLEAN]

\* TASK_RUNNING is the state of the task whose stack is in use and of no
\* other: schedule demotes the task that it leaves on every path.
OneRunning == \A u \in Tasks : state[u] = "running" <=> u = current

\* A task is linked on the list that its state names, once, and on no other.
\* The assertions that a node is unlinked before task_block and task_sleep
\* link it, and that it is linked when list_remove takes it out, rest on
\* this; so does the idle task's being there to fall back on.
ListsMatchStates ==
    /\ \A u \in Tasks :
         /\ state[u] = "sleeping" <=> u \in ToSet(sleepList)
         /\ state[u] = "blocked" <=> u \in ToSet(blockList)
    /\ IsInjective(sleepList)
    /\ IsInjective(blockList)
    /\ state[Idle] \in {"ready", "running"}

\* sys_test keeps the one task that is blocked in it in its variable, so
\* that the next caller unblocks a task that is blocked, and no task is left
\* blocked with nobody to unblock it.
OneRendezvous ==
    \A u \in Tasks : state[u] = "blocked" <=> sysTask = u

\* The times of the model are too small for the machine word to overflow.
NoOverflow ==
    /\ Horizon < Half
    /\ \A ms \in SleepMs : Horizon + TicksOf(ms) < Half

\* The sleep list is in the order of the wake-up times.
SleepOrder ==
    \A i, j \in 1 .. Len(sleepList) :
        i < j => ticks[sleepList[i]] <= ticks[sleepList[j]]

\* When a handler is over, no sleeper's time has come: task_wakeup may stop
\* at the first sleeper that is not due because task_sleep keeps the list
\* in the order of the wake-up times.
NoOversleep == \A u \in Tasks : state[u] = "sleeping" => ticks[u] > jiffies

\* No thread sleeps for ever, also across the overflow of the clock: a
\* sleeper that the order of the list hides behind a later one is found when
\* the clock comes round.
SleepersWake ==
    \A u \in Users : []<>(state[u] # "sleeping")

-----------------------------------------------------------------------------
(* What comments of the code promise and the code does not do.             *)

\* "find the tasks on the sleep list whose ticks are at most jiffies and let
\* them run" (task.c, task_wakeup): after a tick no due sleeper is asleep.
\* task_sleep sorts by signed times and task_wakeup compares unsigned ones.
DueSleepersWake ==
    [][jiffies' # jiffies =>
          \A u \in Tasks :
             state'[u] = "sleeping" => U32(ticks'[u]) > jiffies']_vars

\* "remaining time slice" (task.h, ticks): what remains of the slice of a
\* running task is never negative.  task_wakeup leaves 0, the first tick makes
\* that -1, and the test for 0 no longer sees the end of the slice.
SliceRemains == current \in Tasks => ticks[current] >= 0
=============================================================================
