---------------------------- MODULE MutexProofs ----------------------------
(***************************************************************************)
(* The mutex and the reentrant lock exclude, and lose no waiter, for every *)
(* table of tasks, every depth of nesting and wherever the clock           *)
(* interrupts a thread.                                                    *)
(***************************************************************************)
EXTENDS MutexRefinement, SchedProofs

(***************************************************************************)
(* The owner: what value, holder, repeat and the place of every thread in  *)
(* the code say of it.  Nothing here depends on the scheduler.             *)
(***************************************************************************)

OwnerTypes ==
    /\ pc \in [Tasks -> Points]
    /\ value \in BOOLEAN
    /\ holder \in Tasks \cup {None}
    /\ repeat \in 0 .. MaxRepeat

\* MutualExclusion and HolderConsistent need each other, and that a lock
\* nobody holds is not nested.
OwnerInv ==
    /\ OwnerTypes
    /\ MutualExclusion
    /\ HolderConsistent
    /\ holder = None => repeat = 0

\* lock_init: nobody owns the lock.
LEMMA OwnerInit == LockInit => OwnerInv
<1> SUFFICES ASSUME LockInit PROVE OwnerInv
    OBVIOUS
<1>1. /\ pc = [u \in Tasks |-> "run"] /\ value = FALSE
      /\ holder = None /\ repeat = 0
    BY DEF LockInit
<1>2. OwnerTypes
    <2>1. 0 \in 0 .. MaxRepeat
        BY RepeatAssumption
    <2>2. pc \in [Tasks -> Points]
        BY <1>1 DEF Points
    <2>3. QED
        BY <1>1, <2>1, <2>2 DEF OwnerTypes
<1>3. \A t \in Tasks : holder # t /\ pc[t] = "run"
    BY <1>1, TableAssumption
<1>4. MutualExclusion /\ HolderConsistent
    BY <1>1, <1>3 DEF MutualExclusion, HolderConsistent, Owns
<1>5. QED
    BY <1>1, <1>2, <1>4 DEF OwnerInv

\* A thread that finds value false becomes the only owner.
LEMMA LockOwner ==
    ASSUME OwnerInv, NEW t \in Tasks, MutexLock(t)
    PROVE  OwnerInv'
<1>1. /\ pc[t] \in {"lock", "retry"} /\ ~ value /\ value' = TRUE
      /\ pc' = [pc EXCEPT ![t] = "locked"]
      /\ holder' = holder /\ repeat' = repeat
    BY DEF MutexLock
<1>2. \A u \in Tasks : ~ Owns(u)
    BY <1>1 DEF OwnerInv, MutualExclusion
<1>3. holder = None /\ repeat = 0
    BY <1>2 DEF OwnerInv, OwnerTypes, Owns
<1>4. OwnerTypes'
    BY <1>1 DEF OwnerInv, OwnerTypes, Points
<1>5. \A u \in Tasks : pc'[u] = IF u = t THEN "locked" ELSE pc[u]
    BY <1>1 DEF OwnerInv, OwnerTypes
<1>6. \A u \in Tasks : Owns(u)' <=> u = t
    BY <1>1, <1>2, <1>3, <1>5, TableAssumption DEF Owns
<1>7. MutualExclusion'
    BY <1>1, <1>6 DEF MutualExclusion
<1>8. HolderConsistent'
    BY <1>1, <1>2, <1>3, <1>5, TableAssumption DEF HolderConsistent, Owns
<1>9. QED
    BY <1>1, <1>3, <1>4, <1>7, <1>8 DEF OwnerInv

\* A step of the owner, and of no other thread, that leaves value as it is
\* and leaves the thread the owner.
LEMMA OwnerGoesOn ==
    ASSUME OwnerInv, NEW t \in Tasks, Owns(t), Owns(t)',
           OwnerTypes', value' = value, holder' \in {t, None},
           \A u \in Tasks \ {t} : pc'[u] = pc[u]
    PROVE  MutualExclusion'
<1>1. value /\ \A u \in Tasks : Owns(u) <=> u = t
    BY DEF OwnerInv, MutualExclusion
<1>2. ASSUME NEW u \in Tasks, u # t PROVE ~ Owns(u)'
    BY <1>1, <1>2, TableAssumption DEF Owns
<1>3. QED
    BY <1>1, <1>2 DEF MutualExclusion

\* While a thread owns the lock, what the lock's fields say of the others is
\* that they are outside of lock_acquire and lock_release, or waiting.
LEMMA OthersOutside ==
    ASSUME OwnerInv, NEW t \in Tasks, Owns(t), NEW u \in Tasks, u # t
    PROVE  holder # u /\ pc[u] \notin {"locked", "held", "drop", "unlock"}
BY DEF OwnerInv, MutualExclusion, Owns

\* Every step of lock_acquire and lock_release keeps the owner consistent.
LEMMA OwnerStep ==
    ASSUME OwnerInv, NEW t \in Users, LockStep(t)
    PROVE  OwnerInv'
<1>0. /\ t \in Tasks /\ None \notin Tasks /\ OwnerTypes
      /\ \A p : [pc EXCEPT ![t] = p][t] = p
      /\ \A p : \A u \in Tasks : u # t => [pc EXCEPT ![t] = p][u] = pc[u]
    BY TableAssumption DEF Users, OwnerInv, OwnerTypes
<1>1. CASE MutexLock(t)
    BY <1>0, <1>1, LockOwner
<1>2. CASE MutexWait(t)
    <2>1. /\ pc[t] \in {"lock", "retry"} /\ pc' = [pc EXCEPT ![t] = "retry"]
          /\ UNCHANGED <<value, holder, repeat>>
        BY <1>2 DEF MutexWait
    <2>2. OwnerTypes'
        BY <1>0, <2>1 DEF OwnerTypes, Points
    <2>3. ~ Owns(t) /\ \A u \in Tasks : Owns(u)' <=> Owns(u)
        BY <1>0, <2>1 DEF OwnerInv, HolderConsistent, Owns
    <2>4. MutualExclusion'
        BY <2>1, <2>3 DEF OwnerInv, MutualExclusion
    <2>5. HolderConsistent'
        BY <1>0, <2>1, <2>3 DEF OwnerInv, HolderConsistent, Owns
    <2>6. QED
        BY <2>1, <2>2, <2>4, <2>5 DEF OwnerInv
<1>3. CASE MutexUnlockFree(t) \/ MutexUnlockWake(t)
    <2>1. /\ pc[t] = "unlock" /\ pc' = [pc EXCEPT ![t] = "run"]
          /\ value' = FALSE /\ UNCHANGED <<holder, repeat>>
        BY <1>3 DEF MutexUnlockFree, MutexUnlockWake, ReleaseOrder
    <2>2. OwnerTypes'
        BY <1>0, <2>1 DEF OwnerTypes, Points
    <2>3. holder = None /\ Owns(t)
        BY <1>0, <2>1 DEF OwnerInv, HolderConsistent, Owns
    <2>4. \A u \in Tasks : ~ Owns(u)'
        BY <1>0, <2>1, <2>3, OthersOutside DEF Owns
    <2>5. MutualExclusion'
        BY <2>1, <2>4 DEF MutualExclusion
    <2>6. HolderConsistent'
        BY <2>4 DEF HolderConsistent, Owns
    <2>7. QED
        BY <2>1, <2>2, <2>5, <2>6 DEF OwnerInv
<1>4. CASE Acquire(t)
    <2>1. /\ pc[t] = "run" /\ holder # t /\ pc' = [pc EXCEPT ![t] = "lock"]
          /\ UNCHANGED <<value, holder, repeat>>
        BY <1>4 DEF Acquire, CanCall
    <2>2. OwnerTypes'
        BY <1>0, <2>1 DEF OwnerTypes, Points
    <2>3. \A u \in Tasks : Owns(u)' <=> Owns(u)
        BY <1>0, <2>1 DEF Owns
    <2>4. MutualExclusion'
        BY <2>1, <2>3 DEF OwnerInv, MutualExclusion
    <2>5. HolderConsistent'
        BY <1>0, <2>1 DEF OwnerInv, HolderConsistent
    <2>6. QED
        BY <2>1, <2>2, <2>4, <2>5 DEF OwnerInv
<1>5. CASE AcquireAgain(t)
    <2>1. /\ pc[t] = "run" /\ holder = t /\ repeat < MaxRepeat
          /\ repeat' = repeat + 1 /\ UNCHANGED <<pc, value, holder>>
        BY <1>5 DEF AcquireAgain, CanCall
    <2>2. OwnerTypes' /\ repeat' > 0
        BY <1>0, <2>1, RepeatAssumption DEF OwnerTypes
    <2>3. Owns(t) /\ Owns(t)'
        BY <2>1 DEF Owns
    <2>4. MutualExclusion'
        BY <1>0, <2>1, <2>2, <2>3, OwnerGoesOn
    <2>5. HolderConsistent'
        BY <1>0, <2>1, <2>2, <2>3, OthersOutside DEF HolderConsistent
    <2>6. QED
        BY <1>0, <2>1, <2>2, <2>4, <2>5 DEF OwnerInv
<1>6. CASE SetHolder(t)
    <2>1. /\ pc[t] = "locked" /\ pc' = [pc EXCEPT ![t] = "held"]
          /\ holder' = t /\ UNCHANGED <<value, repeat>>
        BY <1>6 DEF SetHolder
    <2>2. OwnerTypes'
        BY <1>0, <2>1 DEF OwnerTypes, Points
    <2>3. Owns(t) /\ Owns(t)' /\ repeat = 0
        BY <1>0, <2>1 DEF OwnerInv, HolderConsistent, Owns
    <2>4. MutualExclusion'
        BY <1>0, <2>1, <2>2, <2>3, OwnerGoesOn
    <2>5. HolderConsistent'
        BY <1>0, <2>1, <2>3, OthersOutside DEF HolderConsistent
    <2>6. QED
        BY <1>0, <2>1, <2>2, <2>4, <2>5 DEF OwnerInv
<1>7. CASE SetRepeat(t)
    <2>1. /\ pc[t] = "held" /\ pc' = [pc EXCEPT ![t] = "run"]
          /\ repeat' = 1 /\ UNCHANGED <<value, holder>>
        BY <1>7 DEF SetRepeat
    <2>2. OwnerTypes'
        BY <1>0, <2>1, RepeatAssumption DEF OwnerTypes, Points
    <2>3. Owns(t) /\ Owns(t)' /\ holder = t
        BY <1>0, <2>1 DEF OwnerInv, HolderConsistent, Owns
    <2>4. MutualExclusion'
        BY <1>0, <2>1, <2>2, <2>3, OwnerGoesOn
    <2>5. HolderConsistent'
        BY <1>0, <2>1, <2>3, OthersOutside DEF HolderConsistent
    <2>6. QED
        BY <1>0, <2>1, <2>2, <2>3, <2>4, <2>5 DEF OwnerInv
<1>8. CASE Release(t)
    <2>1. /\ pc[t] = "run" /\ holder = t /\ repeat' = repeat - 1
          /\ pc' = [pc EXCEPT ![t] = IF repeat = 1 THEN "drop" ELSE "run"]
          /\ UNCHANGED <<value, holder>>
        BY <1>8 DEF Release, CanCall, ReleaseOrder
    <2>2. Owns(t) /\ Owns(t)' /\ repeat > 0
        BY <1>0, <2>1 DEF OwnerInv, HolderConsistent, Owns
    <2>3. OwnerTypes'
        BY <1>0, <2>1, <2>2, RepeatAssumption DEF OwnerTypes, Points
    <2>4. MutualExclusion'
        BY <1>0, <2>1, <2>2, <2>3, OwnerGoesOn
    <2>5. repeat = 1 => repeat' = 0
        BY <2>1
    <2>6. repeat # 1 => repeat' > 0
        BY <1>0, <2>1, <2>2, RepeatAssumption DEF OwnerTypes
    <2>7. pc'[t] = IF repeat = 1 THEN "drop" ELSE "run"
        BY <1>0, <2>1
    <2>8. HolderConsistent'
        BY <1>0, <2>1, <2>2, <2>5, <2>6, <2>7, OthersOutside
           DEF HolderConsistent
    <2>9. QED
        BY <1>0, <2>1, <2>3, <2>4, <2>8 DEF OwnerInv
<1>9. CASE DropHolder(t)
    <2>1. /\ pc[t] = "drop" /\ pc' = [pc EXCEPT ![t] = "unlock"]
          /\ holder' = None /\ UNCHANGED <<value, repeat>>
        BY <1>9 DEF DropHolder, ReleaseOrder
    <2>2. OwnerTypes'
        BY <1>0, <2>1 DEF OwnerTypes, Points
    <2>3. Owns(t) /\ Owns(t)' /\ repeat = 0
        BY <1>0, <2>1 DEF OwnerInv, HolderConsistent, Owns
    <2>4. MutualExclusion'
        BY <1>0, <2>1, <2>2, <2>3, OwnerGoesOn
    <2>5. HolderConsistent'
        BY <1>0, <2>1, <2>3, OthersOutside DEF HolderConsistent
    <2>6. QED
        BY <2>1, <2>2, <2>3, <2>4, <2>5 DEF OwnerInv
<1>10. QED
    BY <1>1, <1>2, <1>3, <1>4, <1>5, <1>6, <1>7, <1>8, <1>9 DEF LockStep

\* Steps outside of lock_acquire and lock_release leave the owner alone.
LEMMA OwnerUntouched ==
    ASSUME OwnerInv, UNCHANGED lockVars
    PROVE  OwnerInv'
BY DEF OwnerInv, OwnerTypes, MutualExclusion, HolderConsistent, Owns, lockVars

(***************************************************************************)
(* The waiters: their list, the scheduler's states and their places in the *)
(* code.                                                                   *)
(***************************************************************************)

WaiterTypes ==
    /\ pc \in [Tasks -> Points]
    /\ waiters \in Seq(Tasks)

\* sys_test's variable names the task that is blocked in it, though others
\* are blocked for the mutex.
TestBlocked ==
    \A u \in Tasks : sysTask = u <=> state[u] = "blocked" /\ pc[u] # "retry"

QueueInv == TasksInv /\ WaiterTypes /\ WaitersConsistent /\ TestBlocked

\* A thread that is inside mutex_lock and may run.
Retries(t) == pc[t] = "retry" /\ state[t] \in {"ready", "running"}

\* Whether a task may run is the complement of what holds it up.
LEMMA MayRun ==
    ASSUME TasksInv, NEW t \in Tasks
    PROVE  state[t] \in {"ready", "running"} <=> t \notin Asleep \cup Blocked
BY DEF TasksInv, TypeOK, States, Asleep, Blocked

\* The same in terms of the sets of blocked and sleeping tasks.
QueueSets ==
    /\ TasksInv /\ WaiterTypes
    /\ \A u \in Tasks :
         /\ u \in ToSet(waiters) <=> u \in Blocked /\ pc[u] = "retry"
         /\ u \in ToSet(blockList) <=> u \in Blocked /\ pc[u] # "retry"
         /\ sysTask = u <=> u \in Blocked /\ pc[u] # "retry"
         /\ pc[u] = "retry" => u \notin Asleep
    /\ IsInjective(waiters) /\ IsInjective(blockList)

\* They are the same before and after a step.
LEMMA QueueParts == (QueueInv <=> QueueSets) /\ (QueueSets' => QueueInv')
<1>1. \A u \in Tasks : /\ u \in Blocked <=> state[u] = "blocked"
                       /\ u \in Asleep <=> state[u] = "sleeping"
                       /\ u \in Blocked' <=> state'[u] = "blocked"
                       /\ u \in Asleep' <=> state'[u] = "sleeping"
    BY DEF Blocked, Asleep
<1>2. QueueInv <=> QueueSets
    BY <1>1 DEF QueueSets, QueueInv, WaitersConsistent, TestBlocked, TasksInv
<1>3. QueueSets' => QueueInv'
    BY <1>1 DEF QueueSets, QueueInv, WaitersConsistent, TestBlocked, TasksInv
<1>4. QED
    BY <1>2, <1>3

\* lock_init and task_init: nobody waits.
LEMMA QueueInit == LockInit => QueueInv
<1> SUFFICES ASSUME LockInit PROVE QueueInv
    OBVIOUS
<1>1. /\ Init /\ pc = [u \in Tasks |-> "run"] /\ waiters = <<>>
    BY DEF LockInit
<1>2. IInv
    BY <1>1, InitInv
<1>3. TasksInv /\ Blocked = {} /\ ToSet(blockList) = {}
      /\ IsInjective(blockList)
    BY <1>1, <1>2, IInvParts, BlockListMatches, TableAssumption DEF Init
<1>4. ToSet(waiters) = {} /\ IsInjective(waiters) /\ waiters \in Seq(Tasks)
    BY <1>1 DEF ToSet, IsInjective
<1>5. \A u \in Tasks : pc[u] = "run" /\ sysTask # u
    BY <1>1, TableAssumption DEF Init
<1>6. WaiterTypes
    BY <1>1, <1>4 DEF WaiterTypes, Points
<1>7. QueueSets
    BY <1>3, <1>4, <1>5, <1>6 DEF QueueSets
<1>8. QED
    BY <1>7, QueueParts

\* A scheduler step in which the blocked tasks stay as they are and no
\* thread inside mutex_lock falls asleep.
LEMMA QueueUntouched ==
    ASSUME QueueInv, TasksInv', Blocked' = Blocked,
           \A u \in Tasks : u \in Asleep' => u \in Asleep \/ pc[u] = "run",
           UNCHANGED <<blockList, sysTask, lockVars>>
    PROVE  QueueInv'
<1>1. UNCHANGED <<pc, waiters>> /\ WaiterTypes'
    BY DEF lockVars, QueueInv, WaiterTypes
<1>2. QueueSets
    BY QueueParts
<1> USE DEF QueueSets
<1>3. \A u \in Tasks : pc[u] = "retry" => u \notin Asleep'
    BY <1>2
<1>4. QED
    BY <1>1, <1>2, <1>3, QueueParts

\* A thread that could run inside mutex_lock still can, unless it blocked.
LEMMA RetriesStay ==
    ASSUME QueueInv, QueueInv', NEW u \in Tasks, Retries(u), pc'[u] = pc[u],
           u \in Blocked' => u \in Blocked
    PROVE  Retries(u)'
<1>1. u \notin Blocked /\ pc'[u] = "retry"
    BY MayRun DEF Retries, QueueInv
<1>2. state'[u] \in States /\ state'[u] # "blocked"
    BY <1>1 DEF QueueInv, TasksInv, TypeOK, Blocked
<1>3. state'[u] # "sleeping"
    BY <1>1 DEF QueueInv, WaitersConsistent
<1>4. QED
    BY <1>1, <1>2, <1>3 DEF Retries, States

\* test() that blocks its caller, outside of the lock's functions.
LEMMA QueueTestBlock ==
    ASSUME QueueInv, NEW t \in Users, pc[t] = "run", TestBlock(t),
           UNCHANGED lockVars
    PROVE  QueueInv' /\ Blocked' = Blocked \cup {t}
<1>1. t \in Tasks /\ t = current /\ t \notin Blocked
    BY DEF TestBlock, Users, QueueInv, TasksInv, OneRunning, Blocked
<1>2. QueueSets
    BY QueueParts
<1> USE DEF QueueSets
<1>3. /\ TasksInv' /\ Asleep' = Asleep /\ Blocked' = Blocked \cup {t}
      /\ sysTask = None /\ sysTask' = t
      /\ ToSet(blockList') = ToSet(blockList) \cup {t}
      /\ IsInjective(blockList')
    <2>1. t \notin ToSet(blockList)
        BY <1>1, <1>2
    <2>2. QED
        BY <1>2, <2>1, TestBlockTasks
<1>4. UNCHANGED <<pc, waiters>> /\ WaiterTypes'
    BY DEF lockVars, QueueInv, WaiterTypes
<1>5. \A u \in Tasks : ~ (u \in Blocked /\ pc[u] # "retry")
    BY <1>2, <1>3, TableAssumption
<1>6. QED
    BY <1>1, <1>2, <1>3, <1>4, <1>5, QueueParts

\* test() that unblocks the task blocked in it.
LEMMA QueueTestUnblock ==
    ASSUME QueueInv, NEW t \in Users, TestUnblock(t), UNCHANGED lockVars
    PROVE  QueueInv' /\ Blocked' \subseteq Blocked
<1>1. sysTask \in Tasks
    BY DEF TestUnblock, QueueInv, TasksInv, TypeOK
<1>2. QueueSets
    BY QueueParts
<1> USE DEF QueueSets
<1>3. sysTask \in Blocked /\ sysTask \in ToSet(blockList)
      /\ pc[sysTask] # "retry"
    BY <1>1, <1>2
<1>4. /\ TasksInv' /\ Asleep' = Asleep
      /\ Blocked' = Blocked \ {sysTask} /\ sysTask' = None
      /\ ToSet(blockList') = ToSet(blockList) \ {sysTask}
      /\ IsInjective(blockList')
    BY <1>2, <1>3, TestUnblockTasks
<1>5. UNCHANGED <<pc, waiters>> /\ WaiterTypes'
    BY DEF lockVars, QueueInv, WaiterTypes
<1>6. \A u \in Tasks : u \in Blocked /\ pc[u] # "retry" => u = sysTask
    BY <1>2
<1>7. \A u \in Tasks : sysTask' # u
    BY <1>4, TableAssumption
<1>8. QED
    BY <1>2, <1>3, <1>4, <1>5, <1>6, <1>7, QueueParts

\* What threads do outside of the lock's functions, and the clock, keep the
\* waiters consistent and block no thread that is inside mutex_lock.
LEMMA QueueCall ==
    ASSUME QueueInv, LockClock \/ \E t \in Tasks : LockCall(t)
    PROVE  /\ QueueInv' /\ UNCHANGED lockVars
           /\ \A u \in Tasks :
                pc[u] = "retry" => (u \in Blocked' => u \in Blocked)
<1>1. TasksInv /\ UNCHANGED lockVars
    BY DEF QueueInv, LockClock, LockCall
<1>2. CASE LockClock
    <2>1. /\ TasksInv' /\ Asleep' \subseteq Asleep /\ Blocked' = Blocked
          /\ UNCHANGED <<blockList, sysTask>>
        BY <1>1, <1>2, ClockTasks DEF LockClock
    <2>2. QED
        BY <1>1, <2>1, QueueUntouched
<1>3. ASSUME NEW t \in Tasks, pc[t] = "run", Start(t)
      PROVE  QueueInv' /\ Blocked' = Blocked
    BY <1>1, <1>3, StartTasks, QueueUntouched
<1>4. ASSUME NEW t \in Tasks, pc[t] = "run", Yield(t)
      PROVE  QueueInv' /\ Blocked' = Blocked
    BY <1>1, <1>4, YieldTasks, QueueUntouched
<1>5. ASSUME NEW t \in Users, pc[t] = "run", NEW ms \in SleepMs, Sleep(t, ms)
      PROVE  QueueInv' /\ Blocked' = Blocked
    BY <1>1, <1>5, SleepTasks, QueueUntouched
<1>6. ASSUME NEW t \in Users, pc[t] = "run", TestBlock(t)
      PROVE  QueueInv' /\ Blocked' = Blocked \cup {t}
    BY <1>1, <1>6, QueueTestBlock
<1>7. ASSUME NEW t \in Users, pc[t] = "run", TestUnblock(t)
      PROVE  QueueInv' /\ Blocked' \subseteq Blocked
    BY <1>1, <1>7, QueueTestUnblock
<1>8. ASSUME NEW t \in Tasks, LockCall(t)
      PROVE  /\ QueueInv'
             /\ \A u \in Tasks :
                  pc[u] = "retry" => (u \in Blocked' => u \in Blocked)
    BY <1>3, <1>4, <1>5, <1>6, <1>7, <1>8 DEF LockCall, Call
<1>9. QED
    BY <1>1, <1>2, <1>8

\* A step of the running thread that moves only its place in the code.
LEMMA QueueMoves ==
    ASSUME QueueInv, NEW t \in Tasks, t = current, UNCHANGED <<vars, waiters>>,
           NEW p \in Points, pc' = [pc EXCEPT ![t] = p]
    PROVE  QueueInv'
<1>1. QueueSets
    BY QueueParts
<1> USE DEF QueueSets
<1>2. /\ UNCHANGED <<blockList, sysTask, waiters>>
      /\ Blocked' = Blocked /\ Asleep' = Asleep
    BY DEF vars, Blocked, Asleep
<1>3. TasksInv'
    BY DEF vars, QueueInv, TasksInv, TypeOK, OneRunning
<1>4. t \notin Blocked /\ t \notin Asleep
    BY DEF QueueInv, TasksInv, OneRunning, Blocked, Asleep
<1>5. WaiterTypes' /\ \A u \in Tasks : u # t => pc'[u] = pc[u]
    BY DEF QueueInv, WaiterTypes
<1>6. \A u \in Tasks :
        /\ u \in ToSet(waiters') <=> u \in Blocked' /\ pc'[u] = "retry"
        /\ u \in ToSet(blockList') <=> u \in Blocked' /\ pc'[u] # "retry"
        /\ sysTask' = u <=> u \in Blocked' /\ pc'[u] # "retry"
        /\ pc'[u] = "retry" => u \notin Asleep'
    BY <1>1, <1>2, <1>4, <1>5
<1>7. QED
    BY <1>1, <1>2, <1>3, <1>5, <1>6, QueueParts

\* mutex_lock puts the caller at the head of the waiters.
LEMMA QueueWait ==
    ASSUME QueueInv, NEW t \in Users, MutexWait(t)
    PROVE  QueueInv'
<1> DEFINE st == [state EXCEPT ![t] = "blocked"]
<1>1. /\ t \in Tasks /\ t = current
      /\ waiters' = <<t>> \o waiters
      /\ pc' = [pc EXCEPT ![t] = "retry"]
      /\ Schedule(st, ticks)
      /\ UNCHANGED <<jif, jiffies, sleepList, blockList, sysTask, intr>>
    BY DEF MutexWait, Users
<1>2. QueueSets
    BY QueueParts
<1> USE DEF QueueSets
<1>3. /\ CallState(st, ticks) /\ state[t] = "running"
      /\ \A u \in Tasks : st[u] = IF u = t THEN "blocked" ELSE state[u]
    BY <1>1, <1>2, CallBlocked
<1>4. /\ \A u \in Tasks : st[u] = "sleeping" <=> u \in ToSet(sleepList')
      /\ {u \in Tasks : st[u] = "sleeping"} = Asleep
      /\ {u \in Tasks : st[u] = "blocked"} = Blocked \cup {t}
      /\ t \notin Blocked /\ t \notin Asleep
    BY <1>1, <1>2, <1>3 DEF TasksInv, Asleep, Blocked
<1> HIDE DEF st
<1>5. TasksInv' /\ Asleep' = Asleep /\ Blocked' = Blocked \cup {t}
    BY <1>1, <1>2, <1>3, <1>4, ScheduledTasks DEF TasksInv, TypeOK
<1>6. /\ waiters' \in Seq(Tasks)
      /\ ToSet(waiters') = ToSet(waiters) \cup {t}
      /\ IsInjective(waiters')
    BY <1>1, <1>2, <1>4, PushLinks DEF WaiterTypes
<1>7. /\ WaiterTypes' /\ pc'[t] = "retry"
      /\ \A u \in Tasks : u # t => pc'[u] = pc[u]
    BY <1>1, <1>2, <1>6 DEF WaiterTypes, Points
<1>8. \A u \in Tasks :
        /\ u \in ToSet(waiters') <=> u \in Blocked' /\ pc'[u] = "retry"
        /\ u \in ToSet(blockList') <=> u \in Blocked' /\ pc'[u] # "retry"
        /\ sysTask' = u <=> u \in Blocked' /\ pc'[u] # "retry"
        /\ pc'[u] = "retry" => u \notin Asleep'
    BY <1>1, <1>2, <1>4, <1>5, <1>6, <1>7
<1>9. QED
    BY <1>1, <1>2, <1>5, <1>6, <1>7, <1>8, QueueParts

\* mutex_unlock makes the waiter at the tail ready, inside mutex_lock.
LEMMA QueueWake ==
    ASSUME QueueInv, NEW t \in Users, MutexUnlockWake(t)
    PROVE  /\ QueueInv'
           /\ \E u \in Tasks : Retries(u)'
<1> DEFINE w == Last(waiters)
           st == [state EXCEPT ![w] = "ready"]
<1>1. /\ t \in Tasks /\ t = current /\ pc[t] = "unlock"
      /\ waiters # <<>> /\ waiters' = Unlink(waiters, w)
      /\ pc' = [pc EXCEPT ![t] = "run"]
      /\ Schedule(st, ticks)
      /\ UNCHANGED <<jif, jiffies, sleepList, blockList, sysTask, intr>>
    BY DEF MutexUnlockWake, Users, ReleaseOrder
<1>2. QueueSets
    BY QueueParts
<1> USE DEF QueueSets
<1>3. w \in Tasks /\ w \in ToSet(waiters)
    <2>1. waiters \in Seq(Tasks) /\ Len(waiters) \in 1 .. Len(waiters)
        BY <1>1, <1>2 DEF WaiterTypes
    <2>2. QED
        BY <2>1 DEF ToSet, Last
<1> HIDE DEF w
<1>4. w \in Blocked /\ pc[w] = "retry" /\ state[w] = "blocked" /\ w # t
    BY <1>1, <1>2, <1>3 DEF Blocked
<1>5. /\ CallState(st, ticks)
      /\ \A u \in Tasks : st[u] = IF u = w THEN "ready" ELSE state[u]
    BY <1>2, <1>3, CallNow DEF CallState, States
<1>6. /\ \A u \in Tasks : st[u] = "sleeping" <=> u \in ToSet(sleepList')
      /\ {u \in Tasks : st[u] = "sleeping"} = Asleep
      /\ {u \in Tasks : st[u] = "blocked"} = Blocked \ {w}
    BY <1>1, <1>2, <1>4, <1>5 DEF TasksInv, Asleep, Blocked
<1> HIDE DEF st
<1>7. TasksInv' /\ Asleep' = Asleep /\ Blocked' = Blocked \ {w}
    BY <1>1, <1>2, <1>5, <1>6, ScheduledTasks, ZenonT(40) DEF TasksInv, TypeOK
<1>8. /\ waiters' \in Seq(Tasks)
      /\ ToSet(waiters') = ToSet(waiters) \ {w}
      /\ IsInjective(waiters')
    BY <1>1, <1>2, <1>3, UnlinkRemoves DEF WaiterTypes
<1>9. /\ WaiterTypes' /\ pc'[t] = "run"
      /\ \A u \in Tasks : u # t => pc'[u] = pc[u]
    BY <1>1, <1>2, <1>8 DEF WaiterTypes, Points
<1>10. t \notin Blocked
    BY <1>1, <1>2 DEF TasksInv, OneRunning, Blocked
<1>11. \A u \in Tasks :
        /\ u \in ToSet(waiters') <=> u \in Blocked' /\ pc'[u] = "retry"
        /\ u \in ToSet(blockList') <=> u \in Blocked' /\ pc'[u] # "retry"
        /\ sysTask' = u <=> u \in Blocked' /\ pc'[u] # "retry"
        /\ pc'[u] = "retry" => u \notin Asleep'
    BY <1>1, <1>2, <1>4, <1>7, <1>8, <1>9, <1>10
<1>12. QueueInv'
    BY <1>1, <1>2, <1>7, <1>8, <1>9, <1>11, QueueParts
<1>13. \E u \in Tasks : pc'[u] = "retry" /\ state'[u] \in {"ready", "running"}
    <2>1. pc'[w] = "retry" /\ state'[w] \in States
        BY <1>3, <1>4, <1>7, <1>9 DEF TasksInv, TypeOK
    <2>2. w \notin Blocked' /\ w \notin Asleep'
        BY <1>3, <1>7, <1>11, <2>1
    <2>3. QED
        BY <1>3, <2>1, <2>2 DEF States, Blocked, Asleep
<1>14. QED
    BY <1>12, <1>13 DEF Retries

\* Every step of the lock's functions keeps the waiters consistent.
LEMMA QueueStep ==
    ASSUME QueueInv, NEW t \in Users, LockStep(t)
    PROVE  QueueInv'
<1>1. t \in Tasks
    BY DEF Users
<1>2. CASE MutexWait(t)
    BY <1>2, QueueWait
<1>3. CASE MutexUnlockWake(t)
    BY <1>3, QueueWake
<1>4. CASE AcquireAgain(t)
    <2>1. /\ UNCHANGED <<vars, waiters>> /\ t = current
          /\ pc' = [pc EXCEPT ![t] = pc[t]] /\ pc[t] \in Points
        BY <1>1, <1>4 DEF AcquireAgain, CanCall, QueueInv, WaiterTypes
    <2>2. QED
        BY <1>1, <2>1, QueueMoves
<1>5. CASE \/ MutexLock(t) \/ MutexUnlockFree(t) \/ Acquire(t)
           \/ SetHolder(t) \/ SetRepeat(t) \/ Release(t) \/ DropHolder(t)
    <2>1. UNCHANGED <<vars, waiters>> /\ t = current
        BY <1>5 DEF MutexLock, MutexUnlockFree, Acquire, SetHolder, SetRepeat,
                    Release, DropHolder, CanCall
    <2>2. PICK p \in Points : pc' = [pc EXCEPT ![t] = p]
        BY <1>5 DEF MutexLock, MutexUnlockFree, Acquire, SetHolder, SetRepeat,
                    Release, DropHolder, Points, ReleaseOrder
    <2>3. QED
        BY <1>1, <2>1, <2>2, QueueMoves
<1>6. QED
    BY <1>2, <1>3, <1>4, <1>5 DEF LockStep

(***************************************************************************)
(* The theorems.                                                           *)
(***************************************************************************)

\* The inductive invariant of the lock.
LockIInv == OwnerInv /\ QueueInv /\ NoLostWakeup

\* NoLostWakeup, by the thread that mutex_unlock woke.
LEMMA WakeupKept ==
    ASSUME LockIInv, OwnerInv', QueueInv', LockNext
    PROVE  NoLostWakeup'
<1>1. ASSUME LockClock \/ \E t \in Tasks : LockCall(t)
      PROVE  NoLostWakeup'
    <2>1. /\ UNCHANGED <<pc, value, waiters>>
          /\ \A u \in Tasks :
               pc[u] = "retry" => (u \in Blocked' => u \in Blocked)
        BY <1>1, QueueCall DEF LockIInv, lockVars
    <2>2. \A u \in Tasks : Retries(u) => Retries(u)'
        BY <2>1, RetriesStay DEF LockIInv, Retries
    <2>3. QED
        BY <2>1, <2>2 DEF LockIInv, NoLostWakeup, Retries
<1>2. ASSUME NEW t \in Users, LockStep(t) PROVE NoLostWakeup'
    <2>1. CASE MutexLock(t)
        BY <2>1 DEF MutexLock, NoLostWakeup
    <2>2. CASE MutexWait(t)
        <3>1. value' = value /\ value
            BY <2>2 DEF MutexWait
        <3>2. QED
            BY <3>1 DEF NoLostWakeup
    <2>3. CASE MutexUnlockFree(t)
        BY <2>3 DEF MutexUnlockFree, NoLostWakeup
    <2>4. CASE MutexUnlockWake(t)
        BY <2>4, QueueWake DEF LockIInv, NoLostWakeup, Retries
    <2>5. CASE \/ Acquire(t) \/ AcquireAgain(t) \/ SetHolder(t)
               \/ SetRepeat(t) \/ Release(t) \/ DropHolder(t)
        <3>1. /\ UNCHANGED <<state, value, waiters>> /\ pc[t] # "retry"
              /\ \A u \in Tasks : u # t => pc'[u] = pc[u]
            BY <2>5 DEF Acquire, AcquireAgain, SetHolder, SetRepeat, Release,
                        DropHolder, CanCall, vars, LockIInv, OwnerInv,
                        OwnerTypes
        <3>2. QED
            BY <3>1 DEF LockIInv, NoLostWakeup
    <2>6. QED
        BY <1>2, <2>1, <2>2, <2>3, <2>4, <2>5 DEF LockStep
<1>3. QED
    BY <1>1, <1>2 DEF LockNext

\* Every step preserves the inductive invariant.
LEMMA LockNextInv == LockIInv /\ [LockNext]_allVars => LockIInv'
<1> SUFFICES ASSUME LockIInv, [LockNext]_allVars PROVE LockIInv'
    OBVIOUS
<1>1. CASE UNCHANGED allVars
    BY <1>1, SMTT(30) DEF allVars, lockVars, vars, LockIInv, OwnerInv, OwnerTypes,
                MutualExclusion, HolderConsistent, Owns, QueueInv, TasksInv,
                TypeOK, OneRunning, WaiterTypes, WaitersConsistent,
                TestBlocked, NoLostWakeup
<1>2. CASE LockNext
    <2>1. OwnerInv'
        BY <1>2, QueueCall, OwnerUntouched, OwnerStep DEF LockIInv, LockNext
    <2>2. QueueInv'
        BY <1>2, QueueCall, QueueStep DEF LockIInv, LockNext
    <2>3. NoLostWakeup'
        BY <1>2, <2>1, <2>2, WakeupKept
    <2>4. QED
        BY <2>1, <2>2, <2>3 DEF LockIInv
<1>3. QED
    BY <1>1, <1>2

\* The inductive invariant holds in every reachable state.
THEOREM LockInvariance == LockSpec => []LockIInv
<1>1. LockInit => LockIInv
    <2>1. LockInit => NoLostWakeup
        BY DEF LockInit, NoLostWakeup
    <2>2. QED
        BY <2>1, OwnerInit, QueueInit DEF LockIInv
<1>2. QED
    BY <1>1, LockNextInv, PTL DEF LockSpec

\* Types: the nesting of acquisitions is counted within its bound, and never
\* below zero.
THEOREM LockTypesCorrect == LockSpec => []LockTypeOK
<1>1. LockIInv => LockTypeOK
    BY DEF LockIInv, OwnerInv, OwnerTypes, QueueInv, WaiterTypes, TasksInv,
           LockTypeOK
<1>2. QED
    BY <1>1, LockInvariance, PTL

\* Two threads never own the mutex together, and value is set exactly while
\* one does.
THEOREM MutexExcludes == LockSpec => []MutualExclusion
<1>1. LockIInv => MutualExclusion
    BY DEF LockIInv, OwnerInv
<1>2. QED
    BY <1>1, LockInvariance, PTL

\* The assertions of lock_acquire and lock_release never fail.
THEOREM HolderAgrees == LockSpec => []HolderConsistent
<1>1. LockIInv => HolderConsistent
    BY DEF LockIInv, OwnerInv
<1>2. QED
    BY <1>1, LockInvariance, PTL

\* No unlock leaves all of the waiters blocked.
THEOREM NoWakeupIsLost == LockSpec => []NoLostWakeup
<1>1. LockIInv => NoLostWakeup
    BY DEF LockIInv
<1>2. QED
    BY <1>1, LockInvariance, PTL

\* The waiters, the block list and the sleep list hold the tasks whose states
\* name them.
THEOREM WaitersAgree == LockSpec => []WaitersConsistent
<1>1. LockIInv => WaitersConsistent
    BY DEF LockIInv, QueueInv
<1>2. QED
    BY <1>1, LockInvariance, PTL

(***************************************************************************)
(* The refinement of ReentrantLock.                                        *)
(***************************************************************************)

Asking == {t \in Tasks : pc[t] \in {"lock", "retry"}}

\* The owner and the depth of the abstract lock, by the thread that owns the
\* mutex, before and after a step.
LEMMA OwnedView ==
    ASSUME NEW t \in Tasks
    PROVE  /\ OwnerInv /\ Owns(t) =>
                /\ Owner = t
                /\ Depth = IF pc[t] \in {"locked", "held"} THEN 1 ELSE repeat
           /\ (OwnerInv /\ Owns(t))' =>
                /\ Owner' = t
                /\ Depth' = IF pc'[t] \in {"locked", "held"} THEN 1 ELSE repeat'
<1>1. ASSUME OwnerInv, Owns(t) PROVE Owner = t /\ value
    <2>1. value /\ \A u \in Tasks : Owns(u) => u = t
        BY <1>1 DEF OwnerInv, MutualExclusion
    <2>2. QED
        BY <1>1, <2>1 DEF Owner
<1>2. ASSUME OwnerInv', Owns(t)' PROVE Owner' = t /\ value'
    <2>1. value' /\ \A u \in Tasks : Owns(u)' => u = t
        BY <1>2 DEF OwnerInv, MutualExclusion
    <2>2. QED
        BY <1>2, <2>1 DEF Owner
<1>3. QED
    BY <1>1, <1>2 DEF Depth

\* While value is false there is neither an owner nor a depth.
LEMMA FreeView ==
    /\ OwnerInv /\ ~ value =>
         Owner = None /\ Depth = 0 /\ \A t \in Tasks : ~ Owns(t)
    /\ OwnerInv' /\ ~ value' => Owner' = None /\ Depth' = 0
<1>1. ASSUME OwnerInv, ~ value
      PROVE  repeat = 0 /\ \A t \in Tasks : ~ Owns(t)
    <2>1. \A t \in Tasks : ~ Owns(t)
        BY <1>1 DEF OwnerInv, MutualExclusion
    <2>2. holder = None
        BY <1>1, <2>1 DEF OwnerInv, OwnerTypes, Owns
    <2>3. QED
        BY <1>1, <2>1, <2>2 DEF OwnerInv
<1>2. ASSUME OwnerInv', ~ value' PROVE repeat' = 0
    <2>1. \A t \in Tasks : ~ Owns(t)'
        BY <1>2 DEF OwnerInv, MutualExclusion
    <2>2. holder' = None
        BY <1>2, <2>1 DEF OwnerInv, OwnerTypes, Owns
    <2>3. QED
        BY <1>2, <2>2 DEF OwnerInv
<1>3. QED
    BY <1>1, <1>2 DEF Owner, Depth

\* A step of a thread that owns nothing, neither before nor after it, leaves
\* the owner and the depth alone.
LEMMA OutsiderView ==
    ASSUME OwnerInv, OwnerInv', NEW t \in Tasks, ~ Owns(t), ~ Owns(t)',
           UNCHANGED <<value, holder, repeat>>,
           \A u \in Tasks : u # t => pc'[u] = pc[u]
    PROVE  Owner' = Owner /\ Depth' = Depth
<1>1. CASE ~ value
    BY <1>1, FreeView
<1>2. CASE value
    <2>1. PICK u \in Tasks : Owns(u)
        BY <1>2 DEF OwnerInv, MutualExclusion
    <2>2. u # t /\ Owns(u)' /\ pc'[u] = pc[u]
        BY <2>1 DEF Owns
    <2>3. QED
        BY <2>1, <2>2, OwnedView
<1>3. QED
    BY <1>1, <1>2 DEF OwnerInv, OwnerTypes

\* A step of the running thread from one place in the code to another.
LEMMA MoveView ==
    ASSUME OwnerInv, NEW t \in Tasks, NEW p \in Points, pc' = [pc EXCEPT ![t] = p]
    PROVE  /\ pc'[t] = p /\ \A u \in Tasks : u # t => pc'[u] = pc[u]
           /\ Asking' = IF p \in {"lock", "retry"} THEN Asking \cup {t}
                        ELSE Asking \ {t}
<1>1. pc'[t] = p /\ \A u \in Tasks : u # t => pc'[u] = pc[u]
    BY DEF OwnerInv, OwnerTypes
<1>2. QED
    BY <1>1 DEF Asking

\* The thread that runs sleeps for no mutex.
LEMMA RunnerAwake ==
    ASSUME QueueInv, NEW t \in Tasks, t = current
    PROVE  t \notin ToSet(waiters)
BY QueueParts DEF QueueSets, TasksInv, OneRunning, Blocked

\* mutex_lock and mutex_unlock take the lock, sleep for it and give it up.
LEMMA MutexPromised ==
    ASSUME LockIInv, OwnerInv', NEW t \in Users, t \in Tasks,
           MutexLock(t) \/ MutexWait(t) \/ MutexUnlockFree(t) \/ MutexUnlockWake(t)
    PROVE  Lock!Next
<1>0. OwnerInv /\ QueueInv
    BY DEF LockIInv
<1>1. CASE MutexLock(t)
    <2>1. /\ t = current /\ pc[t] \in {"lock", "retry"} /\ ~ value
          /\ pc' = [pc EXCEPT ![t] = "locked"] /\ waiters' = waiters
        BY <1>1 DEF MutexLock
    <2>2. pc'[t] = "locked" /\ Asking' = Asking \ {t} /\ t \in Asking
        BY <1>0, <2>1, MoveView DEF Points, Asking
    <2>3. Owner = None /\ Owner' = t /\ Depth' = 1
        BY <1>0, <2>1, <2>2, FreeView, OwnedView DEF Owns
    <2>4. t \notin ToSet(waiters)
        BY <1>0, <2>1, RunnerAwake
    <2>5. Lock!Take(t)
        BY <2>1, <2>2, <2>3, <2>4 DEF Lock!Take, Asking
    <2>6. QED
        BY <2>5 DEF Lock!Next
<1>2. CASE MutexWait(t)
    <2>1. /\ t = current /\ pc[t] \in {"lock", "retry"} /\ value
          /\ pc' = [pc EXCEPT ![t] = "retry"] /\ waiters' = <<t>> \o waiters
          /\ UNCHANGED <<value, holder, repeat>>
        BY <1>2 DEF MutexWait
    <2>2. /\ pc'[t] = "retry" /\ Asking' = Asking /\ t \in Asking
          /\ \A u \in Tasks : u # t => pc'[u] = pc[u]
        BY <1>0, <2>1, MoveView DEF Points, Asking
    <2>3. ~ Owns(t) /\ ~ Owns(t)'
        BY <1>0, <2>1, <2>2 DEF OwnerInv, HolderConsistent, Owns
    <2>4. Owner' = Owner /\ Depth' = Depth
        BY <1>0, <2>1, <2>2, <2>3, OutsiderView
    <2>5. Owner # None
        <3>1. PICK u \in Tasks : Owns(u)
            BY <1>0, <2>1 DEF OwnerInv, MutualExclusion
        <3>2. QED
            BY <1>0, <3>1, OwnedView, TableAssumption
    <2>6. t \notin ToSet(waiters)
        BY <1>0, <2>1, RunnerAwake
    <2>7. ToSet(waiters') = ToSet(waiters) \cup {t}
        BY <1>0, <2>1, <2>6, PushLinks DEF QueueInv, WaiterTypes, WaitersConsistent
    <2>8. Lock!Sleep(t)
        BY <2>2, <2>4, <2>5, <2>6, <2>7 DEF Lock!Sleep, Asking
    <2>9. QED
        BY <2>8 DEF Lock!Next
<1>3. CASE MutexUnlockFree(t) \/ MutexUnlockWake(t)
    <2>1. /\ pc[t] = "unlock" /\ pc' = [pc EXCEPT ![t] = "run"] /\ ~ value'
        BY <1>3 DEF MutexUnlockFree, MutexUnlockWake, ReleaseOrder
    <2>2. Asking' = Asking
        BY <1>0, <2>1, MoveView DEF Points, Asking
    <2>3. Owner = t /\ Depth = 0 /\ Owner' = None /\ Depth' = 0
        BY <1>0, <2>1, FreeView, OwnedView DEF Owns, OwnerInv, HolderConsistent
    <2>4. \/ ToSet(waiters) = {} /\ ToSet(waiters') = {}
          \/ \E u \in ToSet(waiters) : ToSet(waiters') = ToSet(waiters) \ {u}
        <3>1. CASE MutexUnlockFree(t)
            BY <3>1 DEF MutexUnlockFree, ToSet
        <3>2. CASE MutexUnlockWake(t)
            <4> DEFINE w == Last(waiters)
            <4>1. waiters # <<>> /\ waiters' = Unlink(waiters, w)
                BY <3>2 DEF MutexUnlockWake
            <4>2. waiters \in Seq(Tasks) /\ IsInjective(waiters)
                BY <1>0 DEF QueueInv, WaiterTypes, WaitersConsistent
            <4>3. w \in ToSet(waiters)
                <5>1. Len(waiters) \in 1 .. Len(waiters)
                    BY <4>1, <4>2
                <5>2. QED
                    BY <4>2, <5>1 DEF ToSet, Last
            <4> HIDE DEF w
            <4>4. QED
                BY <4>1, <4>2, <4>3, UnlinkRemoves
        <3>3. QED
            BY <1>3, <3>1, <3>2
    <2>5. Lock!GiveUp(t)
        BY <2>2, <2>3, <2>4 DEF Lock!GiveUp, Asking
    <2>6. QED
        BY <2>5 DEF Lock!Next
<1>4. QED
    BY <1>1, <1>2, <1>3

\* lock_acquire and lock_release: asking, entering again, leaving; the other
\* statements are not seen.
LEMMA LockPromised ==
    ASSUME LockIInv, OwnerInv', NEW t \in Users, t \in Tasks,
           \/ Acquire(t) \/ AcquireAgain(t) \/ SetHolder(t) \/ SetRepeat(t)
           \/ Release(t) \/ DropHolder(t)
    PROVE  Lock!Next \/ UNCHANGED Lock!vars
<1>0. OwnerInv /\ None \notin Tasks
    BY TableAssumption DEF LockIInv
<1>1. CASE Acquire(t)
    <2>1. /\ pc[t] = "run" /\ holder # t
          /\ pc' = [pc EXCEPT ![t] = "lock"]
          /\ UNCHANGED <<value, waiters, holder, repeat>>
        BY <1>1 DEF Acquire, CanCall
    <2>2. /\ pc'[t] = "lock" /\ Asking' = Asking \cup {t} /\ t \notin Asking
          /\ \A u \in Tasks : u # t => pc'[u] = pc[u]
        BY <1>0, <2>1, MoveView DEF Points, Asking
    <2>3. ~ Owns(t) /\ ~ Owns(t)'
        BY <2>1, <2>2 DEF Owns
    <2>4. Owner' = Owner /\ Depth' = Depth
        BY <1>0, <2>1, <2>2, <2>3, OutsiderView
    <2>5. Owner # t
        <3>1. CASE ~ value
            BY <1>0, <3>1, FreeView
        <3>2. CASE value
            <4>1. PICK u \in Tasks : Owns(u)
                BY <1>0, <3>2 DEF OwnerInv, MutualExclusion
            <4>2. QED
                BY <1>0, <2>3, <4>1, OwnedView
        <3>3. QED
            BY <3>1, <3>2
    <2>6. Lock!Ask(t)
        BY <2>1, <2>2, <2>4, <2>5 DEF Lock!Ask, Asking
    <2>7. QED
        BY <2>6 DEF Lock!Next
<1>2. CASE AcquireAgain(t)
    <2>1. /\ pc[t] = "run" /\ holder = t /\ repeat' = repeat + 1
          /\ UNCHANGED <<pc, value, waiters, holder>>
        BY <1>2 DEF AcquireAgain, CanCall
    <2>2. repeat > 0 /\ Owns(t) /\ Owns(t)' /\ pc'[t] = "run"
        BY <1>0, <2>1 DEF OwnerInv, HolderConsistent, Owns
    <2>3. Owner = t /\ Depth = repeat /\ Owner' = t /\ Depth' = repeat'
        BY <1>0, <2>1, <2>2, OwnedView
    <2>4. Lock!Enter(t)
        BY <2>1, <2>2, <2>3 DEF Lock!Enter
    <2>5. QED
        BY <2>4 DEF Lock!Next
<1>3. CASE Release(t)
    <2>1. /\ pc[t] = "run" /\ holder = t /\ repeat' = repeat - 1
          /\ UNCHANGED <<value, waiters, holder>>
        BY <1>3 DEF Release, CanCall
    <2>2. PICK p \in {"drop", "run"} : pc' = [pc EXCEPT ![t] = p]
        BY <1>3 DEF Release, ReleaseOrder
    <2>3. pc'[t] = p /\ Asking' = Asking
        BY <1>0, <2>1, <2>2, MoveView DEF Points, Asking
    <2>4. repeat > 0 /\ Owns(t) /\ Owns(t)'
        BY <1>0, <2>1 DEF OwnerInv, HolderConsistent, Owns
    <2>5. Owner = t /\ Depth = repeat /\ Owner' = t /\ Depth' = repeat'
        BY <1>0, <2>1, <2>2, <2>3, <2>4, OwnedView
    <2>6. Lock!Leave(t)
        BY <2>1, <2>3, <2>4, <2>5 DEF Lock!Leave, Asking
    <2>7. QED
        BY <2>6 DEF Lock!Next
<1>4. CASE SetHolder(t) \/ SetRepeat(t) \/ DropHolder(t)
    <2>1. waiters' = waiters
        BY <1>4 DEF SetHolder, SetRepeat, DropHolder
    <2>2. PICK p \in {"held", "run", "unlock"} : pc' = [pc EXCEPT ![t] = p]
        BY <1>4 DEF SetHolder, SetRepeat, DropHolder, ReleaseOrder
    <2>3. pc'[t] = p /\ Asking' = Asking
        BY <1>0, <1>4, <2>2, MoveView
           DEF SetHolder, SetRepeat, DropHolder, Points, Asking
    <2>4. Owner = t /\ Owner' = t /\ Depth' = Depth
        <3>1. CASE SetHolder(t)
            BY <1>0, <3>1, MoveView, OwnedView DEF SetHolder, Points, Owns
        <3>2. CASE SetRepeat(t)
            <4>1. pc[t] = "held" /\ holder = t /\ holder' = t
                BY <1>0, <3>2 DEF SetRepeat, OwnerInv, HolderConsistent
            <4>2. pc'[t] = "run" /\ repeat' = 1
                BY <1>0, <3>2, MoveView DEF SetRepeat, Points
            <4>3. QED
                BY <1>0, <4>1, <4>2, OwnedView DEF Owns
        <3>3. CASE DropHolder(t)
            BY <1>0, <3>3, MoveView, OwnedView DEF DropHolder, ReleaseOrder, Points, Owns
        <3>4. QED
            BY <1>4, <3>1, <3>2, <3>3
    <2>5. QED
        BY <2>1, <2>3, <2>4 DEF Lock!vars, Asking
<1>5. QED
    BY <1>1, <1>2, <1>3, <1>4

\* lock_acquire and lock_release, interrupted by the clock anywhere,
\* implement a reentrant lock that is taken and given up in one step.
THEOREM LockImplements == LockSpec => LockAsPromised
<1>1. LockInit => Lock!Init
    <2> SUFFICES ASSUME LockInit PROVE Lock!Init
        OBVIOUS
    <2>1. /\ pc = [u \in Tasks |-> "run"] /\ waiters = <<>> /\ ~ value
          /\ OwnerInv
        BY OwnerInit DEF LockInit
    <2>2. Asking = {} /\ ToSet(waiters) = {}
        BY <2>1 DEF Asking, ToSet
    <2>3. Owner = None /\ Depth = 0
        BY <2>1, FreeView
    <2>4. QED
        BY <2>2, <2>3 DEF Lock!Init, Asking
<1>2. LockIInv /\ LockIInv' /\ [LockNext]_allVars => [Lock!Next]_(Lock!vars)
    <2> SUFFICES ASSUME LockIInv, LockIInv', [LockNext]_allVars
                 PROVE  Lock!Next \/ UNCHANGED Lock!vars
        OBVIOUS
    <2>1. OwnerInv'
        BY DEF LockIInv
    <2>2. CASE UNCHANGED lockVars
        BY <2>2 DEF lockVars, Lock!vars, Owner, Depth, Owns
    <2>3. ASSUME NEW t \in Users, LockStep(t)
          PROVE  Lock!Next \/ UNCHANGED Lock!vars
        BY <2>1, <2>3, MutexPromised, LockPromised DEF LockStep, Users
    <2>4. QED
        BY <2>2, <2>3 DEF LockNext, LockClock, LockCall, allVars
<1>3. QED
    BY <1>1, <1>2, LockInvariance, PTL DEF LockSpec, LockAsPromised, Lock!Spec
=============================================================================
