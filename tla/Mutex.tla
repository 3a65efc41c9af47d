------------------------------- MODULE Mutex -------------------------------
(***************************************************************************)
(* The mutex and the reentrant lock of kernel/mutex.c, used by threads that *)
(* the scheduler of Sched runs.                                            *)
(*                                                                         *)
(* mutex_lock and mutex_unlock run with interrupts disabled, so each is    *)
(* atomic up to the schedule() it may call.  lock_acquire and lock_release *)
(* are not: the clock may interrupt a thread between any two of their      *)
(* statements, and pc says between which.  A thread that mutex_lock has    *)
(* blocked goes on, once it is chosen again, inside the loop of mutex_lock *)
(* with interrupts still disabled (pc "retry").                            *)
(***************************************************************************)
EXTENDS Sched

CONSTANT MaxRepeat      \* bound on the depth of nested acquisitions

ASSUME RepeatAssumption == MaxRepeat \in Nat \ {0}

VARIABLES
    pc,         \* where in lock_acquire or lock_release a thread is
    value,      \* mutex_t.value
    waiters,    \* mutex_t.waiters, head first
    holder,     \* lock_t.holder
    repeat      \* lock_t.repeat

lockVars == <<pc, value, waiters, holder, repeat>>
allVars == <<vars, lockVars>>

Points == {"run",       \* outside both functions
           "lock",      \* holder # current was seen; mutex_lock comes next
           "retry",     \* blocked in mutex_lock, or about to test value again
           "locked",    \* mutex_lock is done; holder comes next
           "held",      \* holder is set; repeat comes next
           "drop",      \* repeat is 0; holder = NULL comes next
           "unlock"}    \* mutex_unlock comes next

\* Mutant: lock_release unlocks the mutex before it clears holder.
ReleaseOrder_Swapped ==
    [release |-> "unlock", unlock |-> "drop", drop |-> "run"]

\* What lock_release does after each of its statements, in the order that
\* its comment insists on.
ReleaseOrder == [release |-> "drop", drop |-> "unlock", unlock |-> "run"]

-----------------------------------------------------------------------------
(* mutex_lock and mutex_unlock.                                            *)

\* Mutant: mutex_lock tests value only once.
MutexLock_NoRetest(t) ==
    /\ t = current
    /\ \/ pc[t] = "retry"
       \/ pc[t] = "lock" /\ ~ value
    /\ value' = TRUE
    /\ pc' = [pc EXCEPT ![t] = "locked"]
    /\ UNCHANGED <<vars, waiters, holder, repeat>>

\* The thread finds value false, on entry or after being woken.
MutexLock(t) ==
    /\ t = current /\ pc[t] \in {"lock", "retry"}
    /\ ~ value
    /\ value' = TRUE
    /\ pc' = [pc EXCEPT ![t] = "locked"]
    /\ UNCHANGED <<vars, waiters, holder, repeat>>

\* Mutant: mutex_lock blocks the thread on the list of sys_test.
MutexWait_DefaultList(t) ==
    /\ t = current /\ pc[t] \in {"lock", "retry"}
    /\ value
    /\ blockList' = <<t>> \o blockList
    /\ pc' = [pc EXCEPT ![t] = "retry"]
    /\ Schedule([state EXCEPT ![t] = "blocked"], ticks)
    /\ UNCHANGED <<jif, jiffies, sleepList, sysTask, intr,
                   value, waiters, holder, repeat>>

\* The thread finds value true and blocks, at the head of the waiters.
MutexWait(t) ==
    /\ t = current /\ pc[t] \in {"lock", "retry"}
    /\ value
    /\ waiters' = <<t>> \o waiters
    /\ pc' = [pc EXCEPT ![t] = "retry"]
    /\ Schedule([state EXCEPT ![t] = "blocked"], ticks)
    /\ UNCHANGED <<jif, jiffies, sleepList, blockList, sysTask, intr,
                   value, holder, repeat>>

\* Mutant: mutex_unlock may leave the waiters blocked.
MutexUnlockFree_NoWake(t) ==
    /\ t = current /\ pc[t] = "unlock"
    /\ value' = FALSE
    /\ pc' = [pc EXCEPT ![t] = ReleaseOrder["unlock"]]
    /\ UNCHANGED <<vars, waiters, holder, repeat>>

\* The mutex becomes free, with nobody waiting for it.
MutexUnlockFree(t) ==
    /\ t = current /\ pc[t] = "unlock"
    /\ waiters = <<>>
    /\ value' = FALSE
    /\ pc' = [pc EXCEPT ![t] = ReleaseOrder["unlock"]]
    /\ UNCHANGED <<vars, waiters, holder, repeat>>

\* The waiter at the tail becomes ready and the thread yields.
MutexUnlockWake(t) ==
    /\ t = current /\ pc[t] = "unlock"
    /\ waiters # <<>>
    /\ value' = FALSE
    /\ waiters' = Unlink(waiters, Last(waiters))
    /\ pc' = [pc EXCEPT ![t] = ReleaseOrder["unlock"]]
    /\ Schedule([state EXCEPT ![Last(waiters)] = "ready"], ticks)
    /\ UNCHANGED <<jif, jiffies, sleepList, blockList, sysTask, intr,
                   holder, repeat>>

-----------------------------------------------------------------------------
(* lock_acquire and lock_release.                                          *)

CanCall(t) == t = current /\ intr[t] /\ pc[t] = "run"

Acquire(t) ==
    /\ CanCall(t)
    /\ holder # t
    /\ pc' = [pc EXCEPT ![t] = "lock"]
    /\ UNCHANGED <<vars, value, waiters, holder, repeat>>

\* Mutant: lock_acquire goes on as soon as anybody holds the lock.
AcquireAgain_Anyone(t) ==
    /\ CanCall(t)
    /\ holder # None
    /\ repeat < MaxRepeat
    /\ repeat' = repeat + 1
    /\ UNCHANGED <<vars, pc, value, waiters, holder>>

AcquireAgain(t) ==
    /\ CanCall(t)
    /\ holder = t
    /\ repeat < MaxRepeat
    /\ repeat' = repeat + 1
    /\ UNCHANGED <<vars, pc, value, waiters, holder>>

SetHolder(t) ==
    /\ t = current /\ pc[t] = "locked"
    /\ holder' = t
    /\ pc' = [pc EXCEPT ![t] = "held"]
    /\ UNCHANGED <<vars, value, waiters, repeat>>

SetRepeat(t) ==
    /\ t = current /\ pc[t] = "held"
    /\ repeat' = 1
    /\ pc' = [pc EXCEPT ![t] = "run"]
    /\ UNCHANGED <<vars, value, waiters, holder>>

\* Mutant: lock_release tests repeat before it counts down.
Release_TestsFirst(t) ==
    /\ CanCall(t)
    /\ holder = t
    /\ repeat' = repeat - 1
    /\ pc' = [pc EXCEPT ![t] = IF repeat = 0 THEN ReleaseOrder["release"]
                               ELSE "run"]
    /\ UNCHANGED <<vars, value, waiters, holder>>

\* Threads release the lock only while they hold it.
Release(t) ==
    /\ CanCall(t)
    /\ holder = t
    /\ repeat' = repeat - 1
    /\ pc' = [pc EXCEPT ![t] = IF repeat = 1 THEN ReleaseOrder["release"]
                               ELSE "run"]
    /\ UNCHANGED <<vars, value, waiters, holder>>

DropHolder(t) ==
    /\ t = current /\ pc[t] = "drop"
    /\ holder' = None
    /\ pc' = [pc EXCEPT ![t] = ReleaseOrder["drop"]]
    /\ UNCHANGED <<vars, value, waiters, repeat>>

-----------------------------------------------------------------------------

\* lock_init
LockInit ==
    /\ Init
    /\ pc = [u \in Tasks |-> "run"]
    /\ value = FALSE
    /\ waiters = <<>>
    /\ holder = None
    /\ repeat = 0

\* The clock interrupts a thread anywhere but in the loop of mutex_lock.
LockClock ==
    /\ current \in Tasks => pc[current] # "retry"
    /\ Clock
    /\ UNCHANGED lockVars

\* A thread outside of the lock's functions, holding the lock or not.
LockCall(t) ==
    /\ pc[t] = "run"
    /\ Start(t) \/ Call(t)
    /\ UNCHANGED lockVars

LockStep(t) ==
    \/ MutexLock(t) \/ MutexWait(t) \/ MutexUnlockFree(t) \/ MutexUnlockWake(t)
    \/ Acquire(t) \/ AcquireAgain(t) \/ SetHolder(t) \/ SetRepeat(t)
    \/ Release(t) \/ DropHolder(t)

LockNext ==
    \/ LockClock
    \/ \E t \in Tasks : LockCall(t)
    \/ \E t \in Users : LockStep(t)

LockSpec == LockInit /\ [][LockNext]_allVars

-----------------------------------------------------------------------------
(* Properties.                                                             *)

LockTypeOK ==
    /\ TypeOK
    /\ pc \in [Tasks -> Points]
    /\ value \in BOOLEAN
    /\ waiters \in Seq(Tasks)
    /\ holder \in Tasks \cup {None}
    /\ repeat \in 0 .. MaxRepeat

\* A thread owns the mutex from the moment that mutex_lock sets value until
\* mutex_unlock clears it.
Owns(t) == holder = t \/ pc[t] \in {"locked", "held", "drop", "unlock"}

\* value is set exactly while some thread owns the mutex, and two threads
\* never own it together, wherever the clock interrupts them.
MutualExclusion ==
    /\ value <=> \E t \in Tasks : Owns(t)
    /\ \A t, u \in Tasks : Owns(t) /\ Owns(u) => t = u

\* The lock's fields agree with the place of its owner in the code: the
\* assertions repeat == 0 of lock_acquire and holder == current of
\* lock_release hold, and holder names a thread only between the two.  The
\* comment in lock_release that forbids to swap holder = NULL and
\* mutex_unlock is about this.
HolderConsistent ==
    \A t \in Tasks :
        /\ pc[t] = "locked" => holder = None /\ repeat = 0
        /\ pc[t] = "held" => holder = t /\ repeat = 0
        /\ pc[t] = "drop" => holder = t /\ repeat = 0
        /\ pc[t] = "unlock" => holder = None /\ repeat = 0
        /\ holder = t /\ pc[t] \notin {"held", "drop"}
              => pc[t] = "run" /\ repeat > 0

\* While the mutex is free and threads wait for it, a woken thread is on its
\* way to it: no unlock leaves all of the waiters blocked.
NoLostWakeup ==
    ~ value /\ waiters # <<>> =>
        \E t \in Tasks : pc[t] = "retry" /\ state[t] \in {"ready", "running"}

\* A blocked task is on exactly one list, once: the waiters if it is inside
\* mutex_lock, the block list if it is inside sys_test; a sleeper is on the
\* sleep list only.
WaitersConsistent ==
    /\ \A u \in Tasks :
         /\ u \in ToSet(waiters) <=> state[u] = "blocked" /\ pc[u] = "retry"
         /\ u \in ToSet(blockList) <=> state[u] = "blocked" /\ pc[u] # "retry"
         /\ u \in ToSet(sleepList) <=> state[u] = "sleeping"
         /\ pc[u] = "retry" => state[u] # "sleeping"
    /\ IsInjective(waiters) /\ IsInjective(blockList) /\ IsInjective(sleepList)

\* "let the new process get the mutex, to avoid starvation" (mutex.c,
\* mutex_unlock): a woken waiter does not have to wait again.
WokenWaiterGetsMutex ==
    [][\A t \in Tasks : pc[t] = "retry" /\ state[t] = "running"
                            => state'[t] # "blocked"]_allVars
=============================================================================
