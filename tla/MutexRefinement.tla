-------------------------- MODULE MutexRefinement --------------------------
(***************************************************************************)
(* lock_acquire and lock_release, which the clock may interrupt between    *)
(* any two statements, implement a lock that is taken and given up in one  *)
(* step: the statements of mutex_lock and mutex_unlock that set value.     *)
(***************************************************************************)
EXTENDS Mutex

Owner == IF value THEN CHOOSE t \in Tasks : Owns(t) ELSE None

\* repeat lags behind its owner by the last two statements of lock_acquire.
Depth == IF value /\ pc[Owner] \in {"locked", "held"} THEN 1 ELSE repeat

Lock == INSTANCE ReentrantLock WITH
    owner <- Owner,
    depth <- Depth,
    asking <- {t \in Tasks : pc[t] \in {"lock", "retry"}},
    asleep <- ToSet(waiters)

\* The value of the mutex, its waiters, and holder and repeat, which three
\* different statements write, amount to one reentrant lock: nobody enters
\* it while another owns it, none but the owner leaves it, and giving it up
\* wakes a sleeper.
LockAsPromised == Lock!Spec
=============================================================================
