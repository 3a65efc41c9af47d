--------------------------- MODULE ReentrantLock ---------------------------
(***************************************************************************)
(* What a reentrant lock promises to threads, without a mutex below it, a  *)
(* list of waiters or a place in the code: one thread owns it, as often as *)
(* it has entered; it is taken in one step, when nobody owns it; it is     *)
(* given up in one step, by its owner, and that step wakes one of those    *)
(* who sleep for it.  It does not say who gets it next.                    *)
(***************************************************************************)
EXTENDS Naturals

CONSTANTS
    Tasks,      \* the threads
    None

VARIABLES
    owner,      \* the thread that owns the lock, or None
    depth,      \* how often the owner has entered and not left
    asking,     \* the threads that want to enter and do not own the lock
    asleep      \* those of them that sleep until they are woken

vars == <<owner, depth, asking, asleep>>

Init ==
    /\ owner = None
    /\ depth = 0
    /\ asking = {}
    /\ asleep = {}

Ask(t) ==
    /\ owner # t /\ t \notin asking
    /\ asking' = asking \cup {t}
    /\ UNCHANGED <<owner, depth, asleep>>

Take(t) ==
    /\ owner = None
    /\ t \in asking \ asleep
    /\ owner' = t /\ depth' = 1
    /\ asking' = asking \ {t}
    /\ UNCHANGED asleep

Sleep(t) ==
    /\ owner # None
    /\ t \in asking \ asleep
    /\ asleep' = asleep \cup {t}
    /\ UNCHANGED <<owner, depth, asking>>

\* The owner enters once more, or leaves once.
Enter(t) ==
    /\ owner = t /\ depth > 0
    /\ depth' = depth + 1
    /\ UNCHANGED <<owner, asking, asleep>>

Leave(t) ==
    /\ owner = t /\ depth > 0
    /\ depth' = depth - 1
    /\ UNCHANGED <<owner, asking, asleep>>

\* Having left as often as it had entered, the owner gives the lock up.
GiveUp(t) ==
    /\ owner = t /\ depth = 0
    /\ owner' = None
    /\ \/ asleep = {} /\ asleep' = {}
       \/ \E u \in asleep : asleep' = asleep \ {u}
    /\ UNCHANGED <<depth, asking>>

Next == \E t \in Tasks :
    Ask(t) \/ Take(t) \/ Sleep(t) \/ Enter(t) \/ Leave(t) \/ GiveUp(t)

Spec == Init /\ [][Next]_vars
=============================================================================
