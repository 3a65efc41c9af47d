------------------------------ MODULE TaskSpec ------------------------------
(***************************************************************************)
(* What the scheduler promises to threads, with neither lists nor task     *)
(* states: exactly one context runs; a task that can run is waiting to or  *)
(* running; a sleeper becomes ready at the very tick that its request      *)
(* names, no earlier and no later; and of the callers of test() the first  *)
(* waits until the second comes.  It does not say which ready task is      *)
(* chosen.                                                                 *)
(***************************************************************************)
EXTENDS Integers, Functions

CONSTANTS
    Tasks,      \* the tasks
    Idle,       \* the task that runs when no other can
    Boot,       \* the context that starts the system
    None,
    Delays      \* the numbers of ticks that tasks sleep

VARIABLES
    running,    \* the context that runs
    ready,      \* the set of tasks that can run and do not
    alarm,      \* the tick at which each sleeping task wakes
    waiter,     \* the task that waits in test(), or None
    now         \* the number of ticks so far

vars == <<running, ready, alarm, waiter, now>>

Init ==
    /\ running = Boot
    /\ ready = Tasks
    /\ alarm = [u \in {} |-> 0]
    /\ waiter = None
    /\ now = 0

\* One of the tasks of others takes over, and the runner, if it stays
\* runnable, becomes ready; when there is no other task Idle runs.
Dispatch(others, staysReady) ==
    /\ running' \in IF others = {} THEN {Idle} ELSE others
    /\ ready' = (others \cup staysReady) \ {running'}

Runner == {running} \cap Tasks

Yield ==
    /\ running \in Tasks
    /\ Dispatch(ready, Runner)
    /\ UNCHANGED <<alarm, waiter, now>>

Sleep(d) ==
    /\ running \in Tasks \ {Idle}
    /\ alarm' = [u \in DOMAIN alarm \cup {running} |->
                    IF u = running THEN now + d ELSE alarm[u]]
    /\ Dispatch(ready, {})
    /\ UNCHANGED <<waiter, now>>

Wait ==
    /\ running \in Tasks \ {Idle}
    /\ waiter = None
    /\ waiter' = running
    /\ Dispatch(ready, {})
    /\ UNCHANGED <<alarm, now>>

Signal ==
    /\ running \in Tasks \ {Idle}
    /\ waiter # None
    /\ waiter' = None
    /\ ready' = ready \cup {waiter}
    /\ UNCHANGED <<running, alarm, now>>

\* At a tick the sleepers whose time has come become ready; then the runner
\* goes on or another task takes over.
Tick ==
    LET due == {u \in DOMAIN alarm : alarm[u] <= now + 1}
    IN  /\ now' = now + 1
        /\ alarm' = Restrict(alarm, DOMAIN alarm \ due)
        /\ \/ Dispatch(ready \cup due, Runner)
           \/ /\ running \in Tasks
              /\ ready' = ready \cup due
              /\ running' = running
        /\ UNCHANGED waiter

Next == Yield \/ Wait \/ Signal \/ Tick \/ \E d \in Delays : Sleep(d)

Spec == Init /\ [][Next]_vars
=============================================================================
