-------------------------- MODULE SchedRefinement --------------------------
(***************************************************************************)
(* The scheduler implements TaskSpec as long as the clock does not         *)
(* overflow.                                                               *)
(***************************************************************************)
EXTENDS Sched

Asleep == {u \in Tasks : state[u] = "sleeping"}

Abstract == INSTANCE TaskSpec WITH
    Delays <- {TicksOf(ms) : ms \in SleepMs},
    running <- current,
    ready <- {u \in Tasks : state[u] = "ready"},
    alarm <- [u \in Asleep |-> ticks[u]],
    waiter <- sysTask,
    now <- jiffies

\* The lists, the states and the two uses of task_t.ticks that task.c keeps
\* amount to the promise of TaskSpec: a task sleeps for exactly the ticks
\* that it asked for and no runnable task is ever lost.
Promise == Abstract!Spec
=============================================================================
