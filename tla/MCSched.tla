------------------------------ MODULE MCSched ------------------------------
(***************************************************************************)
(* The scheduler with the clock stopped before it overflows: the idle task *)
(* and three threads, which sleep for one, two or three ticks; and the     *)
(* tasks that task_init creates, with the priorities it gives them.        *)
(***************************************************************************)
EXTENDS SchedRefinement

CONSTANTS idle, init, test, other

MCTable == <<idle, init, test, other>>
MCPriority == [u \in ToSet(MCTable) |-> IF u = other THEN 2 ELSE 1]
MCSleepMs == {5, 20, 30}

LiunixTable == <<idle, init, test>>
LiunixPriority == [u \in ToSet(LiunixTable) |-> IF u = idle THEN 1 ELSE 5]
=============================================================================
