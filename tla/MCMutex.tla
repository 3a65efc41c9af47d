------------------------------ MODULE MCMutex ------------------------------
(* Threads that share one lock, with the clock stopped before it overflows. *)
EXTENDS MutexRefinement

CONSTANTS idle, init, test, other

MCTable == <<idle, init, test, other>>
MCPriority == [u \in ToSet(MCTable) |-> IF u = other THEN 2 ELSE 1]
MCSleepMs == {5}
=============================================================================
