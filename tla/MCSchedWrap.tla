---------------------------- MODULE MCSchedWrap ----------------------------
(***************************************************************************)
(* The scheduler on a machine word of few values, with the clock running   *)
(* on for ever: every time, sleeping or clock, meets both overflows.       *)
(***************************************************************************)
EXTENDS Sched

CONSTANTS idle, init, test

MCTable == <<idle, init, test>>
MCPriority == [u \in ToSet(MCTable) |-> 1]
MCSleepMs == {1, 2}
=============================================================================
