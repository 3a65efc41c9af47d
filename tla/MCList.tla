------------------------------- MODULE MCList -------------------------------
(***************************************************************************)
(* The nodes of four tasks, which move between the sleep list, the block   *)
(* list and the waiters of a mutex.                                        *)
(***************************************************************************)
EXTENDS ListRefinement

CONSTANTS idle, init, test, other, sleepers, blocked, waiters

MCNodes == {idle, init, test, other}
MCLists == {sleepers, blocked, waiters}
=============================================================================
