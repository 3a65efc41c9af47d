--------------------------- MODULE ListRefinement ---------------------------
(***************************************************************************)
(* The linked lists implement sequences.                                   *)
(***************************************************************************)
EXTENDS List, TaskLists

\* list_size: how many nodes the walk over list l meets.
Size(m, l) == Cardinality({i \in 0 .. Cardinality(Nodes) - 1 : Walk(m, l)[i] \in Nodes})

\* The nodes of list l in the memory m, in the order of next.
NodesOf(m, l) == [i \in 1 .. Size(m, l) |-> Walk(m, l)[i - 1]]

Contents == [l \in Lists |-> NodesOf(mem, l)]

Lifted == INSTANCE ListSpec WITH
    seq <- Contents

\* Every operation on the pointers is an operation on sequences, so that the
\* models of the scheduler and of the mutex may use sequences in their place.
ListsAreSequences == Lifted!Spec

\* The walks of task_sleep and task_wakeup, pointer by pointer, stop where
\* StopAt says, although the second removes the nodes that it walks over.
WalksAgree ==
    \A l \in Lists, later \in SUBSET Nodes :
        LET s == NodesOf(mem, l)
            stop == StopAt(s, later)
        IN  /\ NodesOf(Drained(mem, l, later), l) = SubSeq(s, stop, Len(s))
            /\ \A n \in Nodes :
                  Unlinked(mem, n) =>
                      NodesOf(InsertBefore(mem, Anchor(mem, l, later), n), l)
                          = InsertAt(s, stop, n)
=============================================================================
