-------------------------------- MODULE List --------------------------------
(***************************************************************************)
(* The doubly linked lists of lib/list.c at the level of their pointers,   *)
(* with the two walks over the sleep list of kernel/task.c as functions of *)
(* the memory.  All lists link the same nodes: a task has one list_node_t, *)
(* for whichever list it is on.  The callers hold interrupts off, so that  *)
(* an operation is a step.                                                 *)
(***************************************************************************)
EXTENDS Integers, FiniteSets

CONSTANTS
    Nodes,      \* the nodes of the tasks
    Lists,
    NULL

HeadOf(l) == <<"head", l>>
TailOf(l) == <<"tail", l>>
Heads == {HeadOf(l) : l \in Lists}
Tails == {TailOf(l) : l \in Lists}
Cells == Nodes \cup Heads \cup Tails

ASSUME CellAssumption ==
    /\ Nodes \cap (Heads \cup Tails) = {}
    /\ NULL \notin Cells
    /\ IsFiniteSet(Nodes)

VARIABLE mem    \* the pointers prev and next of every cell

vars == mem

Unlinked(m, n) == m.prev[n] = NULL /\ m.next[n] = NULL

-----------------------------------------------------------------------------
(* The functions of list.c, on the memory m.                               *)

\* list_empty
Empty(m, l) == m.next[HeadOf(l)] = TailOf(l)

After(m, c) == IF c \in Nodes THEN m.next[c] ELSE c

\* list_search and list_size: the cell after i steps from the head; the walk
\* stays at the tail.
Walk(m, l) ==
    LET cell[i \in 0 .. Cardinality(Nodes) + 1] ==
            IF i = 0 THEN m.next[HeadOf(l)] ELSE After(m, cell[i - 1])
    IN  cell

Search(m, l, n) == \E i \in 0 .. Cardinality(Nodes) : Walk(m, l)[i] = n

\* Mutant: anchor->prev is overwritten before it is used.
InsertBefore_Swapped(m, anchor, n) ==
    [prev |-> [m.prev EXCEPT ![n] = m.prev[anchor], ![anchor] = n],
     next |-> [m.next EXCEPT ![n] = n]]

\* list_insert_before
InsertBefore(m, anchor, n) ==
    [prev |-> [m.prev EXCEPT ![n] = m.prev[anchor], ![anchor] = n],
     next |-> [m.next EXCEPT ![n] = anchor, ![m.prev[anchor]] = n]]

\* Mutant: the node after the new one still points back at the anchor.
InsertAfter_NoBackLink(m, anchor, n) ==
    [prev |-> [m.prev EXCEPT ![n] = anchor],
     next |-> [m.next EXCEPT ![n] = m.next[anchor], ![anchor] = n]]

\* list_insert_after
InsertAfter(m, anchor, n) ==
    [prev |-> [m.prev EXCEPT ![n] = anchor, ![m.next[anchor]] = n],
     next |-> [m.next EXCEPT ![n] = m.next[anchor], ![anchor] = n]]

\* Mutant: the node keeps its own pointers.
RemoveFrom_Dangling(m, n) ==
    [prev |-> [m.prev EXCEPT ![m.next[n]] = m.prev[n]],
     next |-> [m.next EXCEPT ![m.prev[n]] = m.next[n]]]

\* list_remove
RemoveFrom(m, n) ==
    [prev |-> [m.prev EXCEPT ![m.next[n]] = m.prev[n], ![n] = NULL],
     next |-> [m.next EXCEPT ![m.prev[n]] = m.next[n], ![n] = NULL]]

-----------------------------------------------------------------------------
(* The two walks of task.c.  later holds the nodes whose time is later.    *)

\* The anchor of task_sleep: the first node in later, or the tail.
Anchor(m, l, later) ==
    LET stops == {i \in 0 .. Cardinality(Nodes) :
                     Walk(m, l)[i] \in later \cup {TailOf(l)}}
    IN  Walk(m, l)[CHOOSE i \in stops : \A j \in stops : i <= j]

\* Mutant: task_wakeup reads ptr->next after the node is removed.
Drained_ReadsRemoved(m, l, later) ==
    LET ptr == m.next[HeadOf(l)]
    IN  IF ptr \in Nodes \ later THEN RemoveFrom(m, ptr) ELSE m

\* The loop of task_wakeup: the memory and ptr after i turns.
Drained(m, l, later) ==
    LET turn[i \in 0 .. Cardinality(Nodes)] ==
            IF i = 0 THEN [mem |-> m, ptr |-> m.next[HeadOf(l)]]
            ELSE LET at == turn[i - 1]
                 IN  IF at.ptr \in Nodes \ later
                     THEN [mem |-> RemoveFrom(at.mem, at.ptr),
                           ptr |-> at.mem.next[at.ptr]]
                     ELSE at
    IN  turn[Cardinality(Nodes)].mem

-----------------------------------------------------------------------------
(* The operations.                                                         *)

\* list_init of every list; the memory of tasks is cleared when they are
\* created.
Init ==
    mem = [prev |-> [c \in Cells |->
                        IF \E l \in Lists : c = TailOf(l)
                        THEN HeadOf(CHOOSE l \in Lists : c = TailOf(l))
                        ELSE NULL],
           next |-> [c \in Cells |->
                        IF \E l \in Lists : c = HeadOf(l)
                        THEN TailOf(CHOOSE l \in Lists : c = HeadOf(l))
                        ELSE NULL]]

Push(l, n) ==
    /\ Unlinked(mem, n)
    /\ mem' = InsertAfter(mem, HeadOf(l), n)

PushBack(l, n) ==
    /\ Unlinked(mem, n)
    /\ mem' = InsertBefore(mem, TailOf(l), n)

Pop(l) ==
    /\ ~ Empty(mem, l)
    /\ mem' = RemoveFrom(mem, mem.next[HeadOf(l)])

PopBack(l) ==
    /\ ~ Empty(mem, l)
    /\ mem' = RemoveFrom(mem, mem.prev[TailOf(l)])

RemoveNode(n) ==
    /\ mem.prev[n] # NULL
    /\ mem.next[n] # NULL
    /\ mem' = RemoveFrom(mem, n)

\* A node goes before, or after, a cell of a list.
PutBefore(anchor, n) ==
    /\ mem.prev[anchor] # NULL
    /\ Unlinked(mem, n)
    /\ mem' = InsertBefore(mem, anchor, n)

PutAfter(anchor, n) ==
    /\ mem.next[anchor] # NULL
    /\ Unlinked(mem, n)
    /\ mem' = InsertAfter(mem, anchor, n)

Next ==
    \/ \E l \in Lists : Pop(l) \/ PopBack(l)
    \/ \E n \in Nodes :
          \/ RemoveNode(n)
          \/ \E l \in Lists : Push(l, n) \/ PushBack(l, n)
          \/ \E anchor \in Cells : PutBefore(anchor, n) \/ PutAfter(anchor, n)

Spec == Init /\ [][Next]_vars

-----------------------------------------------------------------------------
(* Properties.                                                             *)

\* prev and next are inverse to each other, so that no dereference in
\* list_insert_before, list_insert_after and list_remove meets NULL, and a
\* node is either linked on both sides or on neither.
Agree(m) ==
    /\ m \in [prev : [Cells -> Cells \cup {NULL}],
              next : [Cells -> Cells \cup {NULL}]]
    /\ \A c \in Cells :
         /\ m.next[c] # NULL => m.prev[m.next[c]] = c
         /\ m.prev[c] # NULL => m.next[m.prev[c]] = c
    /\ \A n \in Nodes : m.prev[n] = NULL <=> m.next[n] = NULL
    /\ \A l \in Lists :
         /\ m.prev[HeadOf(l)] = NULL /\ m.next[HeadOf(l)] # NULL
         /\ m.next[TailOf(l)] = NULL /\ m.prev[TailOf(l)] # NULL

LinksAgree == Agree(mem)

\* The assertions of the callers are about pointers, their purpose is
\* membership: a node whose pointers are NULL is on no list, so that the
\* search of list_push fails, and any other is on exactly one; every walk
\* ends at the tail of the list that it began in.
LinkedMeansListed ==
    /\ \A n \in Nodes :
         ~ Unlinked(mem, n) <=>
            \E l \in Lists : /\ Search(mem, l, n)
                             /\ \A k \in Lists \ {l} : ~ Search(mem, k, n)
    /\ \A l \in Lists : Walk(mem, l)[Cardinality(Nodes)] = TailOf(l)
=============================================================================
