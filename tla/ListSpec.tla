----------------------------- MODULE ListSpec ------------------------------
(***************************************************************************)
(* What lib/list.c promises to task.c and mutex.c: every list is a         *)
(* sequence of nodes, and a node is on one list at most.  The modules      *)
(* about tasks use lists in this form.                                     *)
(***************************************************************************)
EXTENDS TaskLists

CONSTANTS Nodes, Lists

VARIABLE seq    \* the nodes of each list, head first

Linked == UNION {ToSet(seq[l]) : l \in Lists}

Init == seq = [l \in Lists |-> <<>>]

Push(l, n) ==
    /\ n \notin Linked
    /\ seq' = [seq EXCEPT ![l] = <<n>> \o @]

PushBack(l, n) ==
    /\ n \notin Linked
    /\ seq' = [seq EXCEPT ![l] = Append(@, n)]

Pop(l) ==
    /\ seq[l] # <<>>
    /\ seq' = [seq EXCEPT ![l] = Tail(@)]

PopBack(l) ==
    /\ seq[l] # <<>>
    /\ seq' = [seq EXCEPT ![l] = Front(@)]

RemoveNode(l, n) ==
    /\ n \in ToSet(seq[l])
    /\ seq' = [seq EXCEPT ![l] = Unlink(@, n)]

Insert(l, n, slot) ==
    /\ n \notin Linked
    /\ seq' = [seq EXCEPT ![l] = InsertAt(@, slot, n)]

Next ==
    \E l \in Lists :
        \/ Pop(l) \/ PopBack(l)
        \/ \E n \in Nodes :
              \/ Push(l, n) \/ PushBack(l, n) \/ RemoveNode(l, n)
              \/ \E slot \in 1 .. Len(seq[l]) + 1 : Insert(l, n, slot)

Spec == Init /\ [][Next]_seq
=============================================================================
