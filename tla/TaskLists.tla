----------------------------- MODULE TaskLists -----------------------------
(***************************************************************************)
(* The lists of tasks of task.c, as sequences from head to tail.           *)
(***************************************************************************)
EXTENDS Integers, Sequences, SequencesExt

\* Where a walk from the head of s stops: the first position whose task is
\* in stop, or the tail.  The loops of task_sleep and task_wakeup are such
\* walks.
StopAt(s, stop) ==
    LET hits == {i \in 1 .. Len(s) : s[i] \in stop}
    IN  IF hits = {} THEN Len(s) + 1 ELSE Min(hits)

\* Mutant: list_remove is forgotten.
Unlink_Forgotten(s, t) == s

\* list_remove takes a task out of the list that it is on.
Unlink(s, t) ==
    LET i == StopAt(s, {t})
    IN  SubSeq(s, 1, i - 1) \o SubSeq(s, i + 1, Len(s))
=============================================================================
