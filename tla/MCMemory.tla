------------------------------ MODULE MCMemory ------------------------------
(***************************************************************************)
(* Pages of 8 bytes, 6 pages below 1M, two page tables of 7 entries, and   *)
(* bytes of 4 bits: 8 pages of heap, of which memory_map takes 3.  A word  *)
(* is 256, so that the machine's "4G" is at page 32.                       *)
(***************************************************************************)
EXTENDS MemoryRefinement

CONSTANT absent

Low == [base |-> 0, size |-> 40, valid |-> TRUE]
Usable(size) == [base |-> 48, size |-> size, valid |-> TRUE]
Rom(size) == [base |-> 48 + size, size |-> 256 - 48 - size, valid |-> FALSE]
High(size) == [base |-> 256, size |-> size, valid |-> TRUE]

\* The smallest memory, in both orders; one of four frames more; less than
\* the kernel needs; one that is not whole pages; a larger one above 4G; and
\* one of more than 4G, whose size in a word is small.
MCArds == {
    <<Low, Usable(112), Rom(112)>>,
    <<Rom(112), Usable(112), Low>>,
    <<Low, Rom(128), Usable(128)>>,
    <<Low, Usable(104), Rom(104)>>,
    <<Low, Usable(116), Rom(116)>>,
    <<Low, Usable(112), High(160)>>,
    <<Low, High(256 + 32), Usable(120)>> }
=============================================================================
