------------------------------ MODULE PageSpec ------------------------------
(***************************************************************************)
(* What memory promises to the kernel, with neither counts nor maps: after *)
(* a boot there is a pool of frames and a store of kernel pages.  A frame  *)
(* is given to one caller at a time; a request for n kernel pages gets the *)
(* lowest run of n free ones; what is returned is free again.  The system  *)
(* stops when it cannot boot, when no frame is left, when no run of the    *)
(* requested length is free, or when pages are returned that were not      *)
(* given: for no other reason.                                             *)
(***************************************************************************)
EXTENDS Integers

CONSTANTS
    FirstFrame,     \* the number of the first frame that may be given
    Counts          \* how many kernel pages a request may be for

VARIABLES
    pool,       \* the frames there are
    store,      \* the kernel pages there are
    frames,     \* the frames that are given
    heap,       \* the kernel pages that are given
    asked,      \* the length of the run that is requested, or 0
    halted

vars == <<pool, store, frames, heap, asked, halted>>

Init ==
    /\ pool = {} /\ store = {} /\ frames = {} /\ heap = {}
    /\ asked = 0
    /\ halted = FALSE

\* Frames are above the kernel's pages and so are no kernel pages.
Boot ==
    /\ ~halted /\ pool = {}
    /\ pool' # {}
    /\ \A p \in pool' : p >= FirstFrame
    /\ \A p \in store' : p < FirstFrame
    /\ UNCHANGED <<frames, heap, asked, halted>>

Stop(reason) ==
    /\ ~halted /\ reason
    /\ halted' = TRUE
    /\ asked' = 0
    /\ UNCHANGED <<pool, store, frames, heap>>

Get(p) ==
    /\ ~halted /\ asked = 0
    /\ p \in pool \ frames
    /\ \A q \in pool \ frames : p <= q
    /\ frames' = frames \cup {p}
    /\ UNCHANGED <<pool, store, heap, asked, halted>>

Put(p) ==
    /\ ~halted /\ asked = 0
    /\ p \in frames
    /\ frames' = frames \ {p}
    /\ UNCHANGED <<pool, store, heap, asked, halted>>

Runs(n) == {p \in store : p .. p + n - 1 \subseteq store \ heap}

Ask(n) ==
    /\ ~halted /\ asked = 0 /\ pool # {}
    /\ asked' = n
    /\ UNCHANGED <<pool, store, frames, heap, halted>>

Give(p) ==
    /\ ~halted /\ asked # 0
    /\ p \in Runs(asked)
    /\ \A q \in Runs(asked) : p <= q
    /\ heap' = heap \cup (p .. p + asked - 1)
    /\ asked' = 0
    /\ UNCHANGED <<pool, store, frames, halted>>

Free(p, n) ==
    /\ ~halted /\ asked = 0
    /\ p .. p + n - 1 \subseteq heap
    /\ heap' = heap \ (p .. p + n - 1)
    /\ UNCHANGED <<pool, store, frames, asked, halted>>

\* The pages before the first that was not given are free again.
FreeTooMany(p, n) ==
    /\ ~halted /\ asked = 0
    /\ ~ p .. p + n - 1 \subseteq heap
    /\ heap' = heap \ {q \in p .. p + n - 1 : p .. q \subseteq heap}
    /\ halted' = TRUE
    /\ UNCHANGED <<pool, store, frames, asked>>

Next ==
    \/ Boot
    \/ Stop(pool = {})
    \/ Stop(pool # {} /\ asked = 0 /\ pool \subseteq frames)
    \/ Stop(asked # 0 /\ Runs(asked) = {})
    \/ \E p \in pool : Get(p) \/ Put(p)
    \/ \E n \in Counts : Ask(n)
    \/ \E p \in store : Give(p)
    \/ \E p \in heap, n \in Counts : Free(p, n) \/ FreeTooMany(p, n)

Spec == Init /\ [][Next]_vars
=============================================================================
