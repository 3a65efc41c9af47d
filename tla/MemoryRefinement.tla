-------------------------- MODULE MemoryRefinement --------------------------
(***************************************************************************)
(* Memory implements PageSpec: the boot up to mapping_init is one step of  *)
(* it, and a bitmap_scan is the request and, at its end, the answer.       *)
(***************************************************************************)
EXTENDS Memory

Mapped == pde[0] # NoPage

\* The frames and the kernel pages there are, and the length of the run that
\* is being searched for.
Pool == IF Mapped THEN KernelPages .. total_pages - 1 ELSE {}
Store == IF Mapped THEN start_page .. KernelPages - 1 ELSE {}
Asked == IF pc = "scan" /\ scan.back = "up" THEN scan.count ELSE 0
Halted == pc = "halted"

Abstract == INSTANCE PageSpec WITH
    FirstFrame <- KernelPages,
    Counts <- 1 .. MaxCount,
    pool <- Pool,
    store <- Store,
    frames <- owned,
    heap <- kowned,
    asked <- Asked,
    halted <- Halted

\* The maps, the counts and the scan of memory.c and bitmap.c amount to the
\* promise of PageSpec: pages are given to one caller at a time, first fit,
\* and the kernel stops only when there is nothing left to give.
PagesAsPromised == Abstract!Spec
=============================================================================
