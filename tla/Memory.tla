------------------------------- MODULE Memory -------------------------------
(***************************************************************************)
(* Memory of Liunix: kernel/memory.c with lib/bitmap.c.  The boot reads    *)
(* the memory map of the loader (memory_init), builds the array of page    *)
(* references and the bitmap of kernel pages (memory_map_init) and the     *)
(* page tables (mapping_init).  Then physical pages are handed out by      *)
(* get_page and put_page, and runs of kernel pages by alloc_kpage and      *)
(* free_kpage.                                                             *)
(*                                                                         *)
(* All of it runs with interrupts off, in the boot context: it is          *)
(* sequential.  bitmap_scan is modelled one iteration a step.  owned and   *)
(* kowned are no variables of the code: they say which pages the callers   *)
(* have been given and have not returned.                                  *)
(***************************************************************************)
EXTENDS Integers, Sequences, FiniteSets

CONSTANTS
    PageSize,      \* PAGE_SIZE, the bytes of a page
    BasePages,     \* IDX(MEMORY_BASE), the pages below 1M
    Tables,        \* the number of kernel page tables
    TableEntries,  \* the entries of a page table or directory
    ByteBits,      \* the bits of a byte
    Word,          \* 2^32
    Ards,          \* the memory maps that the loader may pass
    NoPage,        \* an entry that is not present
    MaxCount       \* bound on the pages of one call of alloc_kpage

MemoryBase == BasePages * PageSize
KernelPages == Tables * TableEntries             \* IDX(KERNEL_MEMORY_SIZE)
Length == (KernelPages - BasePages) \div ByteBits
Bits == Length * ByteBits
HeapPages == BasePages .. KernelPages - 1

DirPage == 1                \* IDX(KERNEL_PAGE_DIR)
TablePage(d) == 2 + d       \* IDX(KERNEL_PAGE_TABLE[d])

IDX(addr) == addr \div PageSize
div_round_up(num, size) == (num + size - 1) \div size

ASSUME LayoutAssumption ==
    /\ PageSize \in Nat \ {0} /\ BasePages \in Nat \ {0}
    /\ Tables \in Nat \ {0} /\ TableEntries \in Nat \ {0}
    /\ ByteBits \in Nat \ {0} /\ Word \in Nat \ {0} /\ MaxCount \in Nat \ {0}
    /\ Tables < TableEntries
    /\ TablePage(Tables) < BasePages
    /\ BasePages < KernelPages
    /\ (KernelPages - BasePages) % ByteBits = 0
    /\ NoPage \notin Nat

\* The array of page references for the largest memory has room in the
\* kernel's pages.
ASSUME RoomAssumption ==
    div_round_up(IDX(Word) + BasePages, PageSize) <= KernelPages - BasePages

\* The loader's records have a base and a size of 64 bits.
ASSUME ArdsAssumption ==
    Ards \subseteq Seq([base : Nat, size : Nat, valid : BOOLEAN])

VARIABLES
    pc,           \* the next step of the boot, "up", "scan", or "halted"
    ards,         \* the memory map that the loader found
    read,         \* how many records of it memory_init has read
    memory_base, memory_size,
    total_pages, free_pages, start_page, memory_map_pages,
    memory_map,   \* the references to each page
    bits,         \* kernel_map.bits: of each byte the bits that are 1
    scan,         \* bitmap_scan: its argument and local variables
    pde, pte,     \* the page directory and the kernel page tables
    owned,        \* the pages get_page has given and not got back
    kowned        \* the pages alloc_kpage has given and not got back

boot == <<ards, read, memory_base, memory_size, total_pages, start_page,
          memory_map_pages, pde, pte>>
vars == <<pc, boot, free_pages, memory_map, bits, scan, owned, kowned>>

NoScan == [count |-> 0, next |-> 0, counter |-> 0, back |-> "up"]

Init ==
    /\ pc = "memory_init"
    /\ ards \in Ards
    /\ read = 0 /\ memory_base = 0 /\ memory_size = 0
    /\ total_pages = 0 /\ free_pages = 0
    /\ start_page = 0 /\ memory_map_pages = 0
    /\ memory_map = <<>>
    /\ bits = [b \in 0 .. Length - 1 |-> {}]
    /\ scan = NoScan
    /\ pde = [i \in 0 .. TableEntries - 1 |-> NoPage]
    /\ pte = [d \in 0 .. Tables - 1 |-> pde]
    /\ owned = {} /\ kowned = {}

(***************************************************************************)
(* The boot                                                                *)
(***************************************************************************)

zones == <<ards, read, memory_base, memory_size>>
maps == <<memory_map, bits, scan, pde, pte, owned, kowned>>

\* memory_init is called with a magic number that is not the loader's.
UnknownLoader ==
    /\ pc = "memory_init"
    /\ read = 0
    /\ pc' = "halted"
    /\ UNCHANGED <<zones, total_pages, free_pages, start_page, memory_map_pages, maps>>

\* The size of the record has 64 bits, that of the largest so far 32.
Larger(zone) == zone.valid /\ zone.size > memory_size

\* An iteration of the loop of memory_init.
ReadZone ==
    /\ pc = "memory_init"
    /\ read < Len(ards)
    /\ read' = read + 1
    /\ LET zone == ards[read + 1]
       IN  /\ memory_base' = IF Larger(zone) THEN zone.base % Word ELSE memory_base
           /\ memory_size' = IF Larger(zone) THEN zone.size % Word ELSE memory_size
    /\ UNCHANGED <<pc, ards, total_pages, free_pages, start_page,
                   memory_map_pages, maps>>

\* Mutant: without the first assertion.
ZoneFits_AnyBase ==
    /\ memory_size % PageSize = 0
    /\ memory_size >= KernelPages * PageSize

\* The assertions of memory_init and its last test.
ZoneFits ==
    /\ memory_base = MemoryBase
    /\ memory_size % PageSize = 0
    /\ memory_size >= KernelPages * PageSize

\* The rest of it.  On a memory that does not fit the boot stops.
memory_init ==
    /\ pc = "memory_init"
    /\ read = Len(ards)
    /\ total_pages' = IDX(memory_size) + BasePages
    /\ free_pages' = IDX(memory_size)
    /\ pc' = IF ZoneFits THEN "memory_map_init" ELSE "halted"
    /\ UNCHANGED <<zones, start_page, memory_map_pages, maps>>

\* It ends in a bitmap_scan for the pages of the array itself.
memory_map_init ==
    /\ pc = "memory_map_init"
    /\ memory_map_pages' = div_round_up(total_pages, PageSize)
    /\ free_pages' = free_pages - memory_map_pages'
    /\ start_page' = BasePages + memory_map_pages'
    /\ memory_map' = [p \in 0 .. memory_map_pages' * PageSize - 1 |->
                         IF p < start_page' THEN 1 ELSE 0]
    /\ bits' = [b \in 0 .. Length - 1 |-> {}]
    /\ scan' = [count |-> memory_map_pages', next |-> 0, counter |-> 0,
                back |-> "mapping_init"]
    /\ pc' = "scan"
    /\ UNCHANGED <<zones, total_pages, pde, pte, owned, kowned>>

\* The directory: the kernel's tables, and at its end the directory itself.
KernelDirectory ==
    [i \in 0 .. TableEntries - 1 |->
        IF i < Tables THEN TablePage(i)
        ELSE IF i = TableEntries - 1 THEN DirPage ELSE NoPage]

\* Mutant: the index starts again with each table.
KernelTables_Restart ==
    [d \in 0 .. Tables - 1 |->
        [i \in 0 .. TableEntries - 1 |-> IF i = 0 THEN NoPage ELSE i]]

\* The tables map each page of the kernel to itself, but not page 0.
KernelTables ==
    [d \in 0 .. Tables - 1 |->
        [i \in 0 .. TableEntries - 1 |->
            LET index == d * TableEntries + i
            IN  IF index = 0 THEN NoPage ELSE index]]

\* Mutant: mapping_init leaves the pages that it maps free.
KernelReserved_Not == memory_map

\* Mutant: mapping_init counts a reference more.
KernelReserved_Counted ==
    [p \in DOMAIN memory_map |->
        IF p \in 1 .. KernelPages - 1 THEN memory_map[p] + 1 ELSE memory_map[p]]

\* memory_map with the pages that the tables map marked.
KernelReserved ==
    [p \in DOMAIN memory_map |->
        IF p \in 1 .. KernelPages - 1 THEN 1 ELSE memory_map[p]]

mapping_init ==
    /\ pc = "mapping_init"
    /\ pde' = KernelDirectory
    /\ pte' = KernelTables
    /\ memory_map' = KernelReserved
    /\ pc' = "up"
    /\ UNCHANGED <<zones, total_pages, free_pages, start_page, memory_map_pages,
                   bits, scan, owned, kowned>>

(***************************************************************************)
(* Physical pages                                                          *)
(***************************************************************************)

\* Mutant: the search leaves out the last page.
FreeFrames_NotLast ==
    {p \in start_page .. total_pages - 2 : memory_map[p] = 0}

\* The pages on which the search of get_page stops, the first of them.
FreeFrames == {p \in start_page .. total_pages - 1 : memory_map[p] = 0}
FirstFrame == CHOOSE p \in FreeFrames : \A q \in FreeFrames : p <= q

get_page ==
    LET asserted == free_pages > 0
    IN  /\ pc = "up"
        /\ FreeFrames # {}
        /\ memory_map' = [memory_map EXCEPT ![FirstFrame] = 1]
        /\ free_pages' = IF asserted THEN free_pages - 1 ELSE free_pages
        /\ owned' = IF asserted THEN owned \cup {FirstFrame} ELSE owned
        /\ pc' = IF asserted THEN "up" ELSE "halted"
        /\ UNCHANGED <<boot, bits, scan, kowned>>

\* panic("Out of Memory!!!")
OutOfMemory ==
    /\ pc = "up"
    /\ FreeFrames = {}
    /\ pc' = "halted"
    /\ UNCHANGED <<boot, free_pages, memory_map, bits, scan, owned, kowned>>

\* Only pages that were got are put.
put_page(p) ==
    LET asserted == p \in start_page .. total_pages - 1 /\ memory_map[p] >= 1
        freed == asserted /\ memory_map[p] = 1
    IN  /\ pc = "up"
        /\ p \in owned
        /\ memory_map' = IF asserted THEN [memory_map EXCEPT ![p] = @ - 1]
                         ELSE memory_map
        /\ free_pages' = IF freed THEN free_pages + 1 ELSE free_pages
        /\ owned' = owned \ {p}
        /\ pc' = IF asserted /\ free_pages' > 0 /\ free_pages' < total_pages
                 THEN "up" ELSE "halted"
        /\ UNCHANGED <<boot, bits, scan, kowned>>

(***************************************************************************)
(* The bitmap and the kernel's pages                                       *)
(***************************************************************************)

bitmap_test(i) == i % ByteBits \in bits[i \div ByteBits]

\* Mutant: bitmap_set without the mask, clearing its whole byte.
WithBits_WholeByte(I, value) ==
    [b \in 0 .. Length - 1 |->
        IF ~value /\ \E i \in I : i \div ByteBits = b THEN {}
        ELSE {k \in 0 .. ByteBits - 1 :
                b * ByteBits + k \in I \/ k \in bits[b]}]

\* The bytes after bitmap_set of each index of I to value.
WithBits(I, value) ==
    [b \in 0 .. Length - 1 |->
        {k \in 0 .. ByteBits - 1 :
            IF b * ByteBits + k \in I THEN value ELSE k \in bits[b]}]

alloc_kpage(count) ==
    /\ pc = "up"
    /\ scan' = [count |-> count, next |-> 0, counter |-> 0, back |-> "up"]
    /\ pc' = "scan"
    /\ UNCHANGED <<boot, free_pages, memory_map, bits, owned, kowned>>

\* Mutant: a bit that is set does not end a run.
Counted_NoReset ==
    IF bitmap_test(scan.next) THEN scan.counter ELSE scan.counter + 1

\* An iteration of the first loop of bitmap_scan; the one that completes a
\* run also marks it and returns it.
Counted == IF bitmap_test(scan.next) THEN 0 ELSE scan.counter + 1

ScanOn ==
    /\ pc = "scan"
    /\ scan.next < Bits
    /\ Counted # scan.count
    /\ scan' = [scan EXCEPT !.next = @ + 1, !.counter = Counted]
    /\ UNCHANGED <<pc, boot, free_pages, memory_map, bits, owned, kowned>>

ScanFound ==
    LET start == scan.next + 1 - scan.count
        run == start .. start + scan.count - 1
    IN  /\ pc = "scan"
        /\ scan.next < Bits
        /\ Counted = scan.count
        /\ bits' = WithBits(run, TRUE)
        /\ kowned' = IF scan.back = "up"
                     THEN kowned \cup {BasePages + i : i \in run} ELSE kowned
        /\ pc' = scan.back
        /\ scan' = NoScan
        /\ UNCHANGED <<boot, free_pages, memory_map, owned>>

\* EOF: scan_page panics; memory_map_init does not look at the result.
ScanFailed ==
    /\ pc = "scan"
    /\ scan.next = Bits
    /\ pc' = IF scan.back = "up" THEN "halted" ELSE scan.back
    /\ scan' = NoScan
    /\ UNCHANGED <<boot, free_pages, memory_map, bits, owned, kowned>>

\* The caller has the first page, but the count may be any: reset_page clears
\* the bits one by one, up to the first that is clear or past the bitmap,
\* where an assertion stops the kernel.
free_kpage(first, count) ==
    LET run == first - BasePages .. first - BasePages + count - 1
        cleared == {i \in run : \A j \in run : j <= i => j < Bits /\ bitmap_test(j)}
    IN  /\ pc = "up"
        /\ bits' = WithBits(cleared, FALSE)
        /\ kowned' = kowned \ {BasePages + i : i \in cleared}
        /\ pc' = IF cleared = run THEN "up" ELSE "halted"
        /\ UNCHANGED <<boot, free_pages, memory_map, scan, owned>>

Next ==
    \/ UnknownLoader \/ ReadZone \/ memory_init \/ memory_map_init \/ mapping_init
    \/ get_page \/ OutOfMemory
    \/ \E p \in owned : put_page(p)
    \/ \E count \in 1 .. MaxCount : alloc_kpage(count)
    \/ ScanOn \/ ScanFound \/ ScanFailed
    \/ \E first \in kowned, count \in 1 .. MaxCount : free_kpage(first, count)

Spec == Init /\ [][Next]_vars

(***************************************************************************)
(* Properties                                                              *)
(***************************************************************************)

\* The boot is over and the kernel lives.
Up == pc = "up" \/ (pc = "scan" /\ scan.back = "up")

\* The variables have their types.
TypeOK ==
    /\ pc \in {"memory_init", "memory_map_init", "mapping_init", "up", "scan",
              "halted"}
    /\ ards \in Ards
    /\ read \in 0 .. Len(ards) /\ {memory_base, memory_size} \subseteq 0 .. Word - 1
    /\ {total_pages, free_pages, start_page, memory_map_pages} \subseteq Nat
    /\ \A p \in DOMAIN memory_map : memory_map[p] \in {0, 1}
    /\ bits \in [0 .. Length - 1 -> SUBSET (0 .. ByteBits - 1)]
    /\ scan \in [count : Nat, next : 0 .. Bits, counter : Nat,
                 back : {"up", "mapping_init"}]
    /\ pde \in [0 .. TableEntries - 1 -> Nat \cup {NoPage}]
    /\ pte \in [0 .. Tables - 1 -> [0 .. TableEntries - 1 -> Nat \cup {NoPage}]]
    /\ owned \subseteq Nat /\ kowned \subseteq HeapPages

\* memory_map marks the kernel's pages and those that get_page has given, no
\* page is both, and no page beyond the memory is given: two callers never
\* share a page, and none gets a page that alloc_kpage hands out.
FramesMarked ==
    Up => /\ owned \subseteq KernelPages .. total_pages - 1
          /\ \A p \in 0 .. total_pages - 1 :
                memory_map[p] = IF p < KernelPages \/ p \in owned THEN 1 ELSE 0

\* The bitmap marks the pages of memory_map itself and the pages that
\* alloc_kpage has given, also after runs were freed in parts, and neither
\* setting nor clearing bits touches the rest of a byte.  No page of
\* memory_map is given.
HeapMarked ==
    Up => /\ kowned \subseteq start_page .. KernelPages - 1
          /\ \A i \in 0 .. Bits - 1 :
                bitmap_test(i) <=> i < memory_map_pages \/ BasePages + i \in kowned

\* alloc_kpage gives as many pages as were asked for, and none that a caller
\* still has: the run that bitmap_scan counts is free from end to end.
GivenOnce ==
    [][pc = "scan" /\ scan.back = "up" /\ pc' = "up"
         => Cardinality(kowned' \ kowned) = scan.count]_vars

\* What the processor translates the page v to.
Translate(v) ==
    LET table == pde[v \div TableEntries]
    IN  IF table = NoPage THEN NoPage
        ELSE (IF table = DirPage THEN pde ELSE pte[table - TablePage(0)])
                 [v % TableEntries]

\* The kernel's pages are mapped to themselves, except page 0, and the last
\* table shows the directory and the tables; no other page is mapped.  So
\* nothing that get_page gives is mapped.
KernelMapped ==
    Up => \A v \in 0 .. TableEntries * TableEntries - 1 :
            Translate(v) =
              IF v \in 1 .. KernelPages - 1 THEN v
              ELSE LET window == v - (TableEntries - 1) * TableEntries
                   IN  IF window >= 0 THEN pde[window] ELSE NoPage

\* The memory that the pages stand for is there, and free for use, whatever
\* order the loader's zones are in.
UsableMemory ==
    Up => \E i \in DOMAIN ards :
            /\ ards[i].valid
            /\ ards[i].base = MemoryBase
            /\ total_pages * PageSize <= ards[i].base + ards[i].size
=============================================================================
