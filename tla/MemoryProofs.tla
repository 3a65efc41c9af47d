---------------------------- MODULE MemoryProofs ----------------------------
(***************************************************************************)
(* Proofs about Memory: its types, that pages are given to one caller at a *)
(* time, and that the maps say which, for every layout and every memory.   *)
(***************************************************************************)
EXTENDS MemoryRefinement, FiniteSetTheorems, TLAPS

\* Quotient and remainder make up the number.
LEMMA Division ==
    ASSUME NEW i \in Nat, NEW b \in Nat \ {0}
    PROVE  /\ i \div b \in Nat
           /\ i % b \in 0 .. b - 1
           /\ (i \div b) * b + (i % b) = i
<1> DEFINE q == i \div b
           r == i % b
           m == b * q
<1>1. q \in Nat /\ r \in 0 .. b - 1 /\ r = i - m
    OBVIOUS
<1> HIDE DEF q, r
<1>2. m \in Nat /\ q * b = m
    BY <1>1
<1> HIDE DEF m
<1>3. q * b + r = i
    BY <1>1, <1>2
<1>4. QED
    BY <1>1, <1>3 DEF q, r

\* The sizes of the bitmap.
LEMMA Sizes ==
    /\ KernelPages \in Nat /\ Length \in Nat
    /\ Bits = KernelPages - BasePages
    /\ Bits \in Nat
    /\ ByteBits \in Nat \ {0}
    /\ BasePages \in Nat
<1>1. KernelPages \in Nat /\ KernelPages - BasePages \in Nat
    BY LayoutAssumption DEF KernelPages
<1> HIDE DEF KernelPages
<1>2. ByteBits \in Nat \ {0} /\ (KernelPages - BasePages) % ByteBits = 0
    BY LayoutAssumption
<1>3. /\ (KernelPages - BasePages) \div ByteBits \in Nat
      /\ ((KernelPages - BasePages) \div ByteBits) * ByteBits
           = KernelPages - BasePages
    <2> DEFINE n == KernelPages - BasePages
               q == n \div ByteBits
    <2>1. n \in Nat /\ n % ByteBits = 0
        BY <1>1, <1>2
    <2> HIDE DEF n
    <2>2. q \in Nat /\ q * ByteBits + (n % ByteBits) = n
        BY <1>2, <2>1, Division, Zenon
    <2> HIDE DEF q
    <2>3. q * ByteBits = n
        BY <1>2, <2>1, <2>2
    <2>4. QED
        BY <2>2, <2>3 DEF q, n
<1>4. QED
    BY <1>1, <1>2, <1>3, LayoutAssumption DEF Length, Bits

\* A bit of the bitmap is in a byte of it.
LEMMA BitPlace ==
    ASSUME NEW i \in 0 .. Bits - 1
    PROVE  /\ i \div ByteBits \in 0 .. Length - 1
           /\ i % ByteBits \in 0 .. ByteBits - 1
           /\ (i \div ByteBits) * ByteBits + (i % ByteBits) = i
<1>1. /\ Length \in Nat /\ ByteBits \in Nat \ {0}
      /\ i \in Nat /\ i < Length * ByteBits
    BY Sizes DEF Bits
<1> HIDE DEF Length
<1>2. i \div ByteBits < Length
    BY <1>1
<1>3. /\ i \div ByteBits \in Nat
      /\ i % ByteBits \in 0 .. ByteBits - 1
      /\ (i \div ByteBits) * ByteBits + (i % ByteBits) = i
    BY <1>1, Division, Zenon
<1>4. QED
    BY <1>1, <1>2, <1>3

\* Setting bits sets those bits and leaves the others.
LEMMA WithBitsSets ==
    ASSUME bits \in [0 .. Length - 1 -> SUBSET (0 .. ByteBits - 1)],
           NEW I, NEW value \in BOOLEAN
    PROVE  /\ WithBits(I, value) \in [0 .. Length - 1 -> SUBSET (0 .. ByteBits - 1)]
           /\ \A i \in 0 .. Bits - 1 :
                i % ByteBits \in WithBits(I, value)[i \div ByteBits]
                  <=> IF i \in I THEN value ELSE bitmap_test(i)
<1>1. WithBits(I, value) \in [0 .. Length - 1 -> SUBSET (0 .. ByteBits - 1)]
    BY DEF WithBits
<1>2. ASSUME NEW i \in 0 .. Bits - 1
      PROVE  i % ByteBits \in WithBits(I, value)[i \div ByteBits]
               <=> IF i \in I THEN value ELSE bitmap_test(i)
    <2> DEFINE b == i \div ByteBits
               k == i % ByteBits
    <2>1. b \in 0 .. Length - 1 /\ k \in 0 .. ByteBits - 1 /\ b * ByteBits + k = i
        BY BitPlace
    <2>2. bitmap_test(i) <=> k \in bits[b]
        BY DEF bitmap_test
    <2> HIDE DEF b, k
    <2>3. k \in WithBits(I, value)[b]
            <=> IF b * ByteBits + k \in I THEN value ELSE k \in bits[b]
        BY <2>1 DEF WithBits
    <2>4. k \in WithBits(I, value)[b] <=> IF i \in I THEN value ELSE k \in bits[b]
        BY <2>1, <2>3
    <2>5. QED
        BY <2>2, <2>4 DEF b, k
<1>3. QED
    BY <1>1, <1>2

(***************************************************************************)
(* The inductive invariant                                                 *)
(***************************************************************************)

Booting == pc \in {"memory_init", "memory_map_init", "mapping_init"}
           \/ (pc = "scan" /\ scan.back = "mapping_init")

\* What memory_init and memory_map_init have established.
BootFacts ==
    /\ Booting => owned = {} /\ kowned = {}
    /\ pc \in {"memory_map_init", "scan", "mapping_init", "up"} =>
         total_pages \in KernelPages + 1 .. IDX(Word) + BasePages
    /\ pc = "memory_map_init" => free_pages = total_pages - BasePages
    /\ pc \in {"scan", "mapping_init", "up"} =>
         /\ memory_map_pages \in 1 .. KernelPages - BasePages
         /\ start_page = BasePages + memory_map_pages
         /\ memory_map_pages * PageSize >= total_pages
         /\ memory_map \in [0 .. memory_map_pages * PageSize - 1 -> {0, 1}]
    /\ Booting /\ pc \in {"scan", "mapping_init"} =>
         \A p \in 0 .. total_pages - 1 :
            memory_map[p] = IF p < start_page THEN 1 ELSE 0
    /\ pc = "mapping_init" =>
         \A i \in 0 .. Bits - 1 : bitmap_test(i) <=> i < memory_map_pages

\* The loop invariant of bitmap_scan: the last counter bits are clear.  In
\* the scan of the boot all bits are.
ScanFacts ==
    pc = "scan" =>
      /\ scan.counter < scan.count
      /\ scan.counter <= scan.next
      /\ \A i \in scan.next - scan.counter .. scan.next - 1 : ~bitmap_test(i)
      /\ scan.back = "mapping_init" =>
           /\ scan.count = memory_map_pages
           /\ scan.counter = scan.next
           /\ \A i \in 0 .. Bits - 1 : ~bitmap_test(i)

IInv == TypeOK /\ BootFacts /\ ScanFacts /\ FramesMarked /\ HeapMarked

\* The constants are numbers, and the kernel reaches above 1M.
LEMMA Numbers ==
    /\ PageSize \in Nat \ {0} /\ Word \in Nat \ {0} /\ BasePages \in Nat \ {0}
    /\ KernelPages \in Nat /\ BasePages < KernelPages
    /\ IDX(Word) \in Nat
    BY LayoutAssumption, Sizes, Division DEF IDX

\* Before the kernel is up the promises about pages say nothing.
LEMMA InitInv == Init => IInv
<1> SUFFICES ASSUME Init PROVE IInv
    OBVIOUS
<1>1. TypeOK
    <2>1. bits \in [0 .. Length - 1 -> SUBSET (0 .. ByteBits - 1)]
        BY DEF Init
    <2>2. scan \in [count : Nat, next : 0 .. Bits, counter : Nat,
                    back : {"up", "mapping_init"}]
        BY Sizes DEF Init, NoScan
    <2>3. pde \in [0 .. TableEntries - 1 -> Nat \cup {NoPage}]
          /\ pte \in [0 .. Tables - 1 -> [0 .. TableEntries - 1 -> Nat \cup {NoPage}]]
        BY DEF Init
    <2>4. read \in 0 .. Len(ards) /\ {memory_base, memory_size} \subseteq 0 .. Word - 1
        <3>1. Len(ards) \in Nat
            BY ArdsAssumption DEF Init
        <3>2. QED
            BY <3>1, Numbers DEF Init
    <2>5. \A p \in DOMAIN memory_map : memory_map[p] \in {0, 1}
        BY DEF Init
    <2>6. QED
        BY <2>1, <2>2, <2>3, <2>4, <2>5 DEF Init, TypeOK
<1>2. pc = "memory_init" /\ owned = {} /\ kowned = {}
    BY DEF Init
<1>3. QED
    BY <1>1, <1>2 DEF IInv, BootFacts, ScanFacts, FramesMarked, HeapMarked, Up,
                      Booting

\* Reading the zones: the 32-bit words stay words.
LEMMA ReadZoneInv == IInv /\ ReadZone => IInv'
<1> SUFFICES ASSUME IInv, ReadZone PROVE IInv'
    OBVIOUS
<1>1. pc = "memory_init" /\ pc' = pc
    BY DEF ReadZone
<1>2. TypeOK'
    <2> DEFINE zone == ards[read + 1]
    <2>1. ards \in Seq([base : Nat, size : Nat, valid : BOOLEAN])
          /\ read \in 0 .. Len(ards) /\ read < Len(ards)
          /\ memory_base \in 0 .. Word - 1 /\ memory_size \in 0 .. Word - 1
        BY ArdsAssumption DEF IInv, TypeOK, ReadZone
    <2>2. zone \in [base : Nat, size : Nat, valid : BOOLEAN] /\ read + 1 \in 0 .. Len(ards)
        <3> DEFINE R == [base : Nat, size : Nat, valid : BOOLEAN]
        <3>1. ards \in Seq(R)
            BY <2>1
        <3> HIDE DEF R
        <3>2. read + 1 \in 1 .. Len(ards) /\ read + 1 \in 0 .. Len(ards)
            BY <2>1, <3>1
        <3>3. ards[read + 1] \in R
            BY <3>1, <3>2
        <3>4. QED
            BY <3>2, <3>3 DEF R
    <2>3. zone.base % Word \in 0 .. Word - 1 /\ zone.size % Word \in 0 .. Word - 1
        <3> HIDE DEF zone
        <3>1. zone.base \in Nat /\ zone.size \in Nat /\ Word \in Nat \ {0}
            BY <2>2, Numbers
        <3>2. QED
            BY <3>1, Division
    <2>4. read' \in 0 .. Len(ards) /\ {memory_base, memory_size}' \subseteq 0 .. Word - 1
        BY <2>1, <2>2, <2>3 DEF ReadZone
    <2>5. QED
        BY <2>4 DEF IInv, TypeOK, ReadZone, maps
<1>3. QED
    BY <1>1, <1>2 DEF IInv, BootFacts, ScanFacts, FramesMarked, HeapMarked, Up,
                      Booting, ReadZone, maps

\* The memory that memory_init accepts has more pages than the kernel.
LEMMA MemoryInitInv == IInv /\ memory_init => IInv'
<1> SUFFICES ASSUME IInv, memory_init PROVE IInv'
    OBVIOUS
<1>1. pc = "memory_init" /\ pc' \in {"memory_map_init", "halted"}
    BY DEF memory_init
<1>2. memory_size \in Nat /\ memory_size <= Word
    BY Numbers DEF IInv, TypeOK
<1>3. IDX(memory_size) \in Nat /\ IDX(memory_size) <= IDX(Word)
    BY <1>2, Numbers DEF IDX
<1>4. ZoneFits => IDX(memory_size) >= KernelPages
    <2> HIDE DEF KernelPages
    <2>1. QED
        BY <1>2, Numbers DEF IDX, ZoneFits
<1>5. TypeOK'
    <2>1. {total_pages, free_pages, start_page, memory_map_pages}' \subseteq Nat
        <3>1. start_page \in Nat /\ memory_map_pages \in Nat
            BY DEF IInv, TypeOK
        <3>2. start_page' = start_page /\ memory_map_pages' = memory_map_pages
            BY DEF memory_init
        <3>3. total_pages' \in Nat /\ free_pages' \in Nat
            BY <1>3, Numbers DEF memory_init
        <3>4. QED
            BY <3>1, <3>2, <3>3
    <2>2. UNCHANGED <<zones, maps>>
        BY DEF memory_init
    <2>3. QED
        BY <1>1, <2>1, <2>2 DEF IInv, TypeOK, zones, maps
<1>6. pc' = "memory_map_init" =>
        /\ total_pages' \in KernelPages + 1 .. IDX(Word) + BasePages
        /\ free_pages' = total_pages' - BasePages
    BY <1>3, <1>4, Numbers DEF memory_init
<1>7. owned' = {} /\ kowned' = {}
    BY <1>1 DEF IInv, BootFacts, Booting, memory_init, maps
<1>8. QED
    BY <1>1, <1>5, <1>6, <1>7 DEF IInv, BootFacts, ScanFacts, FramesMarked,
                                  HeapMarked, Up, Booting

\* The array has an entry for each page, and fits into the kernel's pages.
LEMMA MapPages ==
    ASSUME NEW t \in 1 .. IDX(Word) + BasePages
    PROVE  /\ div_round_up(t, PageSize) \in 1 .. KernelPages - BasePages
           /\ div_round_up(t, PageSize) * PageSize >= t
<1> DEFINE m == IDX(Word) + BasePages
           q == div_round_up(t, PageSize)
<1>1. m \in Nat /\ t \in Nat /\ t >= 1 /\ t <= m
    BY Numbers
<1>2. div_round_up(m, PageSize) <= KernelPages - BasePages
    BY RoomAssumption
<1> HIDE DEF m
<1>3. /\ q \in Nat /\ q >= 1
      /\ q <= div_round_up(m, PageSize)
      /\ div_round_up(m, PageSize) \in Nat
    BY <1>1, Numbers DEF div_round_up
<1>4. q * PageSize >= t
    BY <1>1, Numbers DEF div_round_up
<1> HIDE DEF q
<1>5. q \in 1 .. KernelPages - BasePages
    BY <1>2, <1>3, Numbers
<1>6. QED
    BY <1>4, <1>5 DEF q

\* An empty bitmap has no bit set.
LEMMA EmptyBits ==
    ASSUME NEW i \in 0 .. Bits - 1
    PROVE  i % ByteBits \notin [b \in 0 .. Length - 1 |-> {}][i \div ByteBits]
    BY BitPlace

\* memory_map_init marks the pages below 1M and those of the array.
LEMMA MemoryMapInitInv == IInv /\ memory_map_init => IInv'
<1> SUFFICES ASSUME IInv, memory_map_init PROVE IInv'
    OBVIOUS
<1> DEFINE m == div_round_up(total_pages, PageSize)
<1>1. /\ pc = "memory_map_init" /\ pc' = "scan" /\ scan'.back = "mapping_init"
      /\ owned' = {} /\ kowned' = {}
    BY DEF memory_map_init, IInv, BootFacts, Booting
<1>2. /\ total_pages \in KernelPages + 1 .. IDX(Word) + BasePages
      /\ total_pages' = total_pages
      /\ free_pages = total_pages - BasePages
    BY <1>1 DEF memory_map_init, IInv, BootFacts
<1>3. m \in 1 .. KernelPages - BasePages /\ m * PageSize >= total_pages
    BY <1>2, Numbers, MapPages
<1> HIDE DEF m
<1>4. /\ memory_map_pages' = m /\ start_page' = BasePages + m
      /\ free_pages' = free_pages - m
      /\ memory_map' = [p \in 0 .. m * PageSize - 1 |-> IF p < BasePages + m THEN 1 ELSE 0]
      /\ bits' = [b \in 0 .. Length - 1 |-> {}]
      /\ scan' = [count |-> m, next |-> 0, counter |-> 0, back |-> "mapping_init"]
    BY DEF memory_map_init, m
<1>5. m \in Nat /\ m * PageSize \in Nat
    BY <1>3, Numbers
<1>6. memory_map' \in [0 .. m * PageSize - 1 -> {0, 1}]
    BY <1>4
<1>7. \A p \in 0 .. total_pages - 1 :
         memory_map'[p] = IF p < start_page' THEN 1 ELSE 0
    <2> DEFINE n == m * PageSize
    <2>1. n \in Nat /\ total_pages <= n /\ total_pages \in Nat
        BY <1>2, <1>3, <1>5, Numbers
    <2>2. memory_map' = [p \in 0 .. n - 1 |-> IF p < BasePages + m THEN 1 ELSE 0]
        BY <1>4
    <2> HIDE DEF n
    <2>3. \A p \in 0 .. total_pages - 1 : p \in 0 .. n - 1
        BY <2>1
    <2>4. QED
        BY <1>4, <2>2, <2>3
<1>8. \A i \in 0 .. Bits - 1 : ~bitmap_test(i)'
    BY <1>4, EmptyBits DEF bitmap_test
<1>9. TypeOK'
    <2>1. {total_pages, free_pages, start_page, memory_map_pages}' \subseteq Nat
        BY <1>2, <1>3, <1>4, <1>5, Numbers
    <2>2. bits' \in [0 .. Length - 1 -> SUBSET (0 .. ByteBits - 1)]
        BY <1>4
    <2>3. scan' \in [count : Nat, next : 0 .. Bits, counter : Nat,
                     back : {"up", "mapping_init"}]
        BY <1>4, <1>5, Sizes
    <2>4. \A p \in DOMAIN memory_map' : memory_map'[p] \in {0, 1}
        BY <1>6
    <2>5. UNCHANGED <<zones, pde, pte, owned, kowned>>
        BY DEF memory_map_init
    <2>6. QED
        BY <1>1, <2>1, <2>2, <2>3, <2>4, <2>5 DEF IInv, TypeOK, zones
<1>10. ScanFacts'
    <2>1. scan'.counter = 0 /\ scan'.next = 0 /\ scan'.count = memory_map_pages'
        BY <1>4
    <2>2. scan'.next - scan'.counter .. scan'.next - 1 = {}
        BY <2>1
    <2>3. QED
        BY <1>1, <1>3, <1>4, <1>8, <2>1, <2>2 DEF ScanFacts
<1>11. BootFacts'
    BY <1>1, <1>2, <1>3, <1>4, <1>6, <1>7 DEF BootFacts
<1>12. QED
    BY <1>1, <1>9, <1>10, <1>11 DEF IInv, FramesMarked, HeapMarked, Up

\* mapping_init marks the rest of the kernel's pages: the kernel is up with
\* no page given.
LEMMA MappingInitInv == IInv /\ mapping_init => IInv'
<1> SUFFICES ASSUME IInv, mapping_init PROVE IInv'
    OBVIOUS
<1>1. /\ pc = "mapping_init" /\ pc' = "up"
      /\ owned' = {} /\ kowned' = {} /\ owned = {} /\ kowned = {}
      /\ UNCHANGED <<zones, total_pages, free_pages, start_page,
                     memory_map_pages, bits, scan>>
    BY DEF mapping_init, IInv, BootFacts, Booting
<1>2. /\ total_pages \in KernelPages + 1 .. IDX(Word) + BasePages
      /\ memory_map_pages \in 1 .. KernelPages - BasePages
      /\ start_page = BasePages + memory_map_pages
      /\ memory_map_pages * PageSize >= total_pages
      /\ memory_map \in [0 .. memory_map_pages * PageSize - 1 -> {0, 1}]
      /\ \A p \in 0 .. total_pages - 1 :
            memory_map[p] = IF p < start_page THEN 1 ELSE 0
      /\ \A i \in 0 .. Bits - 1 : bitmap_test(i) <=> i < memory_map_pages
    BY <1>1 DEF IInv, BootFacts, Booting
<1> DEFINE n == memory_map_pages * PageSize
<1>3. n \in Nat /\ total_pages \in Nat /\ total_pages <= n
      /\ memory_map \in [0 .. n - 1 -> {0, 1}]
    BY <1>2, Numbers
<1> HIDE DEF n
<1>4. /\ memory_map' \in [0 .. n - 1 -> {0, 1}]
      /\ \A p \in 0 .. n - 1 :
           memory_map'[p] = IF p \in 1 .. KernelPages - 1 THEN 1 ELSE memory_map[p]
    BY <1>3 DEF mapping_init, KernelReserved
<1>5. ASSUME NEW p \in 0 .. total_pages - 1
      PROVE  memory_map'[p] = IF p < KernelPages \/ p \in owned' THEN 1 ELSE 0
    <2>1. p \in 0 .. n - 1
        BY <1>3
    <2>2. start_page \in Nat /\ 0 < start_page /\ start_page <= KernelPages
        BY <1>2, Numbers
    <2>3. p \in Nat
        OBVIOUS
    <2>4. memory_map[p] = IF p < start_page THEN 1 ELSE 0
        BY <1>2
    <2>5. QED
        BY <1>1, <1>4, <2>1, <2>2, <2>3, <2>4, Numbers
<1>6. FramesMarked'
    BY <1>1, <1>5 DEF FramesMarked
<1>7. HeapMarked'
    BY <1>1, <1>2 DEF HeapMarked, bitmap_test
<1>8. TypeOK'
    <2>1. pde' \in [0 .. TableEntries - 1 -> Nat \cup {NoPage}]
        <3>1. \A i \in 0 .. TableEntries - 1 :
                 (IF i < Tables THEN TablePage(i)
                  ELSE IF i = TableEntries - 1 THEN DirPage ELSE NoPage)
                   \in Nat \cup {NoPage}
            BY LayoutAssumption DEF TablePage, DirPage
        <3>2. QED
            BY <3>1 DEF mapping_init, KernelDirectory
    <2>2. pte' \in [0 .. Tables - 1 -> [0 .. TableEntries - 1 -> Nat \cup {NoPage}]]
        <3>1. ASSUME NEW d \in 0 .. Tables - 1, NEW i \in 0 .. TableEntries - 1
              PROVE  d * TableEntries + i \in Nat
            BY LayoutAssumption
        <3> DEFINE entry(d, i) == d * TableEntries + i
        <3>2. pte' = [d \in 0 .. Tables - 1 |-> [i \in 0 .. TableEntries - 1 |->
                         IF entry(d, i) = 0 THEN NoPage ELSE entry(d, i)]]
            BY DEF mapping_init, KernelTables
        <3>3. \A d \in 0 .. Tables - 1, i \in 0 .. TableEntries - 1 :
                 entry(d, i) \in Nat
            BY <3>1
        <3> HIDE DEF entry
        <3>4. QED
            BY <3>2, <3>3
    <2>3. \A p \in DOMAIN memory_map' : memory_map'[p] \in {0, 1}
        BY <1>4
    <2>4. QED
        BY <1>1, <2>1, <2>2, <2>3 DEF IInv, TypeOK, zones
<1>9. BootFacts'
    <2>1. memory_map' \in [0 .. memory_map_pages' * PageSize - 1 -> {0, 1}]
        BY <1>1, <1>4 DEF n
    <2>2. QED
        BY <1>1, <1>2, <2>1 DEF BootFacts, Booting
<1>10. QED
    BY <1>1, <1>6, <1>7, <1>8, <1>9 DEF IInv, ScanFacts

\* What is known of memory_map once the kernel is up.
LEMMA UpFacts ==
    ASSUME IInv, pc \in {"scan", "up"}
    PROVE  /\ total_pages \in Nat /\ start_page \in Nat /\ free_pages \in Nat
           /\ start_page <= KernelPages
           /\ \E n \in Nat : /\ total_pages <= n
                             /\ memory_map \in [0 .. n - 1 -> {0, 1}]
<1>1. /\ total_pages \in KernelPages + 1 .. IDX(Word) + BasePages
      /\ memory_map_pages \in 1 .. KernelPages - BasePages
      /\ start_page = BasePages + memory_map_pages
      /\ memory_map_pages * PageSize >= total_pages
      /\ memory_map \in [0 .. memory_map_pages * PageSize - 1 -> {0, 1}]
      /\ free_pages \in Nat
    BY DEF IInv, BootFacts, TypeOK
<1>2. memory_map_pages * PageSize \in Nat
    BY <1>1, Numbers
<1>3. QED
    BY <1>1, <1>2, Numbers

\* The search of get_page stops at the least of the pages that are free.
LEMMA LeastFrame ==
    ASSUME FreeFrames # {}, FreeFrames \subseteq Nat
    PROVE  FirstFrame \in FreeFrames /\ \A q \in FreeFrames : FirstFrame <= q
<1> DEFINE L == OpToRel(<, Nat)
<1>1. PICK p \in FreeFrames : \A q \in FreeFrames : <<q, p>> \notin L
    BY NatLessThanWellFounded, WFMin, Zenon
<1>2. ASSUME NEW q \in FreeFrames PROVE p <= q
    <2>1. L = {ss \in Nat \X Nat : ss[1] < ss[2]}
        BY Zenon DEF OpToRel
    <2> HIDE DEF L
    <2>2. ~ (q < p)
        BY <1>1, <2>1
    <2>3. QED
        BY <2>2
<1>3. QED
    BY <1>2 DEF FirstFrame

\* get_page takes a page that is marked free and so is given to nobody.
LEMMA GetPageInv == IInv /\ get_page => IInv'
<1> SUFFICES ASSUME IInv, get_page PROVE IInv'
    OBVIOUS
<1> DEFINE f == FirstFrame
<1>1. /\ pc = "up" /\ pc' \in {"up", "halted"}
      /\ UNCHANGED <<boot, bits, scan, kowned>>
      /\ memory_map' = [memory_map EXCEPT ![f] = 1]
    BY DEF get_page
<1>2. PICK n \in Nat : total_pages <= n /\ memory_map \in [0 .. n - 1 -> {0, 1}]
    BY <1>1, UpFacts
<1>3. total_pages \in Nat /\ start_page \in Nat /\ free_pages \in Nat
    BY <1>1, UpFacts
<1>4. f \in FreeFrames
    <2>1. FreeFrames # {} /\ FreeFrames \subseteq Nat
        BY <1>3 DEF get_page, FreeFrames
    <2>2. QED
        BY <2>1, LeastFrame
<1>5. f \in start_page .. total_pages - 1 /\ memory_map[f] = 0
    BY <1>4 DEF FreeFrames
<1> HIDE DEF f
<1>6. f \in 0 .. n - 1 /\ f \in 0 .. total_pages - 1
    BY <1>2, <1>3, <1>5
<1>7. /\ memory_map' \in [0 .. n - 1 -> {0, 1}]
      /\ \A p \in 0 .. n - 1 : memory_map'[p] = IF p = f THEN 1 ELSE memory_map[p]
    BY <1>1, <1>2, <1>6
<1>8. FramesMarked'
    <2> SUFFICES ASSUME pc' = "up" PROVE FramesMarked'
        BY <1>1 DEF FramesMarked, Up
    <2>1. owned' = owned \cup {f} /\ total_pages' = total_pages
        BY <1>1 DEF get_page, boot, f
    <2>2. /\ owned \subseteq KernelPages .. total_pages - 1
          /\ \A p \in 0 .. total_pages - 1 :
               memory_map[p] = IF p < KernelPages \/ p \in owned THEN 1 ELSE 0
        BY <1>1 DEF IInv, FramesMarked, Up
    <2>3. f \in KernelPages .. total_pages - 1
        BY <1>5, <1>6, <2>2, Numbers
    <2>4. \A p \in 0 .. total_pages - 1 : p \in 0 .. n - 1
        BY <1>2, <1>3
    <2>5. QED
        BY <1>7, <2>1, <2>2, <2>3, <2>4 DEF FramesMarked
<1>9. TypeOK'
    <2>1. {free_pages'} \subseteq Nat /\ owned' \subseteq Nat
        BY <1>3, <1>6 DEF get_page, IInv, TypeOK, f
    <2>2. \A p \in DOMAIN memory_map' : memory_map'[p] \in {0, 1}
        BY <1>7
    <2>3. QED
        BY <1>1, <2>1, <2>2 DEF IInv, TypeOK, boot
<1>10. BootFacts'
    <2>1. memory_map \in [0 .. memory_map_pages * PageSize - 1 -> {0, 1}]
        BY <1>1 DEF IInv, BootFacts
    <2>2. memory_map' \in [0 .. memory_map_pages * PageSize - 1 -> {0, 1}]
        BY <1>1, <2>1
    <2>3. QED
        BY <1>1, <2>2 DEF IInv, BootFacts, Booting, boot
<1>11. QED
    BY <1>1, <1>8, <1>9, <1>10 DEF IInv, ScanFacts, HeapMarked, bitmap_test, Up, boot

\* put_page takes back a page that is given; its assertions on the page hold.
LEMMA PutPageInv == IInv /\ (\E p \in owned : put_page(p)) => IInv'
<1> SUFFICES ASSUME IInv, NEW f \in owned, put_page(f) PROVE IInv'
    OBVIOUS
<1>1. /\ pc = "up" /\ pc' \in {"up", "halted"}
      /\ UNCHANGED <<boot, bits, scan, kowned>>
      /\ owned' = owned \ {f}
    BY DEF put_page
<1>2. PICK n \in Nat : total_pages <= n /\ memory_map \in [0 .. n - 1 -> {0, 1}]
    BY <1>1, UpFacts
<1>3. /\ total_pages \in Nat /\ start_page \in Nat /\ free_pages \in Nat
      /\ start_page <= KernelPages
    BY <1>1, UpFacts
<1>4. /\ owned \subseteq KernelPages .. total_pages - 1
      /\ \A p \in 0 .. total_pages - 1 :
           memory_map[p] = IF p < KernelPages \/ p \in owned THEN 1 ELSE 0
    BY <1>1 DEF IInv, FramesMarked, Up
<1>5. /\ f \in start_page .. total_pages - 1 /\ f \in 0 .. total_pages - 1
      /\ f \in 0 .. n - 1 /\ f >= KernelPages
    BY <1>2, <1>3, <1>4, Numbers
<1>6. memory_map[f] = 1
    BY <1>4, <1>5
<1>7. memory_map' = [memory_map EXCEPT ![f] = 0] /\ free_pages' = free_pages + 1
    BY <1>5, <1>6 DEF put_page
<1>8. /\ memory_map' \in [0 .. n - 1 -> {0, 1}]
      /\ \A p \in 0 .. n - 1 : memory_map'[p] = IF p = f THEN 0 ELSE memory_map[p]
    BY <1>2, <1>5, <1>7
<1>9. FramesMarked'
    <2>1. total_pages' = total_pages
        BY <1>1 DEF boot
    <2>2. \A p \in 0 .. total_pages - 1 : p \in 0 .. n - 1
        BY <1>2, <1>3
    <2>3. f \in Nat /\ ~ (f < KernelPages)
        BY <1>5, Numbers
    <2>4. QED
        BY <1>1, <1>4, <1>8, <2>1, <2>2, <2>3 DEF FramesMarked
<1>10. TypeOK'
    <2>1. {free_pages'} \subseteq Nat
        BY <1>3, <1>7
    <2>2. \A p \in DOMAIN memory_map' : memory_map'[p] \in {0, 1}
        BY <1>8
    <2>3. QED
        BY <1>1, <2>1, <2>2 DEF IInv, TypeOK, boot
<1>11. BootFacts'
    <2>1. memory_map \in [0 .. memory_map_pages * PageSize - 1 -> {0, 1}]
        BY <1>1 DEF IInv, BootFacts
    <2>2. memory_map' \in [0 .. memory_map_pages * PageSize - 1 -> {0, 1}]
        BY <1>7, <2>1
    <2>3. QED
        BY <1>1, <2>2 DEF IInv, BootFacts, Booting, boot
<1>12. QED
    BY <1>1, <1>9, <1>10, <1>11 DEF IInv, ScanFacts, HeapMarked, bitmap_test, Up, boot

\* A call of alloc_kpage begins a scan with nothing counted.
LEMMA AllocInv == IInv /\ (\E count \in 1 .. MaxCount : alloc_kpage(count)) => IInv'
<1> SUFFICES ASSUME IInv, NEW count \in 1 .. MaxCount, alloc_kpage(count)
             PROVE  IInv'
    OBVIOUS
<1>1. /\ pc = "up" /\ pc' = "scan"
      /\ UNCHANGED <<boot, free_pages, memory_map, bits, owned, kowned>>
      /\ scan' = [count |-> count, next |-> 0, counter |-> 0, back |-> "up"]
    BY DEF alloc_kpage
<1>2. count \in Nat /\ 0 < count
    BY LayoutAssumption
<1>3. scan' \in [count : Nat, next : 0 .. Bits, counter : Nat,
                 back : {"up", "mapping_init"}]
    BY <1>1, <1>2, Sizes
<1>4. TypeOK'
    BY <1>1, <1>3 DEF IInv, TypeOK, boot
<1>5. ScanFacts'
    <2>1. scan'.next = 0 /\ scan'.counter = 0 /\ scan'.count = count /\ scan'.back = "up"
        BY <1>1
    <2>2. scan'.next - scan'.counter .. scan'.next - 1 = {}
        BY <2>1
    <2>3. QED
        BY <1>2, <2>1, <2>2 DEF ScanFacts
<1>6. BootFacts'
    BY <1>1 DEF IInv, BootFacts, Booting, boot
<1>7. FramesMarked' /\ HeapMarked'
    BY <1>1 DEF IInv, FramesMarked, HeapMarked, bitmap_test, Up, boot
<1>8. QED
    BY <1>4, <1>5, <1>6, <1>7 DEF IInv

\* An iteration of bitmap_scan counts a clear bit, or starts anew.
LEMMA ScanOnInv == IInv /\ ScanOn => IInv'
<1> SUFFICES ASSUME IInv, ScanOn PROVE IInv'
    OBVIOUS
<1>1. /\ pc = "scan" /\ pc' = pc /\ scan.next < Bits /\ Counted # scan.count
      /\ UNCHANGED <<boot, free_pages, memory_map, bits, owned, kowned>>
      /\ scan' = [scan EXCEPT !.next = @ + 1, !.counter = Counted]
    BY DEF ScanOn
<1>2. /\ scan \in [count : Nat, next : 0 .. Bits, counter : Nat,
                   back : {"up", "mapping_init"}]
      /\ scan.counter < scan.count /\ scan.counter <= scan.next
      /\ \A i \in scan.next - scan.counter .. scan.next - 1 : ~bitmap_test(i)
      /\ scan.back = "mapping_init" =>
           /\ scan.count = memory_map_pages
           /\ scan.counter = scan.next
           /\ \A i \in 0 .. Bits - 1 : ~bitmap_test(i)
    BY <1>1 DEF IInv, TypeOK, ScanFacts
<1> DEFINE c == Counted
           k == scan.next
<1>3. k \in 0 .. Bits - 1 /\ k \in Nat
    BY <1>1, <1>2, Sizes
<1>4. c = IF bitmap_test(k) THEN 0 ELSE scan.counter + 1
    BY DEF Counted
<1>5. /\ scan'.next = k + 1 /\ scan'.counter = c
      /\ scan'.count = scan.count /\ scan'.back = scan.back
      /\ scan' \in [count : Nat, next : 0 .. Bits, counter : Nat,
                    back : {"up", "mapping_init"}]
    <2>1. c \in Nat /\ k + 1 \in 0 .. Bits
        BY <1>2, <1>3, <1>4, Sizes
    <2>2. scan' = [scan EXCEPT !.next = k + 1, !.counter = c]
        BY <1>1
    <2> HIDE DEF c
    <2>3. QED
        BY <1>2, <2>1, <2>2
<1> HIDE DEF c
<1>6. c \in Nat /\ c < scan.count /\ c <= k + 1
    BY <1>1, <1>2, <1>3, <1>4 DEF c
<1>7. ASSUME NEW i \in k + 1 - c .. k PROVE ~bitmap_test(i)
    <2>1. ~bitmap_test(k) /\ c = scan.counter + 1
        BY <1>3, <1>4
    <2>2. i = k \/ i \in k - scan.counter .. k - 1
        BY <1>2, <1>3, <2>1
    <2>3. QED
        BY <1>2, <2>1, <2>2
<1>8. scan.back = "mapping_init" => c = k + 1
    BY <1>2, <1>3, <1>4
<1>9. ScanFacts'
    <2>1. \A i : bitmap_test(i)' <=> bitmap_test(i)
        BY <1>1 DEF bitmap_test
    <2>2. memory_map_pages' = memory_map_pages
        BY <1>1 DEF boot
    <2>3. \A i \in scan'.next - scan'.counter .. scan'.next - 1 : ~bitmap_test(i)
        BY <1>3, <1>5, <1>7
    <2>4. QED
        BY <1>2, <1>5, <1>6, <1>8, <2>1, <2>2, <2>3 DEF ScanFacts
<1>10. TypeOK'
    BY <1>1, <1>5 DEF IInv, TypeOK, boot
<1>11. BootFacts'
    BY <1>1, <1>5 DEF IInv, BootFacts, Booting, boot
<1>12. FramesMarked' /\ HeapMarked'
    BY <1>1, <1>5 DEF IInv, FramesMarked, HeapMarked, bitmap_test, Up, boot
<1>13. QED
    BY <1>9, <1>10, <1>11, <1>12 DEF IInv

\* The bits that bitmap_scan has just counted.
FoundRun == scan.next + 1 - scan.count .. scan.next

\* The run that bitmap_scan has found is in the bitmap and clear from end to
\* end.
LEMMA RunIsClear ==
    ASSUME IInv, ScanFound
    PROVE  /\ scan.next \in 0 .. Bits - 1 /\ scan.count \in 1 .. scan.next + 1
           /\ FoundRun \subseteq 0 .. Bits - 1
           /\ \A i \in FoundRun : ~bitmap_test(i)
           /\ bits' = WithBits(FoundRun, TRUE)
           /\ kowned' = IF scan.back = "up"
                        THEN kowned \cup {BasePages + i : i \in FoundRun} ELSE kowned
           /\ scan.back = "mapping_init" =>
                scan.count = memory_map_pages /\ FoundRun = 0 .. memory_map_pages - 1
<1>1. /\ pc = "scan" /\ scan.next < Bits /\ Counted = scan.count
      /\ scan \in [count : Nat, next : 0 .. Bits, counter : Nat,
                   back : {"up", "mapping_init"}]
      /\ scan.counter < scan.count /\ scan.counter <= scan.next
      /\ \A i \in scan.next - scan.counter .. scan.next - 1 : ~bitmap_test(i)
      /\ scan.back = "mapping_init" =>
            scan.count = memory_map_pages /\ scan.counter = scan.next
    BY DEF ScanFound, IInv, TypeOK, ScanFacts
<1> DEFINE k == scan.next
           n == scan.count
<1>2. ~bitmap_test(k) /\ n = scan.counter + 1
    BY <1>1 DEF Counted
<1>3. k \in 0 .. Bits - 1 /\ n \in 1 .. k + 1
    BY <1>1, <1>2, Sizes
<1>4. k + 1 - n + n - 1 = k
    BY <1>3
<1>5. bits' = WithBits(FoundRun, TRUE)
      /\ kowned' = IF scan.back = "up"
                   THEN kowned \cup {BasePages + i : i \in FoundRun} ELSE kowned
    BY <1>4 DEF ScanFound, FoundRun
<1>6. ASSUME NEW i \in FoundRun PROVE i \in 0 .. Bits - 1 /\ ~bitmap_test(i)
    <2>1. i \in Int /\ k + 1 - n <= i /\ i <= k
        BY <1>3 DEF FoundRun
    <2>2. k + 1 - n = k - scan.counter
        BY <1>1, <1>2
    <2>3. i = k \/ i \in k - scan.counter .. k - 1
        <3> HIDE DEF k, n
        <3>1. QED
            BY <1>3, <2>1, <2>2
    <2>4. QED
        BY <1>1, <1>2, <1>3, <2>1, <2>3, Sizes
<1>7. scan.back = "mapping_init" =>
         n = memory_map_pages /\ FoundRun = 0 .. memory_map_pages - 1
    <2> SUFFICES ASSUME scan.back = "mapping_init"
                 PROVE  n = memory_map_pages /\ FoundRun = 0 .. memory_map_pages - 1
        OBVIOUS
    <2>1. n = memory_map_pages /\ n = k + 1
        BY <1>1, <1>2
    <2>2. k + 1 - n = 0 /\ k = memory_map_pages - 1
        BY <1>3, <2>1
    <2>3. QED
        BY <2>1, <2>2 DEF FoundRun
<1>8. QED
    BY <1>3, <1>5, <1>6, <1>7

\* bitmap_scan marks a run that no caller has, and gives it.
LEMMA ScanFoundInv == IInv /\ ScanFound => IInv'
<1> SUFFICES ASSUME IInv, ScanFound PROVE IInv'
    OBVIOUS
<1> DEFINE run == FoundRun
<1>1. /\ pc = "scan" /\ pc' = scan.back /\ scan' = NoScan
      /\ UNCHANGED <<boot, free_pages, memory_map, owned>>
      /\ scan.back \in {"up", "mapping_init"}
      /\ bits \in [0 .. Length - 1 -> SUBSET (0 .. ByteBits - 1)]
    BY DEF ScanFound, IInv, TypeOK
<1>2. /\ run \subseteq 0 .. Bits - 1
      /\ \A i \in run : ~bitmap_test(i)
      /\ bits' = WithBits(run, TRUE)
      /\ kowned' = IF scan.back = "up"
                   THEN kowned \cup {BasePages + i : i \in run} ELSE kowned
      /\ scan.back = "mapping_init" => run = 0 .. memory_map_pages - 1
    BY RunIsClear
<1> HIDE DEF run
<1>3. /\ bits' \in [0 .. Length - 1 -> SUBSET (0 .. ByteBits - 1)]
      /\ \A i \in 0 .. Bits - 1 : bitmap_test(i)' <=> i \in run \/ bitmap_test(i)
    <2>1. /\ WithBits(run, TRUE) \in [0 .. Length - 1 -> SUBSET (0 .. ByteBits - 1)]
          /\ \A i \in 0 .. Bits - 1 :
               i % ByteBits \in WithBits(run, TRUE)[i \div ByteBits]
                 <=> IF i \in run THEN TRUE ELSE bitmap_test(i)
        BY <1>1, WithBitsSets
    <2>2. QED
        BY <1>2, <2>1 DEF bitmap_test
<1>4. {BasePages + i : i \in run} \subseteq HeapPages
    BY <1>2, Sizes DEF HeapPages
<1>5. TypeOK'
    <2>1. scan' \in [count : Nat, next : 0 .. Bits, counter : Nat,
                    back : {"up", "mapping_init"}]
        BY <1>1, Sizes DEF NoScan
    <2>2. kowned' \subseteq HeapPages
        BY <1>2, <1>4 DEF IInv, TypeOK
    <2>3. QED
        BY <1>1, <1>3, <2>1, <2>2 DEF IInv, TypeOK, boot
<1>6. /\ memory_map_pages \in 1 .. KernelPages - BasePages
      /\ start_page = BasePages + memory_map_pages
    BY <1>1 DEF IInv, BootFacts
<1>7. CASE scan.back = "up"
    <2>1. /\ kowned \subseteq start_page .. KernelPages - 1
          /\ \A i \in 0 .. Bits - 1 :
               bitmap_test(i) <=> i < memory_map_pages \/ BasePages + i \in kowned
        BY <1>1, <1>7 DEF IInv, HeapMarked, Up
    <2>2. kowned' = kowned \cup {BasePages + i : i \in run}
        BY <1>2, <1>7
    <2>3. ASSUME NEW i \in run
          PROVE  BasePages + i \in start_page .. KernelPages - 1
        <3>1. i \in 0 .. Bits - 1 /\ ~ (i < memory_map_pages)
            BY <1>2, <2>1
        <3>2. QED
            BY <1>6, <3>1, Sizes
    <2>4. ASSUME NEW i \in 0 .. Bits - 1
          PROVE  i \in run <=> BasePages + i \in {BasePages + j : j \in run}
        <3>1. \A j \in run : BasePages + j = BasePages + i => j = i
            BY <1>2, Sizes
        <3>2. QED
            BY <3>1
    <2>5. HeapMarked'
        BY <1>1, <1>3, <2>1, <2>2, <2>3, <2>4 DEF HeapMarked, boot
    <2>6. FramesMarked'
        BY <1>1, <1>7 DEF IInv, FramesMarked, Up, boot
    <2>7. BootFacts'
        BY <1>1, <1>7 DEF IInv, BootFacts, Booting, boot
    <2>8. QED
        BY <1>1, <1>5, <1>7, <2>5, <2>6, <2>7 DEF IInv, ScanFacts
<1>8. CASE scan.back = "mapping_init"
    <2>1. \A i \in 0 .. Bits - 1 : ~bitmap_test(i)
        BY <1>1, <1>8 DEF IInv, ScanFacts
    <2>2. ASSUME NEW i \in 0 .. Bits - 1
          PROVE  bitmap_test(i)' <=> i < memory_map_pages
        <3>1. i \in run <=> i < memory_map_pages
            BY <1>2, <1>6, <1>8, Sizes
        <3>2. QED
            BY <1>3, <2>1, <3>1
    <2>3. kowned' = kowned
        BY <1>2, <1>8
    <2>4. BootFacts'
        BY <1>1, <1>8, <2>2, <2>3 DEF IInv, BootFacts, Booting, boot
    <2>5. QED
        BY <1>1, <1>5, <1>8, <2>4 DEF IInv, ScanFacts, FramesMarked, HeapMarked, Up
<1>9. QED
    BY <1>1, <1>7, <1>8

\* A scan that fails stops the kernel; that of the boot cannot fail, for the
\* bitmap is empty and has room for the run.
LEMMA ScanFailedInv == IInv /\ ScanFailed => IInv'
<1> SUFFICES ASSUME IInv, ScanFailed PROVE IInv'
    OBVIOUS
<1>1. /\ pc = "scan" /\ scan.next = Bits /\ scan' = NoScan
      /\ pc' = IF scan.back = "up" THEN "halted" ELSE scan.back
      /\ UNCHANGED <<boot, free_pages, memory_map, bits, owned, kowned>>
      /\ scan.back \in {"up", "mapping_init"}
    BY DEF ScanFailed, IInv, TypeOK
<1>2. scan.back = "up"
    <2> SUFFICES ASSUME scan.back = "mapping_init" PROVE FALSE
        BY <1>1
    <2>1. /\ scan.counter < scan.count /\ scan.count = memory_map_pages
          /\ scan.counter = Bits
          /\ memory_map_pages \in 1 .. KernelPages - BasePages
        BY <1>1 DEF IInv, ScanFacts, BootFacts
    <2>2. QED
        BY <2>1, Sizes
<1>3. TypeOK'
    <2>1. scan' \in [count : Nat, next : 0 .. Bits, counter : Nat,
                    back : {"up", "mapping_init"}]
        BY <1>1, Sizes DEF NoScan
    <2>2. QED
        BY <1>1, <1>2, <2>1 DEF IInv, TypeOK, boot
<1>4. QED
    BY <1>1, <1>2, <1>3 DEF IInv, BootFacts, Booting, ScanFacts, FramesMarked,
                            HeapMarked, Up

\* free_kpage clears bits that are set, of pages that are given: the first is,
\* and it stops at one that is not.
Cleared(first, count) ==
    LET run == first - BasePages .. first - BasePages + count - 1
    IN  {i \in run : \A j \in run : j <= i => j < Bits /\ bitmap_test(j)}
ClearedPages(first, count) == {BasePages + i : i \in Cleared(first, count)}

LEMMA ClearedAreGiven ==
    ASSUME IInv, Up, NEW first \in kowned, NEW count \in 1 .. MaxCount
    PROVE  /\ first \in Nat /\ count \in Nat
           /\ Cleared(first, count) \subseteq memory_map_pages .. Bits - 1
           /\ ClearedPages(first, count) \subseteq kowned
           /\ \A i \in 0 .. Bits - 1 :
                i \in Cleared(first, count) <=> BasePages + i \in ClearedPages(first, count)
<1>1. /\ kowned \subseteq start_page .. KernelPages - 1
      /\ \A i \in 0 .. Bits - 1 :
           bitmap_test(i) <=> i < memory_map_pages \/ BasePages + i \in kowned
    BY DEF IInv, HeapMarked
<1>2. /\ memory_map_pages \in 1 .. KernelPages - BasePages
      /\ start_page = BasePages + memory_map_pages
    BY DEF IInv, BootFacts, Up
<1>3. first \in Nat /\ count \in Nat /\ first >= start_page
    BY <1>1, <1>2, Sizes, LayoutAssumption
<1>4. ASSUME NEW i \in Cleared(first, count)
      PROVE  i \in memory_map_pages .. Bits - 1 /\ BasePages + i \in kowned
    <2>1. /\ i \in first - BasePages .. first - BasePages + count - 1
          /\ i < Bits /\ bitmap_test(i)
        <3>1. i \in first - BasePages .. first - BasePages + count - 1
            BY DEF Cleared
        <3>2. i <= i
            BY <1>3, <3>1, Sizes
        <3>3. QED
            BY <3>1, <3>2 DEF Cleared
    <2>2. i \in memory_map_pages .. Bits - 1
        BY <1>2, <1>3, <2>1, Sizes
    <2>3. i \in 0 .. Bits - 1 /\ ~(i < memory_map_pages)
        BY <1>2, <2>2, Sizes
    <2>4. QED
        BY <1>1, <2>1, <2>2, <2>3
<1>5. ASSUME NEW i \in 0 .. Bits - 1, BasePages + i \in ClearedPages(first, count)
      PROVE  i \in Cleared(first, count)
    <2>1. PICK k \in Cleared(first, count) : BasePages + k = BasePages + i
        BY <1>5 DEF ClearedPages
    <2>2. k = i
        BY <1>2, <1>4, <2>1, Sizes
    <2>3. QED
        BY <2>1, <2>2
<1>6. QED
    BY <1>3, <1>4, <1>5 DEF ClearedPages

LEMMA FreeInv ==
    IInv /\ (\E first \in kowned, count \in 1 .. MaxCount : free_kpage(first, count))
      => IInv'
<1> SUFFICES ASSUME IInv, NEW first \in kowned, NEW count \in 1 .. MaxCount,
                    free_kpage(first, count)
             PROVE  IInv'
    OBVIOUS
<1> DEFINE cleared == Cleared(first, count)
           pages == ClearedPages(first, count)
<1>1. /\ pc = "up" /\ pc' \in {"up", "halted"}
      /\ kowned' = kowned \ pages /\ bits' = WithBits(cleared, FALSE)
      /\ UNCHANGED <<boot, free_pages, memory_map, scan, owned>>
      /\ bits \in [0 .. Length - 1 -> SUBSET (0 .. ByteBits - 1)]
    BY DEF free_kpage, IInv, TypeOK, Cleared, ClearedPages
<1>2. /\ kowned \subseteq start_page .. KernelPages - 1
      /\ \A i \in 0 .. Bits - 1 :
           bitmap_test(i) <=> i < memory_map_pages \/ BasePages + i \in kowned
    BY <1>1 DEF IInv, HeapMarked, Up
<1>3. /\ cleared \subseteq memory_map_pages .. Bits - 1
      /\ \A i \in 0 .. Bits - 1 : i \in cleared <=> BasePages + i \in pages
    BY <1>1, ClearedAreGiven DEF Up
<1> HIDE DEF cleared, pages
<1>4. /\ bits' \in [0 .. Length - 1 -> SUBSET (0 .. ByteBits - 1)]
      /\ \A i \in 0 .. Bits - 1 :
           bitmap_test(i)' <=> i \notin cleared /\ bitmap_test(i)
    <2>1. /\ WithBits(cleared, FALSE) \in [0 .. Length - 1 -> SUBSET (0 .. ByteBits - 1)]
          /\ \A i \in 0 .. Bits - 1 :
               i % ByteBits \in WithBits(cleared, FALSE)[i \div ByteBits]
                 <=> IF i \in cleared THEN FALSE ELSE bitmap_test(i)
        BY <1>1, WithBitsSets
    <2>2. QED
        BY <1>1, <2>1 DEF bitmap_test
<1>5. TypeOK'
    BY <1>1, <1>4 DEF IInv, TypeOK, boot
<1>6. HeapMarked'
    <2>1. ASSUME NEW i \in 0 .. Bits - 1
          PROVE  bitmap_test(i)' <=> i < memory_map_pages \/ BasePages + i \in kowned'
        <3>1. bitmap_test(i)' <=> BasePages + i \notin pages
                  /\ (i < memory_map_pages \/ BasePages + i \in kowned)
            BY <1>2, <1>3, <1>4
        <3>2. memory_map_pages \in Nat /\ i \in Nat
            BY Sizes DEF IInv, TypeOK
        <3>3. i < memory_map_pages => i \notin cleared
            BY <1>3, <3>2
        <3>4. QED
            BY <1>1, <1>3, <3>1, <3>3
    <2>2. QED
        BY <1>1, <1>2, <2>1 DEF HeapMarked, boot
<1>7. FramesMarked' /\ BootFacts' /\ ScanFacts'
    BY <1>1 DEF IInv, FramesMarked, BootFacts, ScanFacts, Booting, Up, boot
<1>8. QED
    BY <1>5, <1>6, <1>7 DEF IInv

\* Every step, and every step that changes nothing.
LEMMA NextInv == IInv /\ [Next]_vars => IInv'
<1> SUFFICES ASSUME IInv, [Next]_vars PROVE IInv'
    OBVIOUS
<1>1. CASE OutOfMemory
    <2>1. /\ pc' = "halted"
          /\ UNCHANGED <<boot, free_pages, memory_map, bits, scan, owned, kowned>>
        BY <1>1 DEF OutOfMemory
    <2>2. QED
        BY <2>1 DEF IInv, TypeOK, BootFacts, Booting, ScanFacts, FramesMarked,
                    HeapMarked, Up, boot
<1>2. CASE UNCHANGED vars
    BY <1>2 DEF IInv, TypeOK, BootFacts, Booting, ScanFacts, FramesMarked,
                HeapMarked, bitmap_test, Up, vars, boot
<1>3. CASE UnknownLoader
    <2>1. /\ pc = "memory_init" /\ pc' = "halted" /\ UNCHANGED maps
          /\ UNCHANGED <<zones, total_pages, free_pages, start_page, memory_map_pages>>
        BY <1>3 DEF UnknownLoader
    <2>2. QED
        BY <2>1 DEF IInv, TypeOK, BootFacts, Booting, ScanFacts, FramesMarked,
                    HeapMarked, Up, zones, maps
<1>4. QED
    BY <1>1, <1>2, <1>3, ReadZoneInv, MemoryInitInv, MemoryMapInitInv, MappingInitInv,
       GetPageInv, PutPageInv, AllocInv, ScanOnInv, ScanFoundInv, ScanFailedInv,
       FreeInv DEF Next

\* The invariant holds in every reachable state.
THEOREM MemoryInvariance == Spec => []IInv
<1>1. QED
    BY InitInv, NextInv, PTL DEF Spec

\* The variables of memory.c and bitmap.c keep their types.
THEOREM MemoryTypes == Spec => []TypeOK
<1>1. IInv => TypeOK
    BY DEF IInv
<1>2. QED
    BY <1>1, MemoryInvariance, PTL

\* memory_map marks exactly the kernel's pages and the pages that get_page
\* has given: no two callers of get_page and alloc_kpage share a page.
THEOREM FramesAreMarked == Spec => []FramesMarked
<1>1. IInv => FramesMarked
    BY DEF IInv
<1>2. QED
    BY <1>1, MemoryInvariance, PTL

\* The bitmap marks exactly the pages of memory_map and the pages that
\* alloc_kpage has given and free_kpage has not taken back.
THEOREM HeapIsMarked == Spec => []HeapMarked
<1>1. IInv => HeapMarked
    BY DEF IInv
<1>2. QED
    BY <1>1, MemoryInvariance, PTL

\* alloc_kpage gives as many pages as were asked for, all of them new.
THEOREM RunsAreGivenOnce == Spec => GivenOnce
<1> DEFINE Given == pc = "scan" /\ scan.back = "up" /\ pc' = "up"
                      => Cardinality(kowned' \ kowned) = scan.count
<1>1. IInv /\ [Next]_vars => [Given]_vars
    <2> SUFFICES ASSUME IInv, Next, pc = "scan", scan.back = "up", pc' = "up"
                 PROVE  Cardinality(kowned' \ kowned) = scan.count
        OBVIOUS
    <2>1. ScanFound
        BY DEF Next, UnknownLoader, ReadZone, memory_init, memory_map_init,
               mapping_init, get_page, OutOfMemory, put_page, alloc_kpage, ScanOn, ScanFailed, free_kpage
    <2> DEFINE new == {BasePages + i : i \in FoundRun}
               low == BasePages + scan.next + 1 - scan.count
               high == BasePages + scan.next
    <2>2. /\ scan.next \in 0 .. Bits - 1 /\ scan.count \in 1 .. scan.next + 1
          /\ FoundRun \subseteq 0 .. Bits - 1
          /\ \A i \in FoundRun : ~bitmap_test(i)
          /\ kowned' = kowned \cup new
        BY <2>1, RunIsClear
    <2>3. \A i \in FoundRun : BasePages + i \notin kowned
        BY <2>2 DEF IInv, HeapMarked, Up
    <2>4. kowned' \ kowned = new
        BY <2>2, <2>3
    <2>5. low \in Int /\ high \in Int /\ high - low + 1 = scan.count /\ low <= high
        BY <2>2, Sizes
    <2>6. new = low .. high
        <3>1. ASSUME NEW i \in FoundRun PROVE BasePages + i \in low .. high
            BY <2>2, Sizes DEF FoundRun
        <3>2. ASSUME NEW p \in low .. high PROVE p \in new
            <4>1. p - BasePages \in FoundRun /\ BasePages + (p - BasePages) = p
                BY <2>2, Sizes DEF FoundRun
            <4>2. QED
                BY <4>1
        <3>3. QED
            BY <3>1, <3>2
    <2> HIDE DEF new, low, high
    <2>7. Cardinality(low .. high) = high - low + 1
        BY <2>5, FS_Interval
    <2>8. QED
        BY <2>4, <2>5, <2>6, <2>7
<1>2. QED
    BY <1>1, MemoryInvariance, PTL DEF Spec, GivenOnce

(***************************************************************************)
(* The counts, the zones and the tables                                    *)
(***************************************************************************)

\* Between memory_map_init and mapping_init the count is of the pages after
\* the array; from then on it moves with the pages that get_page can find,
\* so that it is never 0 while there is one.
FreeMoves ==
    Up => free_pages = Cardinality(FreeFrames) + (KernelPages - start_page)

CountFacts ==
    /\ Booting /\ pc \in {"scan", "mapping_init"} =>
         free_pages = total_pages - start_page
    /\ FreeMoves

\* The size that memory_init has found is that of a zone it has read, and
\* the boot goes on only if that zone fits.
ZoneFacts ==
    /\ memory_size = 0 \/ \E i \in 1 .. read :
         /\ ards[i].valid
         /\ memory_base = ards[i].base % Word
         /\ memory_size = ards[i].size % Word
    /\ pc \notin {"memory_init", "halted"} =>
         ZoneFits /\ total_pages = IDX(memory_size) + BasePages

\* The tables are empty until mapping_init has filled them.
TableFacts ==
    /\ Booting => pde[0] = NoPage
    /\ Up => pde = KernelDirectory /\ pte = KernelTables

\* bitmap_scan has passed no run that is long enough: the bit before those it
\* has counted is set.
PastFacts ==
    pc = "scan" =>
      /\ scan.counter = scan.next \/ bitmap_test(scan.next - scan.counter - 1)
      /\ \A i \in 0 .. Bits - 1 : i + scan.count <= scan.next =>
           \E j \in i .. i + scan.count - 1 : bitmap_test(j)

AllInv == IInv /\ CountFacts /\ ZoneFacts /\ TableFacts /\ PastFacts


\* The free pages of a map that marks those below k and those of S.
LEMMA TheRest ==
    ASSUME NEW lo \in Nat, NEW k \in Nat, NEW t \in Nat, lo <= k,
           NEW map, NEW S,
           \A p \in 0 .. t - 1 : map[p] = IF p < k \/ p \in S THEN 1 ELSE 0
    PROVE  {p \in lo .. t - 1 : map[p] = 0} = (k .. t - 1) \ S
<1> DEFINE F == {p \in lo .. t - 1 : map[p] = 0}
<1>1. ASSUME NEW p PROVE p \in F <=> p \in (k .. t - 1) \ S
    <2>1. /\ p \in lo .. t - 1 <=> p \in 0 .. t - 1 /\ lo <= p
          /\ p \in k .. t - 1 <=> p \in 0 .. t - 1 /\ ~ (p < k)
          /\ p \in 0 .. t - 1 /\ ~ (p < k) => lo <= p
        OBVIOUS
    <2>2. QED
        BY <2>1
<1>2. QED
    BY <1>1

\* Once the kernel is up, the pages that get_page may find are those above
\* the kernel that nobody has been given.
LEMMA FreeAreTheRest ==
    ASSUME IInv, Up
    PROVE  /\ FreeFrames = (KernelPages .. total_pages - 1) \ owned
           /\ owned \subseteq KernelPages .. total_pages - 1
           /\ total_pages \in Nat /\ start_page \in Nat
           /\ 0 < start_page /\ start_page <= KernelPages
           /\ KernelPages < total_pages
<1>1. /\ total_pages \in KernelPages + 1 .. IDX(Word) + BasePages
      /\ memory_map_pages \in 1 .. KernelPages - BasePages
      /\ start_page = BasePages + memory_map_pages
    BY DEF IInv, BootFacts, Up
<1>2. /\ total_pages \in Nat /\ start_page \in Nat
      /\ 0 < start_page /\ start_page <= KernelPages /\ KernelPages < total_pages
    BY <1>1, Numbers
<1>3. QED
    BY <1>2, Numbers, TheRest DEF IInv, FramesMarked, FreeFrames

\* The pages that may be given, less those that are: how many they are
\* before and after one of them is given.
LEMMA OneFrameLess ==
    ASSUME NEW lo \in Nat, NEW hi \in Nat, NEW S, NEW f \in (lo .. hi - 1) \ S
    PROVE  /\ Cardinality((lo .. hi - 1) \ S) \in Nat
           /\ Cardinality((lo .. hi - 1) \ S) >= 1
           /\ Cardinality((lo .. hi - 1) \ S) <= hi - lo
           /\ Cardinality((lo .. hi - 1) \ (S \cup {f}))
                = Cardinality((lo .. hi - 1) \ S) - 1
<1> DEFINE I == lo .. hi - 1
           A == I \ S
           B == I \ (S \cup {f})
<1>1. lo < hi /\ hi - 1 - lo + 1 = hi - lo
    BY f \in I
<1>2. IsFiniteSet(I) /\ Cardinality(I) = hi - lo
    BY <1>1, FS_Interval
<1> HIDE DEF I
<1>3. IsFiniteSet(A) /\ Cardinality(A) \in Nat /\ Cardinality(A) <= hi - lo
    BY <1>2, FS_Subset, FS_CardinalityType
<1>4. B = A \ {f} /\ f \in A
    BY DEF I
<1> HIDE DEF A, B
<1>5. Cardinality(B) = Cardinality(A) - 1
    BY <1>3, <1>4, FS_RemoveElement
<1>6. Cardinality(A) # 0
    BY <1>3, <1>4, FS_EmptySet
<1>7. QED
    BY <1>3, <1>5, <1>6 DEF A, B, I

\* The memory that is left when memory_map has its pages.
LEMMA MappedCount == IInv /\ CountFacts /\ mapping_init => CountFacts'
<1> SUFFICES ASSUME IInv, CountFacts, mapping_init PROVE CountFacts'
    OBVIOUS
<1>1. /\ pc = "mapping_init" /\ pc' = "up" /\ owned = {} /\ owned' = {}
      /\ free_pages' = free_pages /\ total_pages' = total_pages
      /\ start_page' = start_page
    BY DEF mapping_init, IInv, BootFacts, Booting
<1>2. free_pages = total_pages - start_page
    BY <1>1 DEF CountFacts, Booting
<1>3. IInv'
    BY MappingInitInv
<1>4. Up'
    BY <1>1 DEF Up
<1>5. /\ FreeFrames' = (KernelPages .. total_pages - 1) \ {}
      /\ total_pages \in Nat /\ start_page \in Nat /\ KernelPages < total_pages
    <2>1. /\ total_pages \in KernelPages + 1 .. IDX(Word) + BasePages
          /\ memory_map_pages \in 1 .. KernelPages - BasePages
          /\ start_page = BasePages + memory_map_pages
        BY <1>1 DEF IInv, BootFacts
    <2>2. /\ total_pages \in Nat /\ start_page \in Nat
          /\ start_page <= KernelPages /\ KernelPages < total_pages
        BY <2>1, Numbers
    <2>3. QED
        BY <1>1, <1>3, <1>4, <2>2, Numbers, TheRest DEF IInv, FramesMarked, FreeFrames
<1>6. Cardinality(FreeFrames') = total_pages - KernelPages
    <2> DEFINE n == total_pages - 1
    <2>1. n \in Int /\ KernelPages \in Int /\ KernelPages <= n
          /\ n - KernelPages + 1 = total_pages - KernelPages
        BY <1>5, Numbers
    <2>2. FreeFrames' = KernelPages .. n
        BY <1>5
    <2> HIDE DEF n
    <2>3. Cardinality(KernelPages .. n) = n - KernelPages + 1
        BY <2>1, FS_Interval
    <2>4. QED
        BY <2>1, <2>2, <2>3
<1>7. free_pages' = Cardinality(FreeFrames') + (KernelPages - start_page')
    BY <1>1, <1>2, <1>5, <1>6, Numbers
<1>8. QED
    BY <1>1, <1>7 DEF CountFacts, FreeMoves, Booting

\* get_page finds a page whenever one is free; its assertion holds, and the
\* kernel runs on.
LEMMA GetPageGives ==
    ASSUME IInv, CountFacts, get_page
    PROVE  /\ FirstFrame \in (KernelPages .. total_pages - 1) \ owned
           /\ \A q \in (KernelPages .. total_pages - 1) \ owned : FirstFrame <= q
           /\ pc = "up" /\ pc' = "up"
           /\ owned' = owned \cup {FirstFrame}
           /\ free_pages' = free_pages - 1
<1>1. pc = "up" /\ Up /\ FreeFrames # {}
    BY DEF get_page, Up
<1>2. /\ FreeFrames = (KernelPages .. total_pages - 1) \ owned
      /\ total_pages \in Nat /\ start_page \in Nat /\ start_page <= KernelPages
    BY <1>1, FreeAreTheRest
<1>3. /\ FirstFrame \in FreeFrames /\ \A q \in FreeFrames : FirstFrame <= q
    <2>1. FreeFrames \subseteq Nat
        BY <1>2, Numbers
    <2>2. QED
        BY <1>1, <2>1, LeastFrame
<1>4. free_pages = Cardinality(FreeFrames) + (KernelPages - start_page)
    BY <1>1 DEF CountFacts, FreeMoves
<1>5. Cardinality(FreeFrames) \in Nat /\ Cardinality(FreeFrames) >= 1
    BY <1>2, <1>3, OneFrameLess, Numbers
<1>6. free_pages > 0
    BY <1>2, <1>4, <1>5, Numbers
<1>7. QED
    BY <1>1, <1>2, <1>3, <1>6 DEF get_page

\* One page less is free, and the count is one less.
LEMMA GetPageCount == IInv /\ CountFacts /\ get_page => CountFacts'
<1> SUFFICES ASSUME IInv, CountFacts, get_page PROVE CountFacts'
    OBVIOUS
<1> DEFINE f == FirstFrame
           I == KernelPages .. total_pages - 1
<1>1. /\ f \in I \ owned /\ pc = "up" /\ pc' = "up"
      /\ owned' = owned \cup {f} /\ free_pages' = free_pages - 1
    BY GetPageGives
<1> HIDE DEF f
<1>2. total_pages' = total_pages /\ start_page' = start_page
    BY DEF get_page, boot
<1>3. FreeFrames = I \ owned /\ total_pages \in Nat /\ start_page \in Nat
    BY <1>1, FreeAreTheRest DEF Up
<1>4. FreeFrames' = I \ owned'
    <2>1. FramesMarked'
        BY GetPageInv DEF IInv
    <2>2. start_page <= KernelPages
        BY <1>1, FreeAreTheRest DEF Up
    <2>3. QED
        BY <1>1, <1>2, <1>3, <2>1, <2>2, Numbers, TheRest DEF FramesMarked, FreeFrames, Up
<1>5. /\ Cardinality(I \ owned) \in Nat
      /\ Cardinality(I \ (owned \cup {f})) = Cardinality(I \ owned) - 1
    BY <1>1, <1>3, OneFrameLess, Numbers
<1>6. free_pages = Cardinality(FreeFrames) + (KernelPages - start_page)
    BY <1>1 DEF CountFacts, FreeMoves, Up
<1> HIDE DEF I
<1>7. free_pages' = Cardinality(FreeFrames') + (KernelPages - start_page')
    BY <1>1, <1>2, <1>3, <1>4, <1>5, <1>6, Numbers
<1>8. QED
    BY <1>1, <1>7 DEF CountFacts, FreeMoves, Booting

\* put_page gives a page back; all its assertions hold, and the kernel runs
\* on with one page more.
LEMMA PutPageTakes ==
    ASSUME IInv, CountFacts, NEW f \in owned, put_page(f)
    PROVE  /\ pc = "up" /\ pc' = "up"
           /\ owned' = owned \ {f}
           /\ f \in KernelPages .. total_pages - 1
           /\ CountFacts'
<1> DEFINE I == KernelPages .. total_pages - 1
<1>1. pc = "up" /\ Up /\ owned' = owned \ {f}
      /\ total_pages' = total_pages /\ start_page' = start_page
    BY DEF put_page, Up, boot
<1>2. /\ FreeFrames = I \ owned /\ owned \subseteq I
      /\ total_pages \in Nat /\ start_page \in Nat
      /\ 0 < start_page /\ start_page <= KernelPages /\ KernelPages < total_pages
    BY <1>1, FreeAreTheRest
<1>3. free_pages = Cardinality(FreeFrames) + (KernelPages - start_page)
    BY <1>1 DEF CountFacts, FreeMoves
<1>4. f \in I /\ f \in start_page .. total_pages - 1 /\ f \in 0 .. total_pages - 1
    BY <1>2, Numbers
<1>5. memory_map[f] = 1
    BY <1>1, <1>4 DEF IInv, FramesMarked
<1>6. /\ free_pages' = free_pages + 1
      /\ pc' = IF free_pages' > 0 /\ free_pages' < total_pages THEN "up" ELSE "halted"
    BY <1>4, <1>5 DEF put_page
<1>7. /\ Cardinality(I \ owned') \in Nat /\ Cardinality(I \ owned') >= 1
      /\ Cardinality(I \ owned') <= total_pages - KernelPages
      /\ Cardinality(I \ owned) = Cardinality(I \ owned') - 1
    <2>1. f \in I \ owned' /\ owned' \cup {f} = owned
        BY <1>1, <1>4
    <2>2. /\ Cardinality(I \ owned') \in Nat /\ Cardinality(I \ owned') >= 1
          /\ Cardinality(I \ owned') <= total_pages - KernelPages
          /\ Cardinality(I \ (owned' \cup {f})) = Cardinality(I \ owned') - 1
        <3> DEFINE S == owned'
        <3>1. KernelPages \in Nat /\ total_pages \in Nat
            BY <1>2, Numbers
        <3>2. f \in (KernelPages .. total_pages - 1) \ S
            BY <2>1
        <3> HIDE DEF S
        <3>3. /\ Cardinality(I \ S) \in Nat
              /\ Cardinality(I \ S) >= 1
              /\ Cardinality(I \ S) <= total_pages - KernelPages
              /\ Cardinality(I \ (S \cup {f})) = Cardinality(I \ S) - 1
            <4>1. Cardinality(I \ S) \in Nat
                BY <3>1, <3>2, OneFrameLess
            <4>2. Cardinality(I \ S) >= 1
                BY <3>1, <3>2, OneFrameLess
            <4>3. Cardinality(I \ S) <= total_pages - KernelPages
                BY <3>1, <3>2, OneFrameLess
            <4>4. Cardinality(I \ (S \cup {f})) = Cardinality(I \ S) - 1
                BY <3>1, <3>2, OneFrameLess
            <4>5. QED
                BY <4>1, <4>2, <4>3, <4>4
        <3>4. QED
            BY <3>3 DEF S
    <2>3. QED
        BY <2>1, <2>2
<1> HIDE DEF I
<1>8. free_pages' = Cardinality(I \ owned') + (KernelPages - start_page)
    BY <1>2, <1>3, <1>6, <1>7, Numbers
<1>9. pc' = "up"
    BY <1>2, <1>6, <1>7, <1>8, Numbers
<1>10. FreeFrames' = I \ owned'
    <2>1. FramesMarked'
        BY PutPageInv DEF IInv
    <2>2. QED
        BY <1>1, <1>2, <1>9, <2>1, Numbers, TheRest DEF FramesMarked, FreeFrames, Up, I
<1>11. CountFacts'
    BY <1>1, <1>8, <1>9, <1>10 DEF CountFacts, FreeMoves, Booting
<1>12. QED
    BY <1>1, <1>4, <1>9, <1>11 DEF I

\* The count stays right in every step.
LEMMA NextCount == IInv /\ CountFacts /\ [Next]_vars => CountFacts'
<1> SUFFICES ASSUME IInv, CountFacts, [Next]_vars PROVE CountFacts'
    OBVIOUS
<1>1. CASE UNCHANGED <<free_pages, total_pages, start_page, memory_map>> /\ ~mapping_init
           /\ (Up' => Up)
           /\ (Booting' /\ pc' \in {"scan", "mapping_init"}
                 => Booting /\ pc \in {"scan", "mapping_init"})
    BY <1>1 DEF CountFacts, FreeMoves, FreeFrames
<1>2. CASE UnknownLoader \/ ReadZone \/ memory_init
    <2>1. pc' \in {"memory_init", "memory_map_init", "halted"}
        BY <1>2 DEF UnknownLoader, ReadZone, memory_init
    <2>2. QED
        BY <2>1 DEF CountFacts, FreeMoves, Up
<1>3. CASE memory_map_init
    <2>1. /\ pc = "memory_map_init" /\ pc' = "scan" /\ scan'.back = "mapping_init"
          /\ start_page' = BasePages + memory_map_pages'
          /\ free_pages' = free_pages - memory_map_pages'
          /\ total_pages' = total_pages
        BY <1>3 DEF memory_map_init
    <2>2. /\ free_pages = total_pages - BasePages
          /\ total_pages \in KernelPages + 1 .. IDX(Word) + BasePages
        BY <2>1 DEF IInv, BootFacts
    <2>3. memory_map_pages' \in 1 .. KernelPages - BasePages
        BY <2>1, <1>3, MemoryMapInitInv DEF IInv, BootFacts
    <2>4. free_pages' = total_pages' - start_page'
        BY <2>1, <2>2, <2>3, Numbers
    <2>5. QED
        BY <2>1, <2>4 DEF CountFacts, FreeMoves, Up
<1>4. CASE UNCHANGED vars
    BY <1>1, <1>4 DEF vars, boot, Up, Booting, CountFacts, FreeMoves, FreeFrames
<1>5. CASE ScanOn \/ ScanFound \/ ScanFailed
    <2>1. /\ pc = "scan"
          /\ UNCHANGED <<free_pages, total_pages, start_page, memory_map>>
          /\ pc' = scan.back \/ (pc' = "halted" /\ scan.back = "up")
               \/ (pc' = "scan" /\ scan'.back = scan.back)
        <3>1. scan \in [count : Nat, next : 0 .. Bits, counter : Nat,
                        back : {"up", "mapping_init"}]
            BY DEF IInv, TypeOK
        <3>2. ScanOn => scan'.back = scan.back
            BY <3>1 DEF ScanOn
        <3>3. QED
            BY <1>5, <3>2 DEF ScanOn, ScanFound, ScanFailed, boot
    <2>2. scan.back \in {"up", "mapping_init"}
        BY DEF IInv, TypeOK
    <2>3. ~mapping_init
        BY <2>1 DEF mapping_init
    <2>4. QED
        BY <1>1, <2>1, <2>2, <2>3 DEF Up, Booting
<1>6. CASE OutOfMemory \/ (\E count \in 1 .. MaxCount : alloc_kpage(count))
           \/ (\E first \in kowned, count \in 1 .. MaxCount : free_kpage(first, count))
    <2> DEFINE Kept == /\ pc = "up" /\ pc' \in {"up", "scan", "halted"}
                       /\ pc' = "scan" => scan'.back = "up"
                       /\ UNCHANGED <<free_pages, total_pages, start_page, memory_map>>
    <2>1. Kept
        <3>1. CASE OutOfMemory
            BY <3>1 DEF OutOfMemory, boot
        <3>2. ASSUME NEW count \in 1 .. MaxCount, alloc_kpage(count) PROVE Kept
            BY <3>2 DEF alloc_kpage, boot
        <3>3. ASSUME NEW first \in kowned, NEW count \in 1 .. MaxCount,
                     free_kpage(first, count)
              PROVE  Kept
            BY <3>3 DEF free_kpage, boot
        <3>4. QED
            BY <1>6, <3>1, <3>2, <3>3
    <2>2. ~mapping_init
        BY <2>1 DEF mapping_init
    <2>3. QED
        BY <1>1, <2>1, <2>2 DEF Up, Booting
<1>7. QED
    BY <1>2, <1>3, <1>4, <1>5, <1>6, MappedCount, GetPageCount, PutPageTakes DEF Next

\* The boot ends in mapping_init, which alone writes the tables; what it has
\* found out of the memory does not change any more.
LEMMA Phases ==
    ASSUME IInv, [Next]_vars
    PROVE  /\ Booting' => Booting
           /\ Up' => Up \/ mapping_init
           /\ mapping_init \/ UNCHANGED <<pde, pte>>
           /\ Up => UNCHANGED <<ards, read, memory_base, memory_size, total_pages,
                                start_page, memory_map_pages>>
<1> DEFINE Steady == UNCHANGED <<ards, read, memory_base, memory_size, total_pages,
                                 start_page, memory_map_pages>>
           Tabled == UNCHANGED <<pde, pte>>
           Goal == /\ Booting' => Booting
                   /\ Up' => Up \/ mapping_init
                   /\ mapping_init \/ Tabled
                   /\ Up => Steady
<1>1. CASE UnknownLoader \/ ReadZone \/ memory_init \/ memory_map_init
    <2>1. pc \in {"memory_init", "memory_map_init"}
        BY <1>1 DEF UnknownLoader, ReadZone, memory_init, memory_map_init
    <2>2. pc' \in {"memory_init", "memory_map_init", "halted"}
            \/ (pc' = "scan" /\ scan'.back = "mapping_init")
        <3>1. UnknownLoader \/ ReadZone \/ memory_init
                => pc' \in {"memory_init", "memory_map_init", "halted"}
            BY DEF UnknownLoader, ReadZone, memory_init
        <3>2. memory_map_init => pc' = "scan" /\ scan'.back = "mapping_init"
            BY DEF memory_map_init
        <3>3. QED
            BY <1>1, <3>1, <3>2
    <2>3. Tabled
        BY <1>1 DEF UnknownLoader, ReadZone, memory_init, memory_map_init, maps
    <2>4. QED
        BY <2>1, <2>2, <2>3 DEF Booting, Up
<1>2. CASE mapping_init
    BY <1>2 DEF mapping_init, Booting, Up
<1>3. CASE get_page \/ OutOfMemory \/ \E p \in owned : put_page(p)
    <2>1. pc = "up" /\ pc' \in {"up", "halted"} /\ UNCHANGED boot
        BY <1>3 DEF get_page, OutOfMemory, put_page
    <2>2. QED
        BY <2>1 DEF Booting, Up, boot
<1>4. CASE \E count \in 1 .. MaxCount : alloc_kpage(count)
    <2>1. pc = "up" /\ pc' = "scan" /\ scan'.back = "up" /\ UNCHANGED boot
        BY <1>4 DEF alloc_kpage
    <2>2. QED
        BY <2>1 DEF Booting, Up, boot
<1>5. CASE \E first \in kowned, count \in 1 .. MaxCount : free_kpage(first, count)
    <2>1. pc = "up" /\ pc' \in {"up", "halted"} /\ UNCHANGED boot
        BY <1>5 DEF free_kpage
    <2>2. QED
        BY <2>1 DEF Booting, Up, boot
<1>6. CASE ScanOn \/ ScanFound \/ ScanFailed
    <2>1. scan \in [count : Nat, next : 0 .. Bits, counter : Nat,
                    back : {"up", "mapping_init"}]
        BY DEF IInv, TypeOK
    <2>2. pc = "scan" /\ UNCHANGED boot
        BY <1>6 DEF ScanOn, ScanFound, ScanFailed
    <2>3. CASE ScanOn
        <3>1. pc' = "scan" /\ scan'.back = scan.back
            BY <2>1, <2>2, <2>3 DEF ScanOn
        <3>2. QED
            BY <2>2, <3>1 DEF Booting, Up, boot
    <2>4. CASE ScanFound \/ ScanFailed
        <3>1. pc' = scan.back \/ (pc' = "halted" /\ scan.back = "up")
            BY <2>4 DEF ScanFound, ScanFailed
        <3>2. QED
            BY <2>1, <2>2, <3>1 DEF Booting, Up, boot
    <2>5. QED
        BY <1>6, <2>3, <2>4
<1>7. CASE UNCHANGED vars
    BY <1>7 DEF vars, boot, Booting, Up
<1>8. Goal
    BY <1>1, <1>2, <1>3, <1>4, <1>5, <1>6, <1>7 DEF Next
<1>9. QED
    BY <1>8

\* The tables are written once.
LEMMA NextTables == IInv /\ TableFacts /\ [Next]_vars => TableFacts'
<1> SUFFICES ASSUME IInv, TableFacts, [Next]_vars PROVE TableFacts'
    OBVIOUS
<1>1. CASE mapping_init
    BY <1>1 DEF mapping_init, TableFacts, Booting
<1>2. CASE ~mapping_init
    BY <1>2, Phases DEF TableFacts
<1>3. QED
    BY <1>1, <1>2

\* The zone that memory_init keeps is one that it has read.
LEMMA NextZones == IInv /\ ZoneFacts /\ [Next]_vars => ZoneFacts'
<1> SUFFICES ASSUME IInv, ZoneFacts, [Next]_vars PROVE ZoneFacts'
    OBVIOUS
<1> DEFINE Kept(base, size, n) ==
               size = 0 \/ \E i \in 1 .. n : /\ ards[i].valid
                                              /\ base = ards[i].base % Word
                                              /\ size = ards[i].size % Word
<1>1. Kept(memory_base, memory_size, read)
    BY DEF ZoneFacts
<1>2. CASE ReadZone
    <2>1. /\ pc' = "memory_init" /\ read' = read + 1 /\ ards' = ards
          /\ LET zone == ards[read + 1]
             IN  /\ memory_base' = IF Larger(zone) THEN zone.base % Word
                                   ELSE memory_base
                 /\ memory_size' = IF Larger(zone) THEN zone.size % Word
                                   ELSE memory_size
        BY <1>2 DEF ReadZone
    <2>2. read \in Nat /\ read + 1 \in 1 .. read' /\ \A i \in 1 .. read : i \in 1 .. read'
        <3>1. Len(ards) \in Nat
            BY ArdsAssumption DEF IInv, TypeOK
        <3>2. QED
            BY <2>1, <3>1 DEF IInv, TypeOK
    <2>3. CASE Larger(ards[read + 1])
        <3>1. Kept(memory_base', memory_size', read')
            BY <2>1, <2>2, <2>3 DEF Larger
        <3>2. QED
            BY <2>1, <3>1 DEF ZoneFacts
    <2>4. CASE ~Larger(ards[read + 1])
        <3>1. Kept(memory_base', memory_size', read')
            BY <1>1, <2>1, <2>2, <2>4
        <3>2. QED
            BY <2>1, <3>1 DEF ZoneFacts
    <2>5. QED
        BY <2>3, <2>4
<1>3. CASE memory_init
    <2>1. /\ UNCHANGED zones
          /\ total_pages' = IDX(memory_size) + BasePages
          /\ pc' = IF ZoneFits THEN "memory_map_init" ELSE "halted"
        BY <1>3 DEF memory_init
    <2>2. QED
        BY <1>1, <2>1 DEF ZoneFacts, zones, ZoneFits
<1>4. CASE UNCHANGED <<zones, total_pages>> /\ (pc' \notin {"memory_init", "halted"}
                => pc \notin {"memory_init", "halted"})
    BY <1>1, <1>4 DEF ZoneFacts, zones, ZoneFits
<1>5. CASE memory_map_init \/ mapping_init
    <2>1. UNCHANGED <<zones, total_pages>>
          /\ pc \in {"memory_map_init", "mapping_init"}
        BY <1>5 DEF memory_map_init, mapping_init
    <2>2. QED
        BY <1>4, <2>1
<1>6. CASE UNCHANGED vars
    BY <1>4, <1>6 DEF vars, boot, zones
<1>7. CASE ~ (UnknownLoader \/ ReadZone \/ memory_init \/ memory_map_init
                \/ mapping_init \/ UNCHANGED vars)
    <2>1. UNCHANGED boot /\ pc \in {"up", "scan"}
        BY <1>7 DEF Next, get_page, OutOfMemory, put_page, alloc_kpage, ScanOn,
                    ScanFound, ScanFailed, free_kpage
    <2>2. QED
        BY <1>4, <2>1 DEF boot, zones
<1>8. CASE UnknownLoader
    BY <1>4, <1>8 DEF UnknownLoader
<1>9. QED
    BY <1>2, <1>3, <1>5, <1>6, <1>7, <1>8

\* bitmap_scan moves on past a bit only if no run that is long enough ends
\* there.
LEMMA NextPast == IInv /\ PastFacts /\ [Next]_vars => PastFacts'
<1> SUFFICES ASSUME IInv, PastFacts, [Next]_vars, pc' = "scan" PROVE PastFacts'
    BY DEF PastFacts
<1>1. CASE memory_map_init \/ \E count \in 1 .. MaxCount : alloc_kpage(count)
    <2>1. scan'.next = 0 /\ scan'.counter = 0 /\ scan'.count \in Nat \ {0}
        <3>1. memory_map_init => scan'.next = 0 /\ scan'.counter = 0
            BY DEF memory_map_init
        <3>2. memory_map_init => scan'.count \in Nat \ {0}
            <4> SUFFICES ASSUME memory_map_init PROVE scan'.count \in Nat \ {0}
                OBVIOUS
            <4>1. scan'.count = memory_map_pages' /\ IInv'
                BY MemoryMapInitInv DEF memory_map_init
            <4>2. QED
                BY <4>1, Numbers DEF IInv, BootFacts
        <3>3. ASSUME NEW count \in 1 .. MaxCount, alloc_kpage(count)
              PROVE  scan'.next = 0 /\ scan'.counter = 0 /\ scan'.count \in Nat \ {0}
            BY <3>3, LayoutAssumption DEF alloc_kpage
        <3>4. QED
            BY <1>1, <3>1, <3>2, <3>3
    <2>2. \A i \in 0 .. Bits - 1 : ~ (i + scan'.count <= scan'.next)
        BY <2>1
    <2>3. QED
        BY <2>1, <2>2 DEF PastFacts
<1>2. CASE ScanOn
    <2> DEFINE c == Counted
               k == scan.next
               n == scan.count
               run(i) == i .. i + n - 1
    <2>1. /\ pc = "scan" /\ k < Bits /\ c # n /\ UNCHANGED bits
          /\ scan' = [scan EXCEPT !.next = @ + 1, !.counter = Counted]
        BY <1>2 DEF ScanOn
    <2>2. /\ scan \in [count : Nat, next : 0 .. Bits, counter : Nat,
                       back : {"up", "mapping_init"}]
          /\ scan.counter < n /\ scan.counter <= k
        BY <2>1 DEF IInv, TypeOK, ScanFacts
    <2>3. /\ scan.counter = k \/ bitmap_test(k - scan.counter - 1)
          /\ \A i \in 0 .. Bits - 1 : i + n <= k => \E j \in run(i) : bitmap_test(j)
        BY <2>1 DEF PastFacts
    <2>4. scan'.next = k + 1 /\ scan'.counter = c /\ scan'.count = n
        BY <2>1, <2>2
    <2>5. c = IF bitmap_test(k) THEN 0 ELSE scan.counter + 1
        BY DEF Counted
    <2>6. k \in Nat /\ n \in Nat /\ scan.counter \in Nat /\ Bits \in Nat /\ c \in Nat
        BY <2>2, <2>5, Sizes
    <2> HIDE DEF c, k, n
    <2>7. c = k + 1 \/ bitmap_test(k + 1 - c - 1)
        <3>1. CASE bitmap_test(k)
            <4>1. k + 1 - c - 1 = k
                BY <2>5, <2>6, <3>1
            <4>2. QED
                BY <3>1, <4>1
        <3>2. CASE ~bitmap_test(k)
            <4>1. c = scan.counter + 1 /\ k + 1 - c - 1 = k - scan.counter - 1
                BY <2>5, <2>6, <3>2
            <4>2. QED
                BY <2>3, <2>6, <4>1
        <3>3. QED
            BY <3>1, <3>2
    <2>8. ASSUME NEW i \in 0 .. Bits - 1, i + n <= k + 1
          PROVE  \E j \in run(i) : bitmap_test(j)
        <3>1. CASE i + n <= k
            BY <2>3, <3>1
        <3>2. CASE i + n = k + 1 /\ bitmap_test(k)
            <4>1. k \in run(i)
                BY <2>2, <2>6, <3>2
            <4>2. QED
                BY <3>2, <4>1
        <3>3. CASE i + n = k + 1 /\ ~bitmap_test(k)
            <4>1. c = scan.counter + 1 /\ c < n
                BY <2>1, <2>2, <2>5, <2>6, <3>3 DEF n
            <4>2. scan.counter # k /\ k - scan.counter - 1 \in run(i)
                BY <2>6, <3>3, <4>1
            <4>3. QED
                BY <2>3, <4>2
        <3>4. QED
            BY <2>6, <2>8, <3>1, <3>2, <3>3
    <2>9. bits' = bits
        BY <2>1
    <2>10. (scan.counter = scan.next \/ bitmap_test(scan.next - scan.counter - 1))'
        <3> DEFINE j == k + 1 - c - 1
        <3>1. scan'.next - scan'.counter - 1 = j
            BY <2>4, <2>6
        <3>2. c = k + 1 \/ bitmap_test(j)
            BY <2>7
        <3> HIDE DEF j
        <3>3. QED
            BY <2>4, <2>9, <3>1, <3>2 DEF bitmap_test
    <2>11. (\A i \in 0 .. Bits - 1 : i + scan.count <= scan.next =>
             \E j \in i .. i + scan.count - 1 : bitmap_test(j))'
        BY <2>4, <2>8, <2>9 DEF bitmap_test
    <2>12. QED
        BY <2>10, <2>11 DEF PastFacts
<1>3. CASE ScanFound \/ ScanFailed
    <2>1. scan.back \in {"up", "mapping_init"}
        BY DEF IInv, TypeOK
    <2>2. QED
        BY <1>3, <2>1 DEF ScanFound, ScanFailed
<1>4. CASE UNCHANGED vars
    BY <1>4 DEF PastFacts, bitmap_test, vars
<1>5. CASE UnknownLoader \/ ReadZone \/ memory_init \/ mapping_init \/ get_page
           \/ OutOfMemory \/ \E p \in owned : put_page(p)
    BY <1>5 DEF UnknownLoader, ReadZone, memory_init, mapping_init, get_page, OutOfMemory, put_page
<1>6. CASE \E first \in kowned, count \in 1 .. MaxCount : free_kpage(first, count)
    BY <1>6 DEF free_kpage
<1>7. QED
    BY <1>1, <1>2, <1>3, <1>4, <1>5, <1>6 DEF Next

\* The larger invariant holds in every reachable state.
LEMMA InitInv2 == Init => AllInv
<1> SUFFICES ASSUME Init PROVE AllInv
    OBVIOUS
<1>1. /\ pc = "memory_init" /\ memory_size = 0
      /\ pde = [i \in 0 .. TableEntries - 1 |-> NoPage]
    BY DEF Init
<1>2. pde[0] = NoPage
    BY <1>1, LayoutAssumption
<1>3. QED
    BY <1>1, <1>2, InitInv DEF AllInv, CountFacts, FreeMoves, ZoneFacts, TableFacts,
                               PastFacts, Up

THEOREM AllInvariance == Spec => []AllInv
<1>1. AllInv /\ [Next]_vars => AllInv'
    BY NextInv, NextCount, NextZones, NextTables, NextPast DEF AllInv
<1>2. QED
    BY <1>1, InitInv2, PTL DEF Spec

\* A zone that begins at 1M, counted in words, begins there: there is none
\* 1M above a multiple of 4G.
ZonesAreLow ==
    \A map \in Ards : \A i \in DOMAIN map :
        map[i].valid /\ map[i].base % Word = MemoryBase
          => map[i].base = MemoryBase

\* The pages that the kernel counts are there, in one zone that the loader
\* says is free, although memory_init keeps bases and sizes in 32 bits.
THEOREM MemoryIsThere == ZonesAreLow => (Spec => []UsableMemory)
<1> SUFFICES ASSUME ZonesAreLow PROVE Spec => []UsableMemory
    OBVIOUS
<1>1. AllInv => UsableMemory
    <2> SUFFICES ASSUME AllInv, Up PROVE UsableMemory
        BY DEF UsableMemory
    <2>1. /\ ZoneFits /\ total_pages = IDX(memory_size) + BasePages
          /\ memory_size = 0 \/ \E i \in 1 .. read :
               /\ ards[i].valid
               /\ memory_base = ards[i].base % Word
               /\ memory_size = ards[i].size % Word
        BY DEF AllInv, ZoneFacts, Up
    <2>2. /\ memory_size \in 0 .. Word - 1 /\ ards \in Ards
          /\ ards \in Seq([base : Nat, size : Nat, valid : BOOLEAN])
          /\ read \in 0 .. Len(ards)
        BY ArdsAssumption DEF AllInv, IInv, TypeOK
    <2>3. memory_size # 0
        <3> DEFINE least == KernelPages * PageSize
        <3>1. least \in Nat /\ least > 0
            BY Numbers
        <3>2. memory_size >= least
            BY <2>1 DEF ZoneFits
        <3> HIDE DEF least
        <3>3. QED
            BY <3>1, <3>2
    <2>4. PICK i \in 1 .. read : /\ ards[i].valid
                                 /\ memory_base = ards[i].base % Word
                                 /\ memory_size = ards[i].size % Word
        BY <2>1, <2>3
    <2>5. i \in 1 .. Len(ards) /\ i \in DOMAIN ards
        BY <2>2
    <2>6. ards[i].base \in Nat /\ ards[i].size \in Nat
        <3> DEFINE R == [base : Nat, size : Nat, valid : BOOLEAN]
        <3>1. ards \in Seq(R)
            BY <2>2
        <3> HIDE DEF R
        <3>2. ards[i] \in R
            BY <2>5, <3>1
        <3>3. QED
            BY <3>2 DEF R
    <2>7. ards[i].base = MemoryBase
        BY <2>1, <2>2, <2>4, <2>5 DEF ZonesAreLow, ZoneFits
    <2>8. memory_size <= ards[i].size
        <3> DEFINE n == ards[i].size
        <3>1. memory_size = n % Word /\ n \in Nat
            BY <2>4, <2>6
        <3> HIDE DEF n
        <3>2. n \div Word \in Nat /\ n % Word \in 0 .. Word - 1
              /\ (n \div Word) * Word + (n % Word) = n
            BY <3>1, Numbers, Division, Zenon
        <3>3. (n \div Word) * Word \in Nat
            BY <3>2, Numbers
        <3>4. QED
            BY <3>1, <3>2, <3>3, Numbers DEF n
    <2>9. IDX(memory_size) * PageSize = memory_size
        <3>1. memory_size \in Nat /\ memory_size % PageSize = 0
            BY <2>1, <2>2, Numbers DEF ZoneFits
        <3>2. memory_size \div PageSize \in Nat
              /\ (memory_size \div PageSize) * PageSize + (memory_size % PageSize)
                   = memory_size
            BY <3>1, Numbers, Division, Zenon
        <3>3. (memory_size \div PageSize) * PageSize \in Nat
            BY <3>2, Numbers
        <3>4. QED
            BY <3>1, <3>2, <3>3 DEF IDX
    <2>10. total_pages * PageSize = memory_size + MemoryBase
        <3> DEFINE q == IDX(memory_size)
        <3>0. memory_size \in Nat /\ PageSize \in Nat \ {0}
            BY <2>2, Numbers
        <3>1. q \in Nat /\ total_pages = q + BasePages /\ q * PageSize = memory_size
            BY <2>1, <2>9, <3>0, Division DEF IDX
        <3> HIDE DEF q
        <3>2. (q + BasePages) * PageSize = q * PageSize + BasePages * PageSize
            BY <3>1, Numbers
        <3>3. QED
            BY <3>1, <3>2 DEF MemoryBase
    <2>11. MemoryBase \in Nat /\ memory_size \in Nat
        BY <2>2, Numbers DEF MemoryBase
    <2>12. total_pages * PageSize <= ards[i].base + ards[i].size
        BY <2>6, <2>7, <2>8, <2>10, <2>11
    <2>13. QED
        BY <2>4, <2>5, <2>7, <2>12 DEF UsableMemory
<1>2. QED
    BY <1>1, AllInvariance, PTL

\* What the processor finds in the entry i of the table d of the directory.
LEMMA Entry ==
    ASSUME pde = KernelDirectory, pte = KernelTables,
           NEW v \in Nat, v \div TableEntries < TableEntries
    PROVE  LET d == v \div TableEntries
               i == v % TableEntries
           IN  /\ d < Tables => Translate(v) = IF v = 0 THEN NoPage ELSE v
               /\ d = TableEntries - 1 => Translate(v) = pde[i]
               /\ Tables <= d /\ d # TableEntries - 1 => Translate(v) = NoPage
<1> DEFINE d == v \div TableEntries
           i == v % TableEntries
<1>1. /\ TableEntries \in Nat \ {0} /\ Tables \in Nat \ {0}
      /\ Tables < TableEntries /\ NoPage \notin Nat
    BY LayoutAssumption
<1>2. /\ d \in Nat /\ i \in 0 .. TableEntries - 1
      /\ d * TableEntries + i = v
    BY <1>1, Division
<1>3. d \in 0 .. TableEntries - 1
    BY <1>1, <1>2
<1>4. Translate(v) = LET table == pde[d]
                     IN  IF table = NoPage THEN NoPage
                         ELSE (IF table = DirPage THEN pde
                               ELSE pte[table - TablePage(0)])[i]
    BY DEF Translate
<1> HIDE DEF d, i
<1>5. pde[d] = IF d < Tables THEN TablePage(d)
               ELSE IF d = TableEntries - 1 THEN DirPage ELSE NoPage
    BY <1>3 DEF KernelDirectory
<1>6. CASE d < Tables
    <2>1. /\ pde[d] = 2 + d /\ pde[d] # NoPage /\ pde[d] # DirPage
          /\ pde[d] - TablePage(0) = d
        BY <1>1, <1>2, <1>5, <1>6 DEF TablePage, DirPage
    <2>2. Translate(v) = pte[d][i]
        BY <1>4, <2>1
    <2>3. pte[d][i] = IF v = 0 THEN NoPage ELSE v
        <3>1. d \in 0 .. Tables - 1
            BY <1>1, <1>2, <1>6
        <3>2. pte[d][i] = LET index == d * TableEntries + i
                          IN  IF index = 0 THEN NoPage ELSE index
            BY <1>2, <3>1, Zenon DEF KernelTables
        <3>3. QED
            BY <1>2, <3>2, Zenon
    <2>4. d # TableEntries - 1 /\ ~ (Tables <= d)
        BY <1>1, <1>2, <1>6
    <2>5. QED
        BY <2>2, <2>3, <2>4 DEF d, i
<1>7. CASE d = TableEntries - 1
    <2>1. pde[d] = DirPage /\ DirPage # NoPage /\ ~ (d < Tables)
        BY <1>1, <1>5, <1>7 DEF DirPage
    <2>2. Translate(v) = pde[i]
        BY <1>4, <2>1
    <2>3. QED
        BY <1>7, <2>1, <2>2 DEF d, i
<1>8. CASE Tables <= d /\ d # TableEntries - 1
    <2>1. pde[d] = NoPage /\ ~ (d < Tables)
        BY <1>1, <1>2, <1>5, <1>8
    <2>2. Translate(v) = NoPage
        BY <1>4, <2>1
    <2>3. QED
        BY <1>8, <2>1, <2>2 DEF d, i
<1>9. QED
    BY <1>1, <1>2, <1>6, <1>7, <1>8

\* Where a table begins decides which numbers are in it.
LEMMA Rows ==
    ASSUME NEW n \in Nat \ {0}, NEW v \in Nat, NEW d \in Nat, NEW i \in 0 .. n - 1,
           d * n + i = v, NEW t \in Nat
    PROVE  d < t <=> v < t * n
<1>1. CASE d < t
    <2>1. (d + 1) * n <= t * n
        <3>1. PICK e \in Nat : t = d + 1 + e
            BY <1>1, t - d - 1 \in Nat
        <3>2. t * n = (d + 1) * n + e * n /\ e * n \in Nat
            BY <3>1
        <3>3. QED
            BY <3>2
    <2>2. (d + 1) * n = d * n + n
        OBVIOUS
    <2>3. d * n \in Nat /\ t * n \in Nat /\ (d + 1) * n \in Nat
        OBVIOUS
    <2>4. QED
        BY <1>1, <2>1, <2>2, <2>3
<1>2. CASE t <= d
    <2>1. t * n <= d * n
        <3>1. PICK e \in Nat : d = t + e
            BY <1>2, d - t \in Nat
        <3>2. d * n = t * n + e * n /\ e * n \in Nat
            BY <3>1
        <3>3. QED
            BY <3>2
    <2>2. d * n \in Nat /\ t * n \in Nat
        OBVIOUS
    <2>3. QED
        BY <1>2, <2>1, <2>2
<1>3. QED
    BY <1>1, <1>2

\* The processor translates the kernel's pages to themselves, shows the
\* directory and the tables at the end, and nothing else.
THEOREM KernelIsMapped == Spec => []KernelMapped
<1>1. AllInv => KernelMapped
    <2> SUFFICES ASSUME AllInv, Up,
                        NEW v \in 0 .. TableEntries * TableEntries - 1
                 PROVE  Translate(v) =
                          IF v \in 1 .. KernelPages - 1 THEN v
                          ELSE LET window == v - (TableEntries - 1) * TableEntries
                               IN  IF window >= 0 THEN pde[window] ELSE NoPage
        BY DEF KernelMapped
    <2> DEFINE n == TableEntries
               d == v \div n
               i == v % n
               last == (n - 1) * n
    <2>1. pde = KernelDirectory /\ pte = KernelTables
        BY DEF AllInv, TableFacts
    <2>2. n \in Nat \ {0} /\ Tables \in Nat \ {0} /\ Tables < n /\ n - 1 \in Nat
        BY LayoutAssumption
    <2> HIDE DEF n
    <2>3. v \in Nat /\ v < n * n
        <3>1. n * n \in Nat
            BY <2>2
        <3>2. v \in 0 .. n * n - 1
            BY DEF n
        <3>3. QED
            BY <3>1, <3>2
    <2>4. d \in Nat /\ i \in 0 .. n - 1 /\ d * n + i = v
        BY <2>2, <2>3, Division, Zenon
    <2> HIDE DEF d, i, last
    <2>5. d < n /\ (d < Tables <=> v < Tables * n) /\ (d < n - 1 <=> v < last)
        BY <2>2, <2>3, <2>4, Rows DEF last
    <2>6. KernelPages = Tables * n
        BY DEF KernelPages, n
    <2>7. KernelPages \in Nat /\ last \in Nat
        BY <2>2, Numbers DEF last
    <2>8. /\ d < Tables => Translate(v) = IF v = 0 THEN NoPage ELSE v
          /\ d = n - 1 => Translate(v) = pde[i]
          /\ Tables <= d /\ d # n - 1 => Translate(v) = NoPage
        BY <2>1, <2>3, <2>5, Entry DEF d, i, n
    <2>9. CASE d < Tables
        <3>1. v < KernelPages
            BY <2>5, <2>6, <2>9
        <3>2. v < last
            BY <2>2, <2>4, <2>5, <2>9
        <3>3. v - last < 0 /\ (v \in 1 .. KernelPages - 1 <=> v # 0)
            BY <2>3, <2>7, <3>1, <3>2
        <3>4. QED
            BY <2>7, <2>8, <2>9, <2>3, <3>3 DEF last, n
    <2>10. CASE d = n - 1
        <3>1. i = v - last
            BY <2>2, <2>3, <2>4, <2>10 DEF last
        <3>2. ~ (v < KernelPages) /\ v - last >= 0
            BY <2>2, <2>3, <2>4, <2>5, <2>6, <2>7, <2>10
        <3>3. v \notin 1 .. KernelPages - 1
            BY <2>3, <2>7, <3>2
        <3>4. QED
            BY <2>8, <2>10, <3>1, <3>2, <3>3 DEF last, n
    <2>11. CASE Tables <= d /\ d # n - 1
        <3>1. ~ (v < KernelPages) /\ v < last
            BY <2>2, <2>4, <2>5, <2>6, <2>11
        <3>2. v \notin 1 .. KernelPages - 1 /\ ~ (v - last >= 0)
            BY <2>3, <2>7, <3>1
        <3>3. QED
            BY <2>8, <2>11, <3>2 DEF last, n
    <2>12. QED
        BY <2>2, <2>4, <2>9, <2>10, <2>11
<1>2. QED
    BY <1>1, AllInvariance, PTL

(***************************************************************************)
(* Memory implements PageSpec                                              *)
(***************************************************************************)

\* Before mapping_init there is nothing to give, afterwards the frames above
\* the kernel and the kernel's pages after the array.
LEMMA Pools ==
    ASSUME AllInv
    PROVE  /\ Booting => Pool = {} /\ Store = {} /\ ~Mapped /\ Asked = 0
           /\ Up => /\ Mapped
                    /\ Pool = KernelPages .. total_pages - 1
                    /\ Store = start_page .. KernelPages - 1
<1>1. ASSUME Up PROVE Mapped
    <2>1. pde = KernelDirectory
        BY <1>1 DEF AllInv, TableFacts
    <2>2. pde[0] = 2 /\ 2 # NoPage
        BY <2>1, LayoutAssumption DEF KernelDirectory, TablePage
    <2>3. QED
        BY <2>2 DEF Mapped
<1>2. Booting => ~Mapped
    BY DEF AllInv, TableFacts, Mapped
<1>3. QED
    BY <1>1, <1>2 DEF Pool, Store, Asked, Booting

\* After it they stay the same.
LEMMA PoolsKept ==
    ASSUME AllInv, Up, [Next]_vars
    PROVE  Pool' = Pool /\ Store' = Store
<1>1. ~mapping_init
    BY DEF Up, mapping_init
<1>2. UNCHANGED <<pde, total_pages, start_page>>
    BY <1>1, Phases DEF AllInv
<1>3. QED
    BY <1>2 DEF Pool, Store, Mapped

\* The promise of PageSpec about a step, or about no step.
Promised == Abstract!Next \/ UNCHANGED Abstract!vars

\* Nothing is given at the start.
LEMMA InitPromised == Init => Abstract!Init
<1> SUFFICES ASSUME Init PROVE Abstract!Init
    OBVIOUS
<1>1. pde[0] = NoPage /\ pc = "memory_init" /\ owned = {} /\ kowned = {}
    BY LayoutAssumption DEF Init
<1>2. QED
    BY <1>1 DEF Abstract!Init, Pool, Store, Mapped, Asked, Halted

\* Until mapping_init the boot is no step of PageSpec, except that it may
\* stop.
LEMMA BootPromised ==
    ASSUME AllInv, UnknownLoader \/ ReadZone \/ memory_init \/ memory_map_init
    PROVE  Promised
<1>1. /\ pc \in {"memory_init", "memory_map_init"} /\ Booting
      /\ UNCHANGED <<pde, owned, kowned>>
    BY DEF UnknownLoader, ReadZone, memory_init, memory_map_init, maps, Booting
<1>2. Pool = {} /\ Store = {} /\ Pool' = {} /\ Store' = {} /\ Asked = 0 /\ ~Halted
    <2>1. Pool = {} /\ Store = {} /\ ~Mapped /\ Asked = 0
        BY <1>1, Pools
    <2>2. Pool' = {} /\ Store' = {}
        BY <1>1, <2>1 DEF Pool, Store, Mapped
    <2>3. QED
        BY <1>1, <2>1, <2>2 DEF Halted
<1>3. Asked' = 0
    <2>1. UnknownLoader \/ ReadZone \/ memory_init => pc' # "scan"
        BY DEF UnknownLoader, ReadZone, memory_init
    <2>2. memory_map_init => scan'.back = "mapping_init"
        BY DEF memory_map_init
    <2>3. QED
        BY <2>1, <2>2 DEF Asked
<1>4. CASE Halted'
    <2>1. Abstract!Stop(Pool = {})
        BY <1>1, <1>2, <1>3, <1>4 DEF Abstract!Stop
    <2>2. QED
        BY <2>1 DEF Promised, Abstract!Next
<1>5. CASE ~Halted'
    <2>1. Halted' = Halted
        BY <1>2, <1>5 DEF Halted
    <2>2. QED
        BY <1>1, <1>2, <1>3, <2>1 DEF Promised, Abstract!vars
<1>6. QED
    BY <1>4, <1>5

\* mapping_init is the boot of PageSpec.
LEMMA MappingPromised ==
    ASSUME AllInv, mapping_init
    PROVE  Promised
<1>1. /\ pc = "mapping_init" /\ pc' = "up" /\ Booting
      /\ UNCHANGED <<total_pages, start_page, owned, kowned>>
      /\ pde' = KernelDirectory
    BY DEF mapping_init, Booting
<1>2. Pool = {} /\ Asked = 0 /\ ~Halted /\ Asked' = 0 /\ ~Halted'
    BY <1>1, Pools DEF Halted, Asked
<1>3. pde'[0] # NoPage
    BY <1>1, LayoutAssumption DEF KernelDirectory, TablePage
<1>4. Pool' = KernelPages .. total_pages - 1 /\ Store' = start_page .. KernelPages - 1
    BY <1>1, <1>3 DEF Pool, Store, Mapped
<1>5. /\ total_pages \in Nat /\ KernelPages < total_pages /\ start_page \in Nat
      /\ KernelPages \in Nat
    BY <1>1, Numbers, SMTT(30) DEF AllInv, IInv, BootFacts, TypeOK
<1>6. /\ Pool' # {}
      /\ \A p \in Pool' : p >= KernelPages
      /\ \A p \in Store' : p < KernelPages
    <2>1. KernelPages \in Pool'
        BY <1>4, <1>5
    <2>2. \A p \in Pool' : p >= KernelPages
        BY <1>4, <1>5
    <2>3. \A p \in Store' : p < KernelPages
        BY <1>4, <1>5
    <2>4. QED
        BY <2>1, <2>2, <2>3
<1>7. Abstract!Boot
    BY <1>1, <1>2, <1>6 DEF Abstract!Boot, Halted
<1>8. QED
    BY <1>7 DEF Promised, Abstract!Next

\* get_page gives the lowest frame that nobody has.
LEMMA GetPromised ==
    ASSUME AllInv, get_page
    PROVE  Promised
<1>1. /\ FirstFrame \in (KernelPages .. total_pages - 1) \ owned
      /\ \A q \in (KernelPages .. total_pages - 1) \ owned : FirstFrame <= q
      /\ pc = "up" /\ pc' = "up"
      /\ owned' = owned \cup {FirstFrame}
    BY GetPageGives DEF AllInv
<1>2. kowned' = kowned
    BY DEF get_page
<1>3. Pool = KernelPages .. total_pages - 1 /\ Pool' = Pool /\ Store' = Store
    BY <1>1, Pools, PoolsKept DEF Up, Next
<1>4. Asked = 0 /\ Asked' = 0 /\ ~Halted /\ Halted' = Halted
    BY <1>1 DEF Asked, Halted
<1>5. FirstFrame \in Pool /\ Abstract!Get(FirstFrame)
    BY <1>1, <1>2, <1>3, <1>4 DEF Abstract!Get
<1>6. QED
    BY <1>5 DEF Promised, Abstract!Next

\* It stops the kernel only when no frame is left.
LEMMA OutPromised ==
    ASSUME AllInv, OutOfMemory
    PROVE  Promised
<1>1. /\ pc = "up" /\ Up /\ pc' = "halted" /\ FreeFrames = {}
      /\ UNCHANGED <<owned, kowned>>
    BY DEF OutOfMemory, Up
<1>2. /\ Pool = KernelPages .. total_pages - 1 /\ Pool' = Pool /\ Store' = Store
    BY <1>1, Pools, PoolsKept DEF Next
<1>3. /\ FreeFrames = (KernelPages .. total_pages - 1) \ owned
      /\ total_pages \in Nat /\ KernelPages < total_pages
    BY <1>1, FreeAreTheRest DEF AllInv
<1>4. Pool # {} /\ Pool \subseteq owned
    <2>1. KernelPages \in Pool
        BY <1>2, <1>3, Numbers
    <2>2. QED
        BY <1>1, <1>2, <1>3, <2>1
<1>5. Asked = 0 /\ Asked' = 0 /\ ~Halted /\ Halted'
    BY <1>1 DEF Asked, Halted
<1>6. Abstract!Stop(Pool # {} /\ Asked = 0 /\ Pool \subseteq owned)
    BY <1>1, <1>2, <1>4, <1>5 DEF Abstract!Stop, Halted
<1>7. QED
    BY <1>6 DEF Promised, Abstract!Next

\* put_page takes the frame back, and does not stop the kernel.
LEMMA PutPromised ==
    ASSUME AllInv, NEW p \in owned, put_page(p)
    PROVE  Promised
<1>1. /\ pc = "up" /\ pc' = "up" /\ owned' = owned \ {p}
      /\ p \in KernelPages .. total_pages - 1
    BY PutPageTakes DEF AllInv
<1>2. kowned' = kowned
    BY DEF put_page
<1>3. Pool = KernelPages .. total_pages - 1 /\ Pool' = Pool /\ Store' = Store
    BY <1>1, Pools, PoolsKept DEF Up, Next
<1>4. Asked = 0 /\ Asked' = 0 /\ ~Halted /\ Halted' = Halted
    BY <1>1 DEF Asked, Halted
<1>5. p \in Pool /\ Abstract!Put(p)
    BY <1>1, <1>2, <1>3, <1>4 DEF Abstract!Put
<1>6. QED
    BY <1>5 DEF Promised, Abstract!Next

\* A call of alloc_kpage asks for a run.
LEMMA AskPromised ==
    ASSUME AllInv, NEW count \in 1 .. MaxCount, alloc_kpage(count)
    PROVE  Promised
<1>1. /\ pc = "up" /\ Up /\ pc' = "scan" /\ UNCHANGED <<owned, kowned>>
      /\ scan'.back = "up" /\ scan'.count = count
    BY DEF alloc_kpage, Up
<1>2. Pool = KernelPages .. total_pages - 1 /\ Pool' = Pool /\ Store' = Store
    BY <1>1, Pools, PoolsKept DEF Next
<1>3. Pool # {}
    <2>1. total_pages \in Nat /\ KernelPages < total_pages
        BY <1>1, FreeAreTheRest DEF AllInv
    <2>2. KernelPages \in Pool
        BY <1>2, <2>1, Numbers
    <2>3. QED
        BY <2>2
<1>4. Asked = 0 /\ Asked' = count /\ ~Halted /\ Halted' = Halted
    BY <1>1 DEF Asked, Halted
<1>5. Abstract!Ask(count)
    BY <1>1, <1>2, <1>3, <1>4 DEF Abstract!Ask
<1>6. QED
    BY <1>5 DEF Promised, Abstract!Next

\* A page of the kernel that nobody has is one whose bit is clear.
LEMMA StoreBits ==
    ASSUME AllInv, pc = "scan", scan.back = "up"
    PROVE  /\ Store = start_page .. KernelPages - 1
           /\ start_page = BasePages + memory_map_pages
           /\ memory_map_pages \in Nat
           /\ \A i \in 0 .. Bits - 1 :
                ~bitmap_test(i) <=> BasePages + i \in Store \ kowned
<1>1. Up
    BY DEF Up
<1>2. /\ Store = start_page .. KernelPages - 1
      /\ memory_map_pages \in 1 .. KernelPages - BasePages
      /\ start_page = BasePages + memory_map_pages
      /\ \A i \in 0 .. Bits - 1 :
            bitmap_test(i) <=> i < memory_map_pages \/ BasePages + i \in kowned
    BY <1>1, Pools DEF AllInv, IInv, BootFacts, HeapMarked
<1>3. \A i \in 0 .. Bits - 1 : BasePages + i \in Store <=> ~ (i < memory_map_pages)
    BY <1>2, Sizes
<1>4. QED
    BY <1>2, <1>3, Sizes

\* A run of pages that are free is, in the bitmap, a run of clear bits.
LEMMA RunBits ==
    ASSUME AllInv, pc = "scan", scan.back = "up", NEW q \in Abstract!Runs(Asked)
    PROVE  /\ q - BasePages \in 0 .. Bits - 1
           /\ q - BasePages + scan.count <= Bits
           /\ \A j \in q - BasePages .. q - BasePages + scan.count - 1 : ~bitmap_test(j)
           /\ q \in Int
<1> DEFINE n == scan.count
           i == q - BasePages
<1>1. /\ Store = start_page .. KernelPages - 1
      /\ start_page = BasePages + memory_map_pages /\ memory_map_pages \in Nat
      /\ \A j \in 0 .. Bits - 1 :
           ~bitmap_test(j) <=> BasePages + j \in Store \ kowned
    BY StoreBits
<1>2. n \in Nat \ {0}
    BY DEF AllInv, IInv, TypeOK, ScanFacts
<1>3. Asked = n
    BY DEF Asked
<1>4. q \in Store /\ q .. q + n - 1 \subseteq Store \ kowned
    BY <1>3 DEF Abstract!Runs
<1> HIDE DEF n
<1>5. q \in Int /\ q + n - 1 \in q .. q + n - 1
    BY <1>1, <1>2, <1>4, Sizes
<1>6. q + n - 1 \in Store
    BY <1>4, <1>5
<1>7. i \in 0 .. Bits - 1 /\ i + n <= Bits
    BY <1>1, <1>2, <1>4, <1>5, <1>6, Sizes
<1>8. ASSUME NEW j \in i .. i + n - 1 PROVE ~bitmap_test(j)
    <2>1. j \in 0 .. Bits - 1 /\ BasePages + j \in q .. q + n - 1
        BY <1>2, <1>5, <1>7, Sizes
    <2>2. QED
        BY <1>1, <1>4, <2>1
<1>9. QED
    BY <1>5, <1>7, <1>8 DEF n

\* bitmap_scan gives the lowest run of that many free pages.
LEMMA FoundPromised ==
    ASSUME AllInv, ScanFound
    PROVE  Promised
<1>1. /\ pc = "scan" /\ pc' = scan.back /\ owned' = owned
      /\ scan.back \in {"up", "mapping_init"} /\ UNCHANGED <<pde, total_pages, start_page>>
      /\ AllInv /\ IInv
    BY DEF ScanFound, AllInv, IInv, TypeOK, boot
<1>2. CASE scan.back = "mapping_init"
    <2>1. Booting /\ kowned' = kowned
        BY <1>1, <1>2, RunIsClear DEF Booting
    <2>2. ~Mapped /\ Pool = {} /\ Store = {} /\ Asked = 0
        BY <2>1, Pools
    <2>3. Pool' = {} /\ Store' = {} /\ Asked' = 0 /\ Halted' = Halted
        BY <1>1, <1>2, <2>2 DEF Pool, Store, Mapped, Asked, Halted
    <2>4. QED
        BY <1>1, <2>1, <2>2, <2>3 DEF Promised, Abstract!vars
<1>3. CASE scan.back = "up"
    <2> DEFINE k == scan.next
               n == scan.count
               p == BasePages + k + 1 - n
    <2>1. /\ k \in 0 .. Bits - 1 /\ n \in 1 .. k + 1
          /\ FoundRun = k + 1 - n .. k
          /\ FoundRun \subseteq 0 .. Bits - 1
          /\ \A i \in FoundRun : ~bitmap_test(i)
          /\ kowned' = kowned \cup {BasePages + i : i \in FoundRun}
        BY <1>1, <1>3, RunIsClear DEF FoundRun
    <2>2. Up
        BY <1>1, <1>3 DEF Up
    <2>3. Pool' = Pool /\ Store' = Store
        BY <1>1 DEF Pool, Store, Mapped
    <2>4. Asked = n /\ Asked' = 0 /\ ~Halted /\ Halted' = Halted
        BY <1>1, <1>3 DEF Asked, Halted
    <2>5. \A i \in 0 .. Bits - 1 :
             ~bitmap_test(i) <=> BasePages + i \in Store \ kowned
        BY <1>1, <1>3, StoreBits
    <2>6. \A i \in 0 .. Bits - 1 : i + n <= k =>
             \E j \in i .. i + n - 1 : bitmap_test(j)
        BY <1>1 DEF AllInv, PastFacts
    <2>7. ASSUME NEW q \in Abstract!Runs(Asked)
          PROVE  /\ q \in Int /\ q - BasePages \in 0 .. Bits - 1
                 /\ \A j \in q - BasePages .. q - BasePages + n - 1 : ~bitmap_test(j)
        BY <1>1, <1>3, RunBits
    <2> HIDE DEF k, n
    <2>8. /\ p \in Int /\ p + n - 1 = BasePages + k
          /\ \A x \in p .. p + n - 1 : x - BasePages \in FoundRun
        BY <2>1, Sizes DEF p
    <2>9. \A i \in FoundRun : BasePages + i \in p .. p + n - 1
        BY <2>1, Sizes
    <2>10. {BasePages + i : i \in FoundRun} = p .. p + n - 1
        <3>1. \A x \in p .. p + n - 1 : x = BasePages + (x - BasePages)
            BY <2>8, Sizes
        <3>2. QED
            BY <2>8, <2>9, <3>1
    <2>11. p .. p + n - 1 \subseteq Store \ kowned
        <3>1. \A i \in FoundRun : BasePages + i \in Store \ kowned
            BY <2>1, <2>5
        <3>2. QED
            BY <2>10, <3>1
    <2>12. p \in Abstract!Runs(Asked)
        <3>1. p \in p .. p + n - 1
            BY <2>1, <2>8
        <3>2. QED
            BY <2>4, <2>11, <3>1 DEF Abstract!Runs
    <2>13. ASSUME NEW q \in Abstract!Runs(Asked) PROVE p <= q
        <3>1. /\ q \in Int /\ q - BasePages \in 0 .. Bits - 1
              /\ \A j \in q - BasePages .. q - BasePages + n - 1 : ~bitmap_test(j)
            BY <2>7
        <3>2. ~ (q - BasePages + n <= k)
            BY <2>6, <3>1
        <3>3. k \in Int /\ n \in Int /\ BasePages \in Int /\ q \in Int
            BY <2>1, <3>1, Sizes
        <3>4. QED
            BY <3>2, <3>3
    <2> HIDE DEF p
    <2>14. Abstract!Give(p)
        <3>1. kowned' = kowned \cup (p .. p + Asked - 1)
            BY <2>1, <2>4, <2>10
        <3>2. Asked # 0
            BY <2>1, <2>4
        <3>3. QED
            BY <1>1, <2>3, <2>4, <2>12, <2>13, <3>1, <3>2 DEF Abstract!Give
    <2>15. p \in Store
        BY <2>12 DEF Abstract!Runs
    <2>16. QED
        BY <2>14, <2>15 DEF Promised, Abstract!Next
<1>4. QED
    BY <1>1, <1>2, <1>3

\* It stops the kernel only when no run of that many pages is free.
LEMMA FailedPromised ==
    ASSUME AllInv, ScanFailed
    PROVE  Promised
<1>1. /\ pc = "scan" /\ scan.next = Bits
      /\ pc' = IF scan.back = "up" THEN "halted" ELSE scan.back
      /\ UNCHANGED <<owned, kowned, pde, total_pages, start_page>>
      /\ scan.back \in {"up", "mapping_init"}
    BY DEF ScanFailed, AllInv, IInv, TypeOK, boot
<1>2. Pool' = Pool /\ Store' = Store
    BY <1>1 DEF Pool, Store, Mapped
<1>3. CASE scan.back = "mapping_init"
    BY <1>1, <1>2, <1>3 DEF Promised, Abstract!vars, Asked, Halted
<1>4. CASE scan.back = "up"
    <2>1. Asked = scan.count /\ Asked' = 0 /\ ~Halted /\ Halted'
        BY <1>1, <1>4 DEF Asked, Halted
    <2>2. scan.count \in Nat \ {0}
        BY <1>1 DEF AllInv, IInv, TypeOK, ScanFacts
    <2>3. Abstract!Runs(Asked) = {}
        <3> SUFFICES ASSUME NEW q \in Abstract!Runs(Asked) PROVE FALSE
            OBVIOUS
        <3>1. /\ q - BasePages \in 0 .. Bits - 1
              /\ q - BasePages + scan.count <= Bits
              /\ \A j \in q - BasePages .. q - BasePages + scan.count - 1 : ~bitmap_test(j)
            BY <1>1, <1>4, RunBits
        <3>2. \A i \in 0 .. Bits - 1 : i + scan.count <= Bits =>
                 \E j \in i .. i + scan.count - 1 : bitmap_test(j)
            BY <1>1 DEF AllInv, PastFacts
        <3>3. QED
            BY <3>1, <3>2
    <2>4. Abstract!Stop(Asked # 0 /\ Abstract!Runs(Asked) = {})
        BY <1>1, <1>2, <2>1, <2>2, <2>3 DEF Abstract!Stop, Halted
    <2>5. QED
        BY <2>4 DEF Promised, Abstract!Next
<1>5. QED
    BY <1>1, <1>3, <1>4

\* free_kpage returns the pages up to the first that is not given, and stops
\* the kernel only at such a page.
LEMMA FreePromised ==
    ASSUME AllInv, NEW first \in kowned, NEW count \in 1 .. MaxCount,
           free_kpage(first, count)
    PROVE  Promised
<1> DEFINE run == first - BasePages .. first - BasePages + count - 1
           pages == first .. first + count - 1
           set(i) == i < Bits /\ bitmap_test(i)
           cleared == Cleared(first, count)
<1>1. /\ pc = "up" /\ Up /\ kowned' = kowned \ ClearedPages(first, count)
      /\ UNCHANGED <<boot, owned>>
      /\ pc' = IF cleared = run THEN "up" ELSE "halted"
    BY DEF free_kpage, Up, Cleared, ClearedPages
<1>2. /\ kowned \subseteq start_page .. KernelPages - 1
      /\ \A i \in 0 .. Bits - 1 :
           bitmap_test(i) <=> i < memory_map_pages \/ BasePages + i \in kowned
      /\ memory_map_pages \in 1 .. KernelPages - BasePages
      /\ start_page = BasePages + memory_map_pages
    BY <1>1 DEF AllInv, IInv, HeapMarked, BootFacts
<1>3. first \in Nat /\ count \in Nat /\ first >= start_page
    BY <1>1, <1>2, ClearedAreGiven, Sizes DEF AllInv
<1>4. ASSUME NEW i \in run PROVE set(i) <=> BasePages + i \in kowned
    <2>1. i \in Int /\ i >= memory_map_pages /\ memory_map_pages \in Nat
        BY <1>2, <1>3, Sizes
    <2>2. CASE i < Bits
        <3>1. i \in 0 .. Bits - 1 /\ ~(i < memory_map_pages)
            BY <2>1, <2>2, Sizes
        <3>2. QED
            BY <1>2, <2>2, <3>1
    <2>3. CASE ~(i < Bits)
        <3>1. BasePages + i \notin start_page .. KernelPages - 1
            BY <2>1, <2>3, Sizes
        <3>2. QED
            BY <1>2, <2>3, <3>1
    <2>4. QED
        BY <2>2, <2>3
<1>5. \A q \in pages : q - BasePages \in run /\ BasePages + (q - BasePages) = q
    BY <1>3, Sizes
<1>6. \A i \in run : i \in Int /\ BasePages + i \in pages
    BY <1>3, Sizes
<1>7. cleared = {i \in run : \A j \in run : j <= i => set(j)}
    BY DEF Cleared
<1> HIDE DEF run, set, cleared
<1>8. ClearedPages(first, count) = {q \in pages : first .. q \subseteq kowned}
    <2>1. ASSUME NEW i \in cleared
          PROVE  BasePages + i \in pages /\ first .. BasePages + i \subseteq kowned
        <3>1. i \in run /\ BasePages + i \in pages /\ i \in Int
            BY <1>6, <1>7
        <3>2. ASSUME NEW p \in first .. BasePages + i PROVE p \in kowned
            <4>1. p \in pages /\ p - BasePages <= i
                BY <1>3, <3>1, Sizes
            <4>2. p - BasePages \in run /\ BasePages + (p - BasePages) = p
                BY <1>5, <4>1
            <4>3. QED
                BY <1>4, <1>7, <4>1, <4>2
        <3>3. QED
            BY <3>1, <3>2
    <2>2. ASSUME NEW q \in pages, first .. q \subseteq kowned
          PROVE  q - BasePages \in cleared /\ BasePages + (q - BasePages) = q
        <3>1. q - BasePages \in run /\ BasePages + (q - BasePages) = q
            BY <1>5
        <3>2. ASSUME NEW j \in run, j <= q - BasePages PROVE set(j)
            <4>1. BasePages + j \in pages /\ j \in Int
                BY <1>6
            <4>2. BasePages + j \in first .. q
                BY <1>3, <3>2, <4>1, Sizes
            <4>3. QED
                BY <1>4, <2>2, <4>2
        <3>3. QED
            BY <1>7, <3>1, <3>2
    <2>3. ASSUME NEW q \in ClearedPages(first, count)
          PROVE  q \in pages /\ first .. q \subseteq kowned
        <3>1. PICK i \in cleared : q = BasePages + i
            BY DEF ClearedPages, cleared
        <3>2. QED
            BY <2>1, <3>1
    <2>4. ASSUME NEW q \in pages, first .. q \subseteq kowned
          PROVE  q \in ClearedPages(first, count)
        BY <2>2, <2>4 DEF ClearedPages, cleared
    <2> HIDE DEF pages
    <2>5. QED
        BY <2>3, <2>4
<1>9. cleared = run <=> pages \subseteq kowned
    <2>1. cleared = run <=> \A i \in run : set(i)
        <3>1. ASSUME cleared = run, NEW i \in run PROVE set(i)
            <4>1. i <= i
                BY <1>6
            <4>2. QED
                BY <1>7, <3>1, <4>1
        <3>2. QED
            BY <1>7, <3>1
    <2>2. (\A i \in run : set(i)) <=> pages \subseteq kowned
        BY <1>4, <1>5, <1>6
    <2>3. QED
        BY <2>1, <2>2
<1>10. Pool' = Pool /\ Store' = Store
    BY <1>1 DEF Pool, Store, Mapped, boot
<1>11. Asked = 0 /\ Asked' = 0 /\ ~Halted
    BY <1>1 DEF Asked, Halted
<1>12. CASE pages \subseteq kowned
    <2>1. {q \in pages : first .. q \subseteq kowned} = pages
        BY <1>3, <1>12
    <2>2. kowned' = kowned \ pages /\ Halted' = Halted
        BY <1>1, <1>8, <1>9, <1>12, <2>1 DEF Halted
    <2>3. Abstract!Free(first, count)
        BY <1>1, <1>10, <1>11, <1>12, <2>2 DEF Abstract!Free
    <2>4. QED
        BY <2>3 DEF Promised, Abstract!Next
<1>13. CASE ~ pages \subseteq kowned
    <2>1. Halted'
        BY <1>1, <1>9, <1>13 DEF Halted
    <2>2. Abstract!FreeTooMany(first, count)
        BY <1>1, <1>8, <1>10, <1>11, <1>13, <2>1 DEF Abstract!FreeTooMany
    <2>3. QED
        BY <2>2 DEF Promised, Abstract!Next
<1>14. QED
    BY <1>12, <1>13

\* Every step of Memory is a step of PageSpec, or none.
LEMMA NextPromised == AllInv /\ [Next]_vars => [Abstract!Next]_(Abstract!vars)
<1> SUFFICES ASSUME AllInv, [Next]_vars PROVE Promised
    BY DEF Promised
<1>1. CASE ScanOn
    <2>1. /\ pc = "scan" /\ pc' = pc /\ UNCHANGED <<boot, owned, kowned>>
          /\ scan' = [scan EXCEPT !.next = @ + 1, !.counter = Counted]
        BY <1>1 DEF ScanOn
    <2>2. scan \in [count : Nat, next : 0 .. Bits, counter : Nat,
                    back : {"up", "mapping_init"}]
        BY DEF AllInv, IInv, TypeOK
    <2>3. scan'.count = scan.count /\ scan'.back = scan.back
        BY <2>1, <2>2
    <2>4. QED
        BY <2>1, <2>3 DEF Promised, Abstract!vars, Pool, Store, Mapped, Asked,
                          Halted, boot
<1>2. CASE UNCHANGED vars
    BY <1>2 DEF Promised, Abstract!vars, Pool, Store, Mapped, Asked, Halted, vars, boot
<1>3. QED
    BY <1>1, <1>2, BootPromised, MappingPromised, GetPromised, OutPromised,
       PutPromised, AskPromised, FoundPromised, FailedPromised, FreePromised DEF Next

\* The maps, the counts and the scan of memory.c and bitmap.c keep the promise
\* of PageSpec: each page is given to one caller at a time, the lowest frame
\* and the lowest run first, and the kernel stops only when it cannot boot, when
\* nothing is left that would do, or when free_kpage is given a count that
\* reaches a page that is not in use.  In particular no assertion of get_page
\* and put_page ever fails.
THEOREM MemoryImplements == Spec => PagesAsPromised
<1>1. QED
    BY InitPromised, NextPromised, AllInvariance, PTL
       DEF Spec, PagesAsPromised, Abstract!Spec
=============================================================================
