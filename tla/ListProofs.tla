----------------------------- MODULE ListProofs -----------------------------
(***************************************************************************)
(* Proof that the pointers of the lists are inverse to each other, that    *)
(* they mean membership, and that the operations and the walks are those   *)
(* on sequences.                                                           *)
(***************************************************************************)
EXTENDS ListRefinement, FiniteSetTheorems, FunctionTheorems, Lemmas

\* Heads, tails and nodes are different cells, and no two lists share one.
LEMMA CellsDiffer ==
    /\ Heads \cap Tails = {}
    /\ Nodes \cap Heads = {} /\ Nodes \cap Tails = {}
    /\ \A l \in Lists : HeadOf(l) \in Heads /\ TailOf(l) \in Tails
    /\ \A l, k \in Lists : HeadOf(l) = HeadOf(k) => l = k
    /\ \A l, k \in Lists : TailOf(l) = TailOf(k) => l = k
BY CellAssumption DEF Heads, Tails, HeadOf, TailOf

\* list_insert_before and list_insert_after between two neighbours: the new
\* node is linked with both of them.
LEMMA InsertKeepsAgree ==
    ASSUME NEW m, Agree(m),
           NEW p \in Cells, NEW q \in Cells, m.next[p] = q, m.prev[q] = p,
           NEW n \in Nodes, Unlinked(m, n),
           NEW r, r = [prev |-> [m.prev EXCEPT ![n] = p, ![q] = n],
                       next |-> [m.next EXCEPT ![n] = q, ![p] = n]]
    PROVE  Agree(r)
<1>1. n \in Cells /\ p # n /\ q # n /\ n \notin Heads /\ n \notin Tails
    BY CellsDiffer, CellAssumption DEF Agree, Unlinked, Cells
<1>2. /\ r.prev = [m.prev EXCEPT ![n] = p, ![q] = n]
      /\ r.next = [m.next EXCEPT ![n] = q, ![p] = n]
    OBVIOUS
<1>3. /\ \A c \in Cells : r.prev[c] = IF c = n THEN p ELSE IF c = q THEN n ELSE m.prev[c]
      /\ \A c \in Cells : r.next[c] = IF c = n THEN q ELSE IF c = p THEN n ELSE m.next[c]
    BY <1>1, <1>2 DEF Agree
<1>4. r \in [prev : [Cells -> Cells \cup {NULL}],
             next : [Cells -> Cells \cup {NULL}]]
    BY <1>1, <1>2 DEF Agree
<1>5. NULL \notin Cells
    BY CellAssumption
<1>6. ASSUME NEW c \in Cells, r.next[c] # NULL PROVE r.prev[r.next[c]] = c
    <2>1. CASE c = n
        BY <2>1, <1>1, <1>3
    <2>2. CASE c = p
        BY <2>2, <1>1, <1>3
    <2>3. CASE c # n /\ c # p
        <3>1. r.next[c] = m.next[c] /\ m.next[c] \in Cells /\ m.prev[m.next[c]] = c
            BY <2>3, <1>3, <1>6 DEF Agree
        <3>2. m.next[c] # n /\ m.next[c] # q
            BY <3>1, <2>3, <1>5 DEF Unlinked
        <3>3. QED
            BY <3>1, <3>2, <1>3
    <2>4. QED
        BY <2>1, <2>2, <2>3
<1>7. ASSUME NEW c \in Cells, r.prev[c] # NULL PROVE r.next[r.prev[c]] = c
    <2>1. CASE c = n
        BY <2>1, <1>1, <1>3
    <2>2. CASE c = q
        BY <2>2, <1>1, <1>3
    <2>3. CASE c # n /\ c # q
        <3>1. r.prev[c] = m.prev[c] /\ m.prev[c] \in Cells /\ m.next[m.prev[c]] = c
            BY <2>3, <1>3, <1>7 DEF Agree
        <3>2. m.prev[c] # n /\ m.prev[c] # p
            BY <3>1, <2>3, <1>5 DEF Unlinked
        <3>3. QED
            BY <3>1, <3>2, <1>3
    <2>4. QED
        BY <2>1, <2>2, <2>3
<1>8. \A c \in Nodes : r.prev[c] = NULL <=> r.next[c] = NULL
    <2>1. \A c \in Nodes : m.prev[c] = NULL <=> m.next[c] = NULL
        BY DEF Agree
    <2>2. m.prev[p] = NULL => p \notin Nodes
        BY <2>1, <1>5
    <2>3. m.next[q] = NULL => q \notin Nodes
        BY <2>1, <1>5
    <2>4. Nodes \subseteq Cells
        BY DEF Cells
    <2>5. QED
        BY <2>1, <2>2, <2>3, <2>4, <1>1, <1>3, <1>5
<1>9. ASSUME NEW l \in Lists
      PROVE  /\ r.prev[HeadOf(l)] = NULL /\ r.next[HeadOf(l)] # NULL
             /\ r.next[TailOf(l)] = NULL /\ r.prev[TailOf(l)] # NULL
    <2>1. HeadOf(l) \in Cells /\ TailOf(l) \in Cells
        BY DEF Cells, Heads, Tails
    <2>2. HeadOf(l) # n /\ TailOf(l) # n
        BY <1>1, CellsDiffer
    <2>3. HeadOf(l) # q /\ TailOf(l) # p
        BY <1>5 DEF Agree
    <2>4. /\ m.prev[HeadOf(l)] = NULL /\ m.next[HeadOf(l)] # NULL
          /\ m.next[TailOf(l)] = NULL /\ m.prev[TailOf(l)] # NULL
        BY DEF Agree
    <2>5. QED
        BY <2>1, <2>2, <2>3, <2>4, <1>1, <1>3, <1>5
<1>10. QED
    BY <1>4, <1>6, <1>7, <1>8, <1>9 DEF Agree

\* list_remove of a linked node: its neighbours are linked with each other.
LEMMA RemoveKeepsAgree ==
    ASSUME NEW m, Agree(m),
           NEW n \in Nodes, m.prev[n] # NULL, m.next[n] # NULL
    PROVE  Agree(RemoveFrom(m, n))
<1> DEFINE p == m.prev[n]
           q == m.next[n]
           r == RemoveFrom(m, n)
<1>1. n \in Cells /\ n \notin Heads /\ n \notin Tails
    BY CellsDiffer DEF Cells
<1>2. p \in Cells /\ q \in Cells /\ m.next[p] = n /\ m.prev[q] = n
    BY <1>1 DEF Agree
<1>3. NULL \notin Cells
    BY CellAssumption
<1>4. /\ \A c \in Cells : r.prev[c] = IF c = n THEN NULL ELSE IF c = q THEN p ELSE m.prev[c]
      /\ \A c \in Cells : r.next[c] = IF c = n THEN NULL ELSE IF c = p THEN q ELSE m.next[c]
    BY <1>1, <1>2 DEF Agree, RemoveFrom
<1>5. r \in [prev : [Cells -> Cells \cup {NULL}],
             next : [Cells -> Cells \cup {NULL}]]
    BY <1>1, <1>2 DEF Agree, RemoveFrom
<1>6. ASSUME NEW c \in Cells, r.next[c] # NULL PROVE r.prev[r.next[c]] = c
    <2>1. c # n
        BY <1>4, <1>6
    <2>2. CASE c = p
        <3>1. r.next[c] = q
            BY <2>1, <2>2, <1>4
        <3>2. q # n
            BY <2>1, <2>2, <1>2
        <3>3. QED
            BY <3>1, <3>2, <2>2, <1>2, <1>4
    <2>3. CASE c # p
        <3>1. r.next[c] = m.next[c] /\ m.next[c] \in Cells /\ m.prev[m.next[c]] = c
            BY <2>1, <2>3, <1>4, <1>6 DEF Agree
        <3>2. m.next[c] # n /\ m.next[c] # q
            BY <3>1, <2>1, <2>3, <1>2
        <3>3. QED
            BY <3>1, <3>2, <1>4
    <2>4. QED
        BY <2>2, <2>3
<1>7. ASSUME NEW c \in Cells, r.prev[c] # NULL PROVE r.next[r.prev[c]] = c
    <2>1. c # n
        BY <1>4, <1>7
    <2>2. CASE c = q
        <3>1. r.prev[c] = p
            BY <2>1, <2>2, <1>4
        <3>2. p # n
            BY <2>1, <2>2, <1>2
        <3>3. QED
            BY <3>1, <3>2, <2>2, <1>2, <1>4
    <2>3. CASE c # q
        <3>1. r.prev[c] = m.prev[c] /\ m.prev[c] \in Cells /\ m.next[m.prev[c]] = c
            BY <2>1, <2>3, <1>4, <1>7 DEF Agree
        <3>2. m.prev[c] # n /\ m.prev[c] # p
            BY <3>1, <2>1, <2>3, <1>2
        <3>3. QED
            BY <3>1, <3>2, <1>4
    <2>4. QED
        BY <2>2, <2>3
<1>8. \A c \in Nodes : r.prev[c] = NULL <=> r.next[c] = NULL
    <2>1. \A c \in Nodes : m.prev[c] = NULL <=> m.next[c] = NULL
        BY DEF Agree
    <2>2. p \in Nodes => m.prev[p] # NULL
        BY <2>1, <1>1, <1>2, <1>3
    <2>3. q \in Nodes => m.next[q] # NULL
        BY <2>1, <1>1, <1>2, <1>3
    <2>4. Nodes \subseteq Cells
        BY DEF Cells
    <2>5. QED
        BY <2>1, <2>2, <2>3, <2>4, <1>2, <1>3, <1>4
<1>9. ASSUME NEW l \in Lists
      PROVE  /\ r.prev[HeadOf(l)] = NULL /\ r.next[HeadOf(l)] # NULL
             /\ r.next[TailOf(l)] = NULL /\ r.prev[TailOf(l)] # NULL
    <2>1. HeadOf(l) \in Cells /\ TailOf(l) \in Cells
        BY DEF Cells, Heads, Tails
    <2>2. HeadOf(l) # n /\ TailOf(l) # n
        BY <1>1, CellsDiffer
    <2>3. /\ m.prev[HeadOf(l)] = NULL /\ m.next[HeadOf(l)] # NULL
          /\ m.next[TailOf(l)] = NULL /\ m.prev[TailOf(l)] # NULL
        BY DEF Agree
    <2>4. HeadOf(l) # q /\ TailOf(l) # p
        BY <2>3, <1>1, <1>2, <1>3
    <2>5. QED
        BY <2>1, <2>2, <2>3, <2>4, <1>2, <1>3, <1>4
<1>10. QED
    BY <1>5, <1>6, <1>7, <1>8, <1>9 DEF Agree

\* list_init links the head and the tail of every list with each other.
LEMMA InitAgrees == Init => LinksAgree
<1> SUFFICES ASSUME Init PROVE Agree(mem)
    BY DEF LinksAgree
<1>1. /\ \A l \in Lists : /\ HeadOf(l) \in Cells /\ TailOf(l) \in Cells
                          /\ mem.prev[TailOf(l)] = HeadOf(l)
                          /\ mem.next[HeadOf(l)] = TailOf(l)
      /\ \A c \in Cells \ Tails : mem.prev[c] = NULL
      /\ \A c \in Cells \ Heads : mem.next[c] = NULL
    BY CellsDiffer DEF Init, Cells, Heads, Tails
<1>2. mem \in [prev : [Cells -> Cells \cup {NULL}],
               next : [Cells -> Cells \cup {NULL}]]
    <2>1. \A c \in Cells : /\ mem.prev[c] \in Cells \cup {NULL}
                           /\ mem.next[c] \in Cells \cup {NULL}
        BY <1>1 DEF Heads, Tails
    <2>2. QED
        BY <2>1 DEF Init
<1>3. NULL \notin Cells
    BY CellAssumption
<1>4. \A c \in Cells : /\ mem.next[c] # NULL => mem.prev[mem.next[c]] = c
                       /\ mem.prev[c] # NULL => mem.next[mem.prev[c]] = c
    BY <1>1 DEF Heads, Tails
<1>5. \A n \in Nodes : mem.prev[n] = NULL <=> mem.next[n] = NULL
    BY <1>1, CellsDiffer DEF Cells
<1>6. \A l \in Lists :
         /\ mem.prev[HeadOf(l)] = NULL /\ mem.next[HeadOf(l)] # NULL
         /\ mem.next[TailOf(l)] = NULL /\ mem.prev[TailOf(l)] # NULL
    BY <1>1, <1>3, CellsDiffer
<1>7. QED
    BY <1>2, <1>4, <1>5, <1>6 DEF Agree

-----------------------------------------------------------------------------
(* Lists as sequences of nodes.                                            *)

\* The cells of list l when its nodes are s: the head, the nodes, the tail.
Spot(l, s, i) == IF i = 0 THEN HeadOf(l)
                 ELSE IF i = Len(s) + 1 THEN TailOf(l) ELSE s[i]

\* The pointers next go from each cell of the list to the one after it.
Chain(m, l, s) == \A i \in 0 .. Len(s) : m.next[Spot(l, s, i)] = Spot(l, s, i + 1)

\* The lists of the memory m are q, and a node is on one list at most.
Represents(m, q) ==
    /\ q \in [Lists -> Seq(Nodes)]
    /\ \A l \in Lists : IsInjective(q[l]) /\ Chain(m, l, q[l])
    /\ \A l, k \in Lists : l # k => ToSet(q[l]) \cap ToSet(q[k]) = {}
    /\ \A n \in Nodes : Unlinked(m, n) \/ \E l \in Lists : n \in ToSet(q[l])

\* Agree leaves open that a list begins at one head and ends at another's
\* tail, and that nodes are linked in a ring.  Neither happens, because the
\* nodes are those of some sequences.
IInv == LinksAgree /\ \E q : Represents(mem, q)

\* The cells of a list are cells.
LEMMA SpotCells ==
    ASSUME NEW l \in Lists, NEW s \in Seq(Nodes)
    PROVE  /\ Len(s) \in Nat /\ DOMAIN s = 1 .. Len(s)
           /\ Spot(l, s, 0) = HeadOf(l) /\ Spot(l, s, Len(s) + 1) = TailOf(l)
           /\ \A i \in 1 .. Len(s) : Spot(l, s, i) = s[i] /\ s[i] \in Nodes
           /\ \A i \in 0 .. Len(s) + 1 : Spot(l, s, i) \in Cells
<1>1. Len(s) \in Nat /\ DOMAIN s = 1 .. Len(s) /\ \A i \in 1 .. Len(s) : s[i] \in Nodes
    OBVIOUS
<1>2. /\ Spot(l, s, 0) = HeadOf(l) /\ Spot(l, s, Len(s) + 1) = TailOf(l)
      /\ \A i \in 1 .. Len(s) : Spot(l, s, i) = s[i]
    BY <1>1 DEF Spot
<1>3. ASSUME NEW i \in 0 .. Len(s) + 1 PROVE Spot(l, s, i) \in Cells
    <2>1. i = 0 \/ i = Len(s) + 1 \/ i \in 1 .. Len(s)
        BY <1>1
    <2>2. HeadOf(l) \in Cells /\ TailOf(l) \in Cells
        BY CellsDiffer DEF Cells
    <2>3. QED
        BY <1>1, <1>2, <2>1, <2>2 DEF Cells
<1>4. QED
    BY <1>1, <1>2, <1>3

\* A cell is at one place of a list only.
LEMMA SpotsDiffer ==
    ASSUME NEW l \in Lists, NEW s \in Seq(Nodes), IsInjective(s),
           NEW i \in 0 .. Len(s) + 1, NEW j \in 0 .. Len(s) + 1,
           Spot(l, s, i) = Spot(l, s, j)
    PROVE  i = j
<1>1. /\ Len(s) \in Nat /\ DOMAIN s = 1 .. Len(s)
      /\ Spot(l, s, 0) = HeadOf(l) /\ Spot(l, s, Len(s) + 1) = TailOf(l)
      /\ \A k \in 1 .. Len(s) : Spot(l, s, k) = s[k] /\ s[k] \in Nodes
    BY SpotCells
<1>2. /\ i = 0 \/ i = Len(s) + 1 \/ i \in 1 .. Len(s)
      /\ j = 0 \/ j = Len(s) + 1 \/ j \in 1 .. Len(s)
    BY <1>1
<1>3. /\ HeadOf(l) # TailOf(l) /\ HeadOf(l) \notin Nodes /\ TailOf(l) \notin Nodes
    BY CellsDiffer
<1>4. i \in 1 .. Len(s) /\ j \in 1 .. Len(s) => i = j
    BY <1>1 DEF IsInjective
<1>5. QED
    BY <1>1, <1>2, <1>3, <1>4

\* Different lists have no cell in common.
LEMMA SpotsApart ==
    ASSUME NEW l \in Lists, NEW k \in Lists, l # k,
           NEW s \in Seq(Nodes), NEW t \in Seq(Nodes), ToSet(s) \cap ToSet(t) = {},
           NEW i \in 0 .. Len(s) + 1, NEW j \in 0 .. Len(t) + 1
    PROVE  Spot(l, s, i) # Spot(k, t, j)
<1>1. /\ Len(s) \in Nat /\ DOMAIN s = 1 .. Len(s)
      /\ Spot(l, s, 0) = HeadOf(l) /\ Spot(l, s, Len(s) + 1) = TailOf(l)
      /\ \A x \in 1 .. Len(s) : Spot(l, s, x) = s[x] /\ s[x] \in Nodes
    BY SpotCells
<1>2. /\ Len(t) \in Nat /\ DOMAIN t = 1 .. Len(t)
      /\ Spot(k, t, 0) = HeadOf(k) /\ Spot(k, t, Len(t) + 1) = TailOf(k)
      /\ \A x \in 1 .. Len(t) : Spot(k, t, x) = t[x] /\ t[x] \in Nodes
    BY SpotCells
<1>3. /\ i = 0 \/ i = Len(s) + 1 \/ i \in 1 .. Len(s)
      /\ j = 0 \/ j = Len(t) + 1 \/ j \in 1 .. Len(t)
    BY <1>1, <1>2
<1>4. /\ HeadOf(l) # HeadOf(k) /\ TailOf(l) # TailOf(k)
      /\ HeadOf(l) # TailOf(k) /\ TailOf(l) # HeadOf(k)
      /\ {HeadOf(l), TailOf(l), HeadOf(k), TailOf(k)} \cap Nodes = {}
    BY CellsDiffer
<1>5. i \in 1 .. Len(s) /\ j \in 1 .. Len(t) => s[i] # t[j]
    BY <1>1, <1>2 DEF ToSet
<1>6. QED
    BY <1>1, <1>2, <1>3, <1>4, <1>5

\* The list with one node more.
LEMMA SpotInserted ==
    ASSUME NEW l \in Lists, NEW s \in Seq(Nodes), NEW k \in 1 .. Len(s) + 1,
           NEW n \in Nodes, NEW i \in 0 .. Len(s) + 2
    PROVE  Spot(l, InsertAt(s, k, n), i) =
               IF i < k THEN Spot(l, s, i)
               ELSE IF i = k THEN n ELSE Spot(l, s, i - 1)
<1> DEFINE t == InsertAt(s, k, n)
<1>1. Len(s) \in Nat
    OBVIOUS
<1>2. /\ Len(t) = Len(s) + 1
      /\ \A j \in 1 .. Len(s) + 1 : t[j] = IF j < k THEN s[j]
                                           ELSE IF j = k THEN n ELSE s[j - 1]
    <2>1. ASSUME NEW j \in 1 .. Len(s) + 1
          PROVE  /\ Len(t) = Len(s) + 1
                 /\ t[j] = IF j < k THEN s[j] ELSE IF j = k THEN n ELSE s[j - 1]
        BY InsertAtSlot, SMTT(30)
    <2>2. QED
        BY <2>1
<1> SUFFICES Spot(l, t, i) = IF i < k THEN Spot(l, s, i)
                             ELSE IF i = k THEN n ELSE Spot(l, s, i - 1)
    OBVIOUS
<1> HIDE DEF t
<1>3. CASE i = 0
    BY <1>1, <1>3 DEF Spot
<1>4. CASE i = Len(s) + 2
    <2>1. i = Len(t) + 1 /\ ~ (i < k) /\ i # k /\ i # 0 /\ i - 1 = Len(s) + 1 /\ i - 1 # 0
        BY <1>1, <1>2, <1>4
    <2>2. QED
        BY <2>1 DEF Spot
<1>5. CASE i \in 1 .. Len(s) + 1
    <2>1. Spot(l, t, i) = t[i]
        BY <1>1, <1>2, <1>5 DEF Spot
    <2>2. i < k => Spot(l, s, i) = s[i]
        BY <1>1, <1>5 DEF Spot
    <2>3. i > k => Spot(l, s, i - 1) = s[i - 1]
        BY <1>1, <1>5 DEF Spot
    <2>4. t[i] = IF i < k THEN s[i] ELSE IF i = k THEN n ELSE s[i - 1]
        BY <1>2, <1>5
    <2>5. i < k \/ i = k \/ i > k
        BY <1>1
    <2>6. QED
        BY <1>1, <2>1, <2>2, <2>3, <2>4, <2>5
<1>6. i = 0 \/ i = Len(s) + 2 \/ i \in 1 .. Len(s) + 1
    BY <1>1
<1>7. QED
    BY <1>3, <1>4, <1>5, <1>6

\* The list with one node less.
LEMMA SpotUnlinked ==
    ASSUME NEW l \in Lists, NEW s \in Seq(Nodes), IsInjective(s),
           NEW k \in 1 .. Len(s), NEW i \in 0 .. Len(s)
    PROVE  /\ Len(Unlink(s, s[k])) = Len(s) - 1
           /\ Spot(l, Unlink(s, s[k]), i) =
                  IF i < k THEN Spot(l, s, i) ELSE Spot(l, s, i + 1)
<1> DEFINE t == Unlink(s, s[k])
<1>1. Len(s) \in Nat /\ DOMAIN s = 1 .. Len(s)
    OBVIOUS
<1>2. s[k] \in ToSet(s)
    BY <1>1 DEF ToSet
<1>3. PICK x \in 1 .. Len(s) :
         /\ s[x] = s[k]
         /\ Len(t) = Len(s) - 1
         /\ \A j \in 1 .. Len(s) - 1 : t[j] = IF j < x THEN s[j] ELSE s[j + 1]
    <2>1. \E x \in 1 .. Len(s) :
             /\ s[x] = s[k]
             /\ t \in Seq(Nodes)
             /\ Len(t) = Len(s) - 1
             /\ \A j \in 1 .. Len(s) - 1 : t[j] = IF j < x THEN s[j] ELSE s[j + 1]
        BY <1>2, UnlinkElements, ZenonT(40)
    <2>2. QED
        BY <2>1, ZenonT(40)
<1> SUFFICES Spot(l, t, i) = IF i < k THEN Spot(l, s, i) ELSE Spot(l, s, i + 1)
    BY <1>3
<1> HIDE DEF t
<1>4. x = k
    BY <1>1, <1>3 DEF IsInjective
<1>5. CASE i = 0
    <2>1. i < k
        BY <1>1, <1>5
    <2>2. QED
        BY <1>5, <2>1 DEF Spot
<1>6. CASE i = Len(s)
    <2>1. i = Len(t) + 1 /\ ~ (i < k) /\ i # 0 /\ i + 1 = Len(s) + 1 /\ i + 1 # 0
        BY <1>1, <1>3, <1>6
    <2>2. QED
        BY <2>1 DEF Spot
<1>7. CASE i \in 1 .. Len(s) - 1
    <2>1. Spot(l, t, i) = t[i]
        <3> DEFINE e == Len(s)
        <3>1. e \in Nat /\ Len(t) = e - 1 /\ i \in 1 .. e - 1
            BY <1>1, <1>3, <1>7
        <3> HIDE DEF e
        <3>2. i # 0 /\ i # Len(t) + 1
            BY <3>1
        <3>3. QED
            BY <3>2 DEF Spot
    <2>2. Spot(l, s, i) = s[i] /\ Spot(l, s, i + 1) = s[i + 1]
        BY <1>1, <1>7 DEF Spot
    <2>3. t[i] = IF i < k THEN s[i] ELSE s[i + 1]
        BY <1>3, <1>4, <1>7
    <2>4. QED
        BY <2>1, <2>2, <2>3
<1>8. i = 0 \/ i = Len(s) \/ i \in 1 .. Len(s) - 1
    <2> DEFINE e == Len(s)
    <2>1. e \in Nat /\ i \in 0 .. e
        BY <1>1
    <2> HIDE DEF e
    <2>2. i = 0 \/ i = e \/ i \in 1 .. e - 1
        BY <2>1
    <2>3. QED
        BY <2>2 DEF e
<1>9. QED
    BY <1>5, <1>6, <1>7, <1>8

\* What a list says of its neighbouring cells, in both directions.
LEMMA Neighbours ==
    ASSUME NEW m, Agree(m), NEW l \in Lists, NEW s \in Seq(Nodes), Chain(m, l, s),
           NEW i \in 0 .. Len(s)
    PROVE  /\ Spot(l, s, i) \in Cells /\ Spot(l, s, i + 1) \in Cells
           /\ m.next[Spot(l, s, i)] = Spot(l, s, i + 1)
           /\ m.prev[Spot(l, s, i + 1)] = Spot(l, s, i)
<1>1. i \in 0 .. Len(s) + 1 /\ i + 1 \in 0 .. Len(s) + 1
    OBVIOUS
<1>2. Spot(l, s, i) \in Cells /\ Spot(l, s, i + 1) \in Cells
    BY <1>1, SpotCells
<1>3. m.next[Spot(l, s, i)] = Spot(l, s, i + 1)
    BY DEF Chain
<1>4. QED
    BY <1>2, <1>3, CellAssumption DEF Agree

\* A node of a list is linked on both sides.
LEMMA ListedIsLinked ==
    ASSUME NEW m, Agree(m), NEW q, Represents(m, q), NEW l \in Lists,
           NEW n \in ToSet(q[l])
    PROVE  n \in Nodes /\ m.prev[n] # NULL /\ m.next[n] # NULL
<1> DEFINE s == q[l]
<1>1. s \in Seq(Nodes) /\ Chain(m, l, s)
    BY DEF Represents
<1> HIDE DEF s
<1>2. /\ Len(s) \in Nat /\ DOMAIN s = 1 .. Len(s)
      /\ \A i \in 1 .. Len(s) : Spot(l, s, i) = s[i] /\ s[i] \in Nodes
    BY <1>1, SpotCells
<1>3. PICK k \in 1 .. Len(s) : s[k] = n
    BY <1>2 DEF ToSet, s
<1>4. k \in 0 .. Len(s) /\ Spot(l, s, k) = n
    BY <1>2, <1>3
<1>5. m.next[n] \in Cells
    BY <1>1, <1>4, Neighbours
<1>6. n \in Nodes /\ m.next[n] # NULL
    BY <1>2, <1>3, <1>5, CellAssumption
<1>7. QED
    BY <1>6 DEF Agree

\* A list that is left alone: the new memory has its pointers.
LEMMA ChainKept ==
    ASSUME NEW m, NEW r, NEW l \in Lists, NEW s, Chain(m, l, s),
           \A i \in 0 .. Len(s) : r.next[Spot(l, s, i)] = m.next[Spot(l, s, i)]
    PROVE  Chain(r, l, s)
BY DEF Chain

\* list_insert_before and list_insert_after put a node between two cells of a
\* list: the list has it there, and the others stay.
LEMMA InsertRepresents ==
    ASSUME NEW m, Agree(m), NEW q, Represents(m, q),
           NEW l \in Lists, NEW k \in 1 .. Len(q[l]) + 1,
           NEW n \in Nodes, Unlinked(m, n),
           NEW r, r = [prev |-> [m.prev EXCEPT ![n] = Spot(l, q[l], k - 1),
                                               ![Spot(l, q[l], k)] = n],
                       next |-> [m.next EXCEPT ![n] = Spot(l, q[l], k),
                                               ![Spot(l, q[l], k - 1)] = n]]
    PROVE  /\ Agree(r)
           /\ Represents(r, [q EXCEPT ![l] = InsertAt(q[l], k, n)])
<1> DEFINE s == q[l]
           p == Spot(l, s, k - 1)
           a == Spot(l, s, k)
           t == InsertAt(s, k, n)
           z == [q EXCEPT ![l] = t]
<1>1. /\ s \in Seq(Nodes) /\ IsInjective(s) /\ Chain(m, l, s)
      /\ q \in [Lists -> Seq(Nodes)]
    BY DEF Represents
<1>2. Len(s) \in Nat /\ k \in 1 .. Len(s) + 1
    BY <1>1
<1>3. p \in Cells /\ a \in Cells /\ m.next[p] = a /\ m.prev[a] = p
    <2> HIDE DEF s
    <2> DEFINE i == k - 1
    <2>1. i \in 0 .. Len(s) /\ i + 1 = k
        BY <1>2
    <2> HIDE DEF i
    <2>2. /\ Spot(l, s, i) \in Cells /\ Spot(l, s, i + 1) \in Cells
          /\ m.next[Spot(l, s, i)] = Spot(l, s, i + 1)
          /\ m.prev[Spot(l, s, i + 1)] = Spot(l, s, i)
        BY <1>1, <2>1, Neighbours, Zenon
    <2>3. QED
        BY <2>1, <2>2 DEF i
<1>4. r = [prev |-> [m.prev EXCEPT ![n] = p, ![a] = n],
           next |-> [m.next EXCEPT ![n] = a, ![p] = n]]
    OBVIOUS
<1> SUFFICES Agree(r) /\ Represents(r, z)
    OBVIOUS
<1> HIDE DEF p, a, t, s
<1>5. Agree(r)
    BY <1>3, <1>4, InsertKeepsAgree
<1>6. /\ n \in Cells /\ n # p
      /\ \A c \in Cells : r.next[c] = IF c = n THEN a ELSE IF c = p THEN n ELSE m.next[c]
      /\ \A c \in Cells : r.prev[c] = IF c = n THEN p ELSE IF c = a THEN n ELSE m.prev[c]
    BY <1>3, <1>4, CellAssumption DEF Agree, Unlinked, Cells
<1>7. \A x \in Lists : n \notin ToSet(q[x])
    BY ListedIsLinked DEF Unlinked
<1>8. /\ t \in Seq(Nodes) /\ Len(t) = Len(s) + 1
      /\ ToSet(t) = ToSet(s) \cup {n} /\ IsInjective(t)
    <2>1. n \notin ToSet(s)
        BY <1>7 DEF s
    <2>2. QED
        BY <1>1, <1>2, <2>1, InsertAtSlot, InsertAtLinks DEF t
<1>9. Chain(r, l, t)
    <2> SUFFICES ASSUME NEW i \in 0 .. Len(t)
                 PROVE  r.next[Spot(l, t, i)] = Spot(l, t, i + 1)
        BY DEF Chain
    <2>1. i \in 0 .. Len(s) + 1 /\ i + 1 \in 0 .. Len(s) + 2 /\ i \in 0 .. Len(s) + 2
        BY <1>2, <1>8
    <2>2. \A j \in 0 .. Len(s) + 2 :
             Spot(l, t, j) = IF j < k THEN Spot(l, s, j)
                             ELSE IF j = k THEN n ELSE Spot(l, s, j - 1)
        BY <1>1, <1>2, SpotInserted DEF t
    <2>3. \A x \in 0 .. Len(s) + 1 : Spot(l, s, x) \in Cells /\ Spot(l, s, x) # n
        <3>1. \A x \in 1 .. Len(s) : Spot(l, s, x) \in ToSet(s)
            BY <1>1, SpotCells DEF ToSet
        <3>2. n \notin ToSet(s) /\ n # HeadOf(l) /\ n # TailOf(l)
            BY <1>7, CellsDiffer DEF s
        <3>3. \A x \in 0 .. Len(s) + 1 : x = 0 \/ x = Len(s) + 1 \/ x \in 1 .. Len(s)
            BY <1>2
        <3>4. QED
            BY <1>1, <3>1, <3>2, <3>3, SpotCells
    <2>4. \A x \in 0 .. Len(s) : m.next[Spot(l, s, x)] = Spot(l, s, x + 1)
        BY <1>1 DEF Chain
    <2>5. \A x \in 0 .. Len(s) + 1 : Spot(l, s, x) = p <=> x = k - 1
        <3>1. k - 1 \in 0 .. Len(s) + 1
            BY <1>2
        <3>2. QED
            BY <1>1, <3>1, SpotsDiffer DEF p
    <2>6. CASE i < k - 1
        <3> DEFINE c == Spot(l, s, i)
        <3>1. i \in 0 .. Len(s) /\ i \in 0 .. Len(s) + 1 /\ i < k /\ i + 1 < k /\ i # k - 1
            BY <1>2, <2>1, <2>6
        <3>2. Spot(l, t, i) = c /\ Spot(l, t, i + 1) = Spot(l, s, i + 1)
            BY <2>1, <2>2, <3>1
        <3>3. c \in Cells /\ c # n /\ c # p /\ m.next[c] = Spot(l, s, i + 1)
            BY <2>3, <2>4, <2>5, <3>1
        <3> HIDE DEF c
        <3>4. QED
            BY <1>6, <3>2, <3>3
    <2>7. CASE i = k - 1
        <3>1. i < k /\ i + 1 = k /\ ~ (i + 1 < k)
            BY <1>2, <2>7
        <3>2. Spot(l, t, i) = p /\ Spot(l, t, i + 1) = n
            BY <2>1, <2>2, <2>7, <3>1 DEF p
        <3>3. QED
            BY <1>3, <1>6, <3>2
    <2>8. CASE i = k
        <3>1. ~ (i < k) /\ ~ (i + 1 < k) /\ i + 1 # k /\ (i + 1) - 1 = k
            BY <1>2, <2>8
        <3>2. Spot(l, t, i) = n /\ Spot(l, t, i + 1) = a
            BY <2>1, <2>2, <2>8, <3>1 DEF a
        <3>3. QED
            BY <1>6, <3>2
    <2>9. CASE i > k
        <3> DEFINE j == i - 1
                   c == Spot(l, s, j)
        <3>1. /\ j \in 0 .. Len(s) /\ j \in 0 .. Len(s) + 1 /\ j # k - 1 /\ j + 1 = i
              /\ ~ (i < k) /\ i # k /\ ~ (i + 1 < k) /\ i + 1 # k /\ (i + 1) - 1 = i
            BY <1>2, <2>1, <2>9
        <3>2. Spot(l, t, i) = c /\ Spot(l, t, i + 1) = Spot(l, s, i)
            BY <2>1, <2>2, <3>1
        <3> HIDE DEF j
        <3>3. c \in Cells /\ c # n /\ c # p /\ m.next[c] = Spot(l, s, i)
            BY <2>3, <2>4, <2>5, <3>1
        <3> HIDE DEF c
        <3>4. QED
            BY <1>6, <3>2, <3>3
    <2>10. QED
        BY <1>2, <2>6, <2>7, <2>8, <2>9
<1>10. ASSUME NEW x \in Lists, x # l PROVE Chain(r, x, q[x])
    <2> DEFINE u == q[x]
    <2>1. u \in Seq(Nodes) /\ Chain(m, x, u) /\ ToSet(s) \cap ToSet(u) = {}
        BY <1>10 DEF Represents, s
    <2>2. n \notin ToSet(u)
        BY <1>7
    <2> HIDE DEF u
    <2>3. ASSUME NEW i \in 0 .. Len(u)
          PROVE  r.next[Spot(x, u, i)] = m.next[Spot(x, u, i)]
        <3>1. Len(u) \in Nat /\ i \in 0 .. Len(u) + 1
            BY <2>1
        <3>2. k - 1 \in 0 .. Len(s) + 1
            BY <1>2
        <3>3. Spot(x, u, i) # p
            BY <1>1, <1>10, <2>1, <3>1, <3>2, SpotsApart DEF p
        <3>4. Spot(x, u, i) # n
            <4>1. i = 0 \/ i \in 1 .. Len(u)
                BY <3>1
            <4>2. i \in 1 .. Len(u) => Spot(x, u, i) \in ToSet(u)
                BY <2>1, SpotCells DEF ToSet
            <4>3. HeadOf(x) # n /\ Spot(x, u, 0) = HeadOf(x)
                BY <2>1, CellsDiffer, SpotCells
            <4>4. QED
                BY <2>2, <4>1, <4>2, <4>3
        <3>5. Spot(x, u, i) \in Cells
            BY <2>1, <3>1, SpotCells
        <3>6. QED
            BY <1>6, <3>3, <3>4, <3>5
    <2>4. Chain(r, x, u)
        BY <2>1, <2>3, ChainKept
    <2>5. QED
        BY <2>4 DEF u
<1>11. /\ z \in [Lists -> Seq(Nodes)]
       /\ \A x \in Lists : z[x] = IF x = l THEN t ELSE q[x]
    BY <1>1, <1>8
<1> HIDE DEF z
<1>12. \A x \in Lists : IsInjective(z[x]) /\ Chain(r, x, z[x])
    BY <1>8, <1>9, <1>10, <1>11 DEF Represents
<1>13. ASSUME NEW x \in Lists, NEW y \in Lists, x # y
       PROVE  ToSet(z[x]) \cap ToSet(z[y]) = {}
    <2>1. \A u \in Lists : ToSet(z[u]) = IF u = l THEN ToSet(q[l]) \cup {n} ELSE ToSet(q[u])
        BY <1>8, <1>11 DEF s
    <2>2. ToSet(q[x]) \cap ToSet(q[y]) = {} /\ n \notin ToSet(q[x]) /\ n \notin ToSet(q[y])
        BY <1>7, <1>13 DEF Represents
    <2>3. QED
        BY <1>13, <2>1, <2>2
<1>14. ASSUME NEW c \in Nodes
       PROVE  Unlinked(r, c) \/ \E x \in Lists : c \in ToSet(z[x])
    <2>1. CASE \E x \in Lists : c \in ToSet(q[x])
        BY <1>8, <1>11, <2>1 DEF s
    <2>2. CASE c = n
        BY <1>8, <1>11, <2>2
    <2>3. CASE Unlinked(m, c) /\ c # n
        <3>1. c \in Cells /\ m.next[c] = NULL /\ m.prev[c] = NULL
            BY <2>3 DEF Unlinked, Cells
        <3>2. c # p /\ c # a
            BY <1>3, <3>1, CellAssumption
        <3>3. QED
            BY <1>6, <2>3, <3>1, <3>2 DEF Unlinked
    <2>4. QED
        BY <2>1, <2>2, <2>3 DEF Represents
<1>15. QED
    BY <1>5, <1>11, <1>12, <1>13, <1>14 DEF Represents

\* list_remove takes a node out of the list that it is on, and the others stay.
LEMMA RemoveRepresents ==
    ASSUME NEW m, Agree(m), NEW q, Represents(m, q),
           NEW l \in Lists, NEW n \in ToSet(q[l])
    PROVE  /\ Agree(RemoveFrom(m, n))
           /\ Represents(RemoveFrom(m, n), [q EXCEPT ![l] = Unlink(q[l], n)])
<1> DEFINE s == q[l]
           r == RemoveFrom(m, n)
           t == Unlink(s, n)
           z == [q EXCEPT ![l] = t]
           p == m.prev[n]
           a == m.next[n]
<1>1. /\ s \in Seq(Nodes) /\ IsInjective(s) /\ Chain(m, l, s)
      /\ q \in [Lists -> Seq(Nodes)]
    BY DEF Represents
<1>2. n \in Nodes /\ m.prev[n] # NULL /\ m.next[n] # NULL
    BY ListedIsLinked
<1> SUFFICES Agree(r) /\ Represents(r, z)
    OBVIOUS
<1>3. Agree(r)
    BY <1>2, RemoveKeepsAgree
<1>4. /\ n \in Cells /\ p \in Cells /\ a \in Cells
      /\ \A c \in Cells : r.next[c] = IF c = n THEN NULL ELSE IF c = p THEN a ELSE m.next[c]
      /\ \A c \in Cells : r.prev[c] = IF c = n THEN NULL ELSE IF c = a THEN p ELSE m.prev[c]
    BY <1>2 DEF Agree, RemoveFrom, Cells
<1>5. n \in ToSet(s)
    OBVIOUS
<1> HIDE DEF s, r, t, p, a
<1>6. /\ Len(s) \in Nat /\ DOMAIN s = 1 .. Len(s)
      /\ \A i \in 1 .. Len(s) : Spot(l, s, i) = s[i] /\ s[i] \in Nodes
      /\ \A i \in 0 .. Len(s) + 1 : Spot(l, s, i) \in Cells
    BY <1>1, SpotCells
<1>7. PICK k \in 1 .. Len(s) : s[k] = n
    BY <1>5, <1>6 DEF ToSet
<1>8. /\ t \in Seq(Nodes) /\ IsInjective(t) /\ ToSet(t) = ToSet(s) \ {n}
    BY <1>1, <1>5, UnlinkRemoves DEF t
<1>9. /\ Len(t) = Len(s) - 1
      /\ \A i \in 0 .. Len(s) :
           Spot(l, t, i) = IF i < k THEN Spot(l, s, i) ELSE Spot(l, s, i + 1)
    <2>1. t = Unlink(s, s[k])
        BY <1>7 DEF t
    <2>2. ASSUME NEW i \in 0 .. Len(s)
          PROVE  /\ Len(t) = Len(s) - 1
                 /\ Spot(l, t, i) = IF i < k THEN Spot(l, s, i) ELSE Spot(l, s, i + 1)
        BY <1>1, <2>1, SpotUnlinked, Zenon
    <2>3. 0 \in 0 .. Len(s)
        BY <1>6
    <2>4. QED
        BY <2>2, <2>3
<1>10. p = Spot(l, s, k - 1) /\ n = Spot(l, s, k) /\ a = Spot(l, s, k + 1)
    <2> DEFINE i == k - 1
    <2>1. i \in 0 .. Len(s) /\ i + 1 = k /\ k \in 0 .. Len(s)
        BY <1>6
    <2>2. n = Spot(l, s, k)
        BY <1>6, <1>7
    <2> HIDE DEF i
    <2>3. m.prev[Spot(l, s, i + 1)] = Spot(l, s, i)
        BY <1>1, <2>1, Neighbours, Zenon
    <2>4. m.next[Spot(l, s, k)] = Spot(l, s, k + 1)
        BY <1>1, <2>1, Neighbours, Zenon
    <2>5. QED
        BY <2>1, <2>2, <2>3, <2>4 DEF i, p, a
<1>11. Chain(r, l, t)
    <2> SUFFICES ASSUME NEW i \in 0 .. Len(t)
                 PROVE  r.next[Spot(l, t, i)] = Spot(l, t, i + 1)
        BY DEF Chain
    <2> DEFINE e == Len(s)
    <2>1. e \in Nat /\ i \in 0 .. e - 1 /\ k \in 1 .. e
        BY <1>6, <1>9
    <2>2. /\ \A x \in 0 .. e : m.next[Spot(l, s, x)] = Spot(l, s, x + 1)
          /\ \A x \in 0 .. e : Spot(l, t, x) = IF x < k THEN Spot(l, s, x) ELSE Spot(l, s, x + 1)
          /\ \A x \in 0 .. e + 1 : Spot(l, s, x) \in Cells
        BY <1>1, <1>6, <1>9 DEF Chain
    <2>3. \A x \in 0 .. e + 1 : /\ Spot(l, s, x) = n <=> x = k
                                /\ Spot(l, s, x) = p <=> x = k - 1
        <3>1. k - 1 \in 0 .. Len(s) + 1 /\ k \in 0 .. Len(s) + 1
            BY <2>1
        <3>2. QED
            BY <1>1, <1>10, <3>1, SpotsDiffer
    <2> HIDE DEF e
    <2>4. CASE i < k - 1
        <3>1. i \in 0 .. e /\ i \in 0 .. e + 1 /\ i + 1 \in 0 .. e
            BY <2>1
        <3>2. i < k /\ i + 1 < k /\ i # k /\ i # k - 1
            BY <2>1, <2>4
        <3> DEFINE c == Spot(l, s, i)
        <3>3. Spot(l, t, i) = c /\ Spot(l, t, i + 1) = Spot(l, s, i + 1)
            BY <2>2, <3>1, <3>2
        <3>4. c \in Cells /\ c # n /\ c # p /\ m.next[c] = Spot(l, s, i + 1)
            BY <2>2, <2>3, <3>1, <3>2
        <3> HIDE DEF c
        <3>5. QED
            BY <1>4, <3>3, <3>4
    <2>5. CASE i = k - 1
        <3>1. i \in 0 .. e /\ i + 1 \in 0 .. e /\ i \in 0 .. e + 1
            BY <2>1
        <3>2. i < k /\ ~ (i + 1 < k) /\ (i + 1) + 1 = k + 1 /\ i # k
            BY <2>1, <2>5
        <3>3. Spot(l, t, i) = p /\ Spot(l, t, i + 1) = a
            BY <1>10, <2>2, <2>5, <3>1, <3>2
        <3>4. p # n
            BY <1>10, <2>3, <2>5, <3>1, <3>2
        <3>5. QED
            BY <1>4, <3>3, <3>4
    <2>6. CASE i >= k
        <3> DEFINE j == i + 1
                   c == Spot(l, s, j)
        <3>1. i \in 0 .. e /\ j \in 0 .. e /\ j \in 0 .. e + 1
            BY <2>1
        <3>2. ~ (i < k) /\ ~ (j < k) /\ j # k /\ j # k - 1
            BY <2>1, <2>6
        <3> HIDE DEF j
        <3>3. Spot(l, t, i) = c /\ Spot(l, t, j) = Spot(l, s, j + 1)
            <4>1. Spot(l, t, i) = Spot(l, s, i + 1)
                BY <2>2, <3>1, <3>2
            <4>2. Spot(l, t, j) = Spot(l, s, j + 1)
                BY <2>2, <3>1, <3>2
            <4>3. QED
                BY <4>1, <4>2 DEF j
        <3>4. c \in Cells /\ c # n /\ c # p /\ m.next[c] = Spot(l, s, j + 1)
            BY <2>2, <2>3, <3>1, <3>2
        <3> HIDE DEF c
        <3>5. r.next[Spot(l, t, i)] = Spot(l, t, j)
            BY <1>4, <3>3, <3>4
        <3>6. QED
            BY <3>5 DEF j
    <2>7. i < k - 1 \/ i = k - 1 \/ i >= k
        BY <2>1
    <2>8. QED
        BY <2>4, <2>5, <2>6, <2>7
<1>12. ASSUME NEW x \in Lists, x # l PROVE Chain(r, x, q[x])
    <2> DEFINE u == q[x]
    <2>1. u \in Seq(Nodes) /\ Chain(m, x, u) /\ ToSet(s) \cap ToSet(u) = {}
        BY <1>12 DEF Represents, s
    <2> HIDE DEF u
    <2>2. ASSUME NEW i \in 0 .. Len(u)
          PROVE  r.next[Spot(x, u, i)] = m.next[Spot(x, u, i)]
        <3>1. Len(u) \in Nat /\ i \in 0 .. Len(u) + 1
            BY <2>1
        <3>2. k - 1 \in 0 .. Len(s) + 1 /\ k \in 0 .. Len(s) + 1
            BY <1>6
        <3>3. Spot(x, u, i) # p
            BY <1>1, <1>10, <1>12, <2>1, <3>1, <3>2, SpotsApart
        <3>4. Spot(x, u, i) # n
            BY <1>1, <1>10, <1>12, <2>1, <3>1, <3>2, SpotsApart
        <3>5. Spot(x, u, i) \in Cells
            BY <2>1, <3>1, SpotCells
        <3>6. QED
            BY <1>4, <3>3, <3>4, <3>5
    <2>3. Chain(r, x, u)
        BY <2>1, <2>2, ChainKept
    <2>4. QED
        BY <2>3 DEF u
<1>13. /\ z \in [Lists -> Seq(Nodes)]
       /\ \A x \in Lists : z[x] = IF x = l THEN t ELSE q[x]
    BY <1>1, <1>8
<1> HIDE DEF z
<1>14. \A x \in Lists : IsInjective(z[x]) /\ Chain(r, x, z[x])
    BY <1>8, <1>11, <1>12, <1>13 DEF Represents
<1>15. \A x \in Lists : ToSet(z[x]) = ToSet(q[x]) \ {n}
    <2>1. \A x \in Lists : x # l => n \notin ToSet(q[x])
        BY DEF Represents
    <2>2. QED
        BY <1>8, <1>13, <2>1 DEF s
<1>16. \A x, y \in Lists : x # y => ToSet(z[x]) \cap ToSet(z[y]) = {}
    BY <1>15 DEF Represents
<1>17. ASSUME NEW c \in Nodes
       PROVE  Unlinked(r, c) \/ \E x \in Lists : c \in ToSet(z[x])
    <2>1. CASE c = n
        BY <1>4, <2>1 DEF Unlinked
    <2>2. CASE c # n /\ \E x \in Lists : c \in ToSet(q[x])
        BY <1>15, <2>2
    <2>3. CASE c # n /\ Unlinked(m, c)
        <3>1. c \in Cells /\ m.next[c] = NULL /\ m.prev[c] = NULL
            BY <2>3 DEF Unlinked, Cells
        <3>2. m.next[p] # NULL /\ m.prev[a] # NULL
            BY <1>2, <1>4, CellAssumption DEF Agree, p, a
        <3>3. QED
            BY <1>4, <2>3, <3>1, <3>2 DEF Unlinked
    <2>4. QED
        BY <2>1, <2>2, <2>3 DEF Represents
<1>18. QED
    BY <1>3, <1>13, <1>14, <1>16, <1>17 DEF Represents

\* list_init makes every list empty.
LEMMA InitRepresents == Init => Agree(mem) /\ Represents(mem, [l \in Lists |-> <<>>])
<1> SUFFICES ASSUME Init PROVE Represents(mem, [l \in Lists |-> <<>>])
    BY InitAgrees DEF LinksAgree
<1> DEFINE q == [l \in Lists |-> <<>>]
<1>1. /\ q \in [Lists -> Seq(Nodes)]
      /\ \A l \in Lists : IsInjective(q[l]) /\ ToSet(q[l]) = {}
    BY DEF IsInjective, ToSet
<1>2. ASSUME NEW l \in Lists PROVE Chain(mem, l, q[l])
    <2>1. HeadOf(l) \in Cells /\ (CHOOSE k \in Lists : HeadOf(l) = HeadOf(k)) = l
        BY CellsDiffer DEF Cells
    <2>2. mem.next[HeadOf(l)] = TailOf(l)
        BY <2>1 DEF Init
    <2>3. /\ q[l] = <<>> /\ Len(<<>>) = 0 /\ \A i \in 0 .. 0 : i = 0
          /\ Spot(l, <<>>, 0) = HeadOf(l) /\ Spot(l, <<>>, 0 + 1) = TailOf(l)
        BY DEF Spot
    <2>4. QED
        BY <2>2, <2>3 DEF Chain
<1>3. ASSUME NEW n \in Nodes PROVE Unlinked(mem, n)
    <2>1. n \in Cells /\ ~ (\E l \in Lists : n = HeadOf(l)) /\ ~ (\E l \in Lists : n = TailOf(l))
        BY CellsDiffer DEF Cells
    <2>2. QED
        BY <2>1 DEF Init, Unlinked
<1>4. QED
    BY <1>1, <1>2, <1>3 DEF Represents

\* The first and the last cell of a list that is not empty are nodes of it:
\* list_pop and list_popback remove a node, and not the tail of another list.
LEMMA EndsAreListed ==
    ASSUME NEW m, Agree(m), NEW q, Represents(m, q), NEW l \in Lists, ~ Empty(m, l)
    PROVE  m.next[HeadOf(l)] \in ToSet(q[l]) /\ m.prev[TailOf(l)] \in ToSet(q[l])
<1> DEFINE s == q[l]
           e == Len(s)
<1>1. s \in Seq(Nodes) /\ Chain(m, l, s)
    BY DEF Represents
<1> HIDE DEF s
<1>2. /\ e \in Nat /\ DOMAIN s = 1 .. e
      /\ Spot(l, s, 0) = HeadOf(l) /\ Spot(l, s, e + 1) = TailOf(l)
      /\ \A i \in 1 .. e : Spot(l, s, i) = s[i]
    BY <1>1, SpotCells
<1>3. /\ \A i \in 0 .. e : m.next[Spot(l, s, i)] = Spot(l, s, i + 1)
      /\ \A i \in 0 .. e : m.prev[Spot(l, s, i + 1)] = Spot(l, s, i)
    BY <1>1, Neighbours
<1> HIDE DEF e
<1>4. 0 \in 0 .. e /\ e \in 0 .. e /\ 0 + 1 = 1
    BY <1>2
<1>5. m.next[HeadOf(l)] = Spot(l, s, 1) /\ m.prev[TailOf(l)] = Spot(l, s, e)
    BY <1>2, <1>3, <1>4
<1>6. e # 0
    BY <1>2, <1>5 DEF Empty
<1>7. 1 \in 1 .. e /\ e \in 1 .. e
    BY <1>2, <1>6
<1>8. m.next[HeadOf(l)] = s[1] /\ m.prev[TailOf(l)] = s[e]
    BY <1>2, <1>5, <1>7
<1>9. s[1] \in ToSet(s) /\ s[e] \in ToSet(s)
    BY <1>2, <1>7 DEF ToSet
<1>10. QED
    BY <1>8, <1>9 DEF s

\* A cell whose prev is not NULL is a node or the tail of a list, one whose
\* next is not NULL a node or the head.
LEMMA LinkedIsListed ==
    ASSUME NEW m, Agree(m), NEW q, Represents(m, q), NEW c \in Cells
    PROVE  /\ m.prev[c] # NULL =>
                \E l \in Lists : \E k \in 1 .. Len(q[l]) + 1 : c = Spot(l, q[l], k)
           /\ m.next[c] # NULL =>
                \E l \in Lists : \E k \in 1 .. Len(q[l]) + 1 : c = Spot(l, q[l], k - 1)
<1>1. \A l \in Lists : /\ q[l] \in Seq(Nodes) /\ Len(q[l]) \in Nat
                       /\ DOMAIN q[l] = 1 .. Len(q[l])
                       /\ Spot(l, q[l], 0) = HeadOf(l)
                       /\ Spot(l, q[l], Len(q[l]) + 1) = TailOf(l)
                       /\ \A i \in 1 .. Len(q[l]) : Spot(l, q[l], i) = q[l][i]
    BY SpotCells DEF Represents
<1>2. ASSUME NEW l \in Lists, c \in ToSet(q[l])
      PROVE  /\ \E k \in 1 .. Len(q[l]) + 1 : c = Spot(l, q[l], k)
             /\ \E k \in 1 .. Len(q[l]) + 1 : c = Spot(l, q[l], k - 1)
    <2>1. PICK i \in 1 .. Len(q[l]) : c = q[l][i]
        BY <1>1, <1>2 DEF ToSet
    <2>2. c = Spot(l, q[l], i) /\ i \in 1 .. Len(q[l]) + 1
        BY <1>1, <2>1
    <2> DEFINE j == i + 1
    <2>3. j \in 1 .. Len(q[l]) + 1 /\ j - 1 = i
        BY <1>1
    <2> HIDE DEF j
    <2>4. QED
        BY <2>2, <2>3
<1>3. CASE c \in Nodes
    BY <1>2, <1>3 DEF Represents, Unlinked
<1>4. ASSUME NEW l \in Lists, c = HeadOf(l)
      PROVE  m.prev[c] = NULL /\ \E k \in 1 .. Len(q[l]) + 1 : c = Spot(l, q[l], k - 1)
    <2>1. 1 \in 1 .. Len(q[l]) + 1 /\ 1 - 1 = 0
        BY <1>1
    <2>2. c = Spot(l, q[l], 1 - 1)
        BY <1>1, <1>4, <2>1
    <2>3. QED
        BY <1>4, <2>1, <2>2 DEF Agree
<1>5. ASSUME NEW l \in Lists, c = TailOf(l)
      PROVE  m.next[c] = NULL /\ \E k \in 1 .. Len(q[l]) + 1 : c = Spot(l, q[l], k)
    <2>1. Len(q[l]) + 1 \in 1 .. Len(q[l]) + 1
        BY <1>1
    <2>2. QED
        BY <1>1, <1>5, <2>1 DEF Agree
<1>6. QED
    BY <1>3, <1>4, <1>5 DEF Cells, Heads, Tails

\* A step on the pointers unlinks a node of one list, or links a node that is
\* on none.
Moved(q, z) ==
    \/ \E l \in Lists : \E n \in ToSet(q[l]) : z = [q EXCEPT ![l] = Unlink(q[l], n)]
    \/ \E l \in Lists, n \in Nodes : \E k \in 1 .. Len(q[l]) + 1 :
          /\ \A x \in Lists : n \notin ToSet(q[x])
          /\ z = [q EXCEPT ![l] = InsertAt(q[l], k, n)]

\* list_remove of a node of a list.
LEMMA RemoveMoves ==
    ASSUME NEW m, Agree(m), NEW q, Represents(m, q), NEW l \in Lists,
           NEW n \in ToSet(q[l])
    PROVE  Agree(RemoveFrom(m, n)) /\ \E z : Represents(RemoveFrom(m, n), z) /\ Moved(q, z)
<1> DEFINE z == [q EXCEPT ![l] = Unlink(q[l], n)]
<1>1. Agree(RemoveFrom(m, n)) /\ Represents(RemoveFrom(m, n), z)
    BY RemoveRepresents
<1>2. Moved(q, z)
    BY DEF Moved
<1>3. QED
    BY <1>1, <1>2

\* list_insert_before the cell at k, and list_insert_after the cell before it.
LEMMA InsertMoves ==
    ASSUME NEW m, Agree(m), NEW q, Represents(m, q), NEW l \in Lists,
           NEW k \in 1 .. Len(q[l]) + 1, NEW n \in Nodes, Unlinked(m, n),
           NEW r, \/ r = InsertBefore(m, Spot(l, q[l], k), n)
                  \/ r = InsertAfter(m, Spot(l, q[l], k - 1), n)
    PROVE  /\ Agree(r) /\ Represents(r, [q EXCEPT ![l] = InsertAt(q[l], k, n)])
           /\ \E z : Represents(r, z) /\ Moved(q, z)
<1> DEFINE s == q[l]
           i == k - 1
           p == Spot(l, s, i)
           a == Spot(l, s, k)
           z == [q EXCEPT ![l] = InsertAt(s, k, n)]
<1>1. s \in Seq(Nodes) /\ Chain(m, l, s)
    BY DEF Represents
<1>2. i \in 0 .. Len(s) /\ i + 1 = k
    BY <1>1
<1>3. m.next[p] = a /\ m.prev[a] = p
    <2> HIDE DEF i, s
    <2>1. /\ m.next[Spot(l, s, i)] = Spot(l, s, i + 1)
          /\ m.prev[Spot(l, s, i + 1)] = Spot(l, s, i)
        BY <1>1, <1>2, Neighbours, Zenon
    <2>2. QED
        BY <1>2, <2>1
<1>4. r = [prev |-> [m.prev EXCEPT ![n] = p, ![a] = n],
           next |-> [m.next EXCEPT ![n] = a, ![p] = n]]
    BY <1>3 DEF InsertBefore, InsertAfter
<1>5. Agree(r) /\ Represents(r, z)
    BY <1>4, InsertRepresents
<1>6. \A x \in Lists : n \notin ToSet(q[x])
    BY ListedIsLinked DEF Unlinked
<1>7. Moved(q, z)
    BY <1>6 DEF Moved
<1>8. QED
    BY <1>5, <1>7

\* Every operation is a move.
LEMMA StepMoves ==
    ASSUME Agree(mem), NEW q, Represents(mem, q), Next
    PROVE  Agree(mem') /\ \E z : Represents(mem', z) /\ Moved(q, z)
<1> DEFINE Done == Agree(mem') /\ \E z : Represents(mem', z) /\ Moved(q, z)
<1>1. \A l \in Lists : /\ q[l] \in Seq(Nodes) /\ Len(q[l]) \in Nat
                       /\ Spot(l, q[l], 0) = HeadOf(l)
                       /\ Spot(l, q[l], Len(q[l]) + 1) = TailOf(l)
    BY SpotCells DEF Represents
<1>2. ASSUME NEW l \in Lists, NEW n \in ToSet(q[l]), mem' = RemoveFrom(mem, n)
      PROVE  Done
    BY <1>2, RemoveMoves
<1>3. ASSUME NEW l \in Lists, NEW k \in 1 .. Len(q[l]) + 1, NEW n \in Nodes,
             Unlinked(mem, n),
             \/ mem' = InsertBefore(mem, Spot(l, q[l], k), n)
             \/ mem' = InsertAfter(mem, Spot(l, q[l], k - 1), n)
      PROVE  Done
    <2> DEFINE r == mem'
    <2>1. \/ r = InsertBefore(mem, Spot(l, q[l], k), n)
          \/ r = InsertAfter(mem, Spot(l, q[l], k - 1), n)
        BY <1>3
    <2> HIDE DEF r
    <2>2. Agree(r) /\ \E z : Represents(r, z) /\ Moved(q, z)
        BY <1>3, <2>1, InsertMoves, Zenon
    <2>3. QED
        BY <2>2 DEF r
<1> HIDE DEF Done
<1>4. ASSUME NEW l \in Lists, Pop(l) PROVE Done
    BY <1>2, <1>4, EndsAreListed DEF Pop
<1>5. ASSUME NEW l \in Lists, PopBack(l) PROVE Done
    BY <1>2, <1>5, EndsAreListed DEF PopBack
<1>6. ASSUME NEW n \in Nodes, RemoveNode(n) PROVE Done
    BY <1>2, <1>6 DEF RemoveNode, Represents, Unlinked
<1>7. ASSUME NEW n \in Nodes, NEW l \in Lists, Push(l, n) PROVE Done
    <2>1. 1 \in 1 .. Len(q[l]) + 1 /\ 1 - 1 = 0
        BY <1>1
    <2>2. Unlinked(mem, n) /\ mem' = InsertAfter(mem, Spot(l, q[l], 1 - 1), n)
        BY <1>1, <1>7, <2>1 DEF Push
    <2>3. QED
        BY <1>3, <2>1, <2>2
<1>8. ASSUME NEW n \in Nodes, NEW l \in Lists, PushBack(l, n) PROVE Done
    <2>1. Len(q[l]) + 1 \in 1 .. Len(q[l]) + 1
        BY <1>1
    <2>2. Unlinked(mem, n) /\ mem' = InsertBefore(mem, Spot(l, q[l], Len(q[l]) + 1), n)
        BY <1>1, <1>8 DEF PushBack
    <2>3. QED
        BY <1>3, <2>1, <2>2
<1>9. ASSUME NEW n \in Nodes, NEW c \in Cells, PutBefore(c, n) PROVE Done
    <2>1. PICK l \in Lists : \E k \in 1 .. Len(q[l]) + 1 : c = Spot(l, q[l], k)
        BY <1>9, LinkedIsListed DEF PutBefore
    <2>2. QED
        BY <1>3, <1>9, <2>1 DEF PutBefore
<1>10. ASSUME NEW n \in Nodes, NEW c \in Cells, PutAfter(c, n) PROVE Done
    <2>1. PICK l \in Lists : \E k \in 1 .. Len(q[l]) + 1 : c = Spot(l, q[l], k - 1)
        BY <1>10, LinkedIsListed DEF PutAfter
    <2>2. QED
        BY <1>3, <1>10, <2>1 DEF PutAfter
<1>11. Done
    BY <1>4, <1>5, <1>6, <1>7, <1>8, <1>9, <1>10 DEF Next
<1>12. QED
    BY <1>11 DEF Done

\* Agreement and the sequences hold from list_init on.
LEMMA ListInvariance == Spec => []IInv
<1>1. Init => IInv
    BY InitRepresents DEF IInv, LinksAgree
<1>2. IInv /\ [Next]_vars => IInv'
    <2>1. IInv /\ Next => IInv'
        BY StepMoves DEF IInv, LinksAgree
    <2>2. IInv /\ UNCHANGED vars => IInv'
        BY DEF vars, IInv, LinksAgree
    <2>3. QED
        BY <2>1, <2>2
<1>3. QED
    BY <1>1, <1>2, PTL DEF Spec

\* prev and next are inverse to each other in every reachable state, for
\* any number of tasks and lists: list.c never dereferences NULL.
THEOREM LinksConsistent == Spec => []LinksAgree
<1>1. IInv => LinksAgree
    BY DEF IInv
<1>2. QED
    BY <1>1, ListInvariance, PTL

-----------------------------------------------------------------------------
(* Walks along next.                                                       *)

\* The function that a walk is defined as exists.
LEMMA WalkSteps ==
    ASSUME NEW m, Agree(m), NEW l \in Lists
    PROVE  /\ Cardinality(Nodes) \in Nat
           /\ Walk(m, l)[0] = m.next[HeadOf(l)]
           /\ \A i \in 1 .. Cardinality(Nodes) + 1 :
                Walk(m, l)[i] = After(m, Walk(m, l)[i - 1])
<1> DEFINE e == Cardinality(Nodes) + 1
           S == Cells \cup {NULL}
           b == m.next[HeadOf(l)]
           Walks(f) == f = [i \in 0 .. e |-> IF i = 0 THEN b ELSE After(m, f[i - 1])]
           cell == CHOOSE f : Walks(f)
<1>1. Cardinality(Nodes) \in Nat
    BY CellAssumption, FS_CardinalityType
<1>2. Walk(m, l) = cell
    BY DEF Walk
<1>3. e \in Nat /\ b \in S /\ \A s \in S : After(m, s) \in S
    BY <1>1, CellsDiffer DEF After, Agree, Cells
<1>4. \E f : Walks(f)
    <2> DEFINE g == [p \in S \X (1 .. e) |-> After(m, p[1])]
    <2>1. \A s \in S, i \in 1 .. e : g[<<s, i>>] = After(m, s)
        OBVIOUS
    <2> HIDE DEF g, S, e, b
    <2>2. StepsIn(S, e, g)
        BY <1>3, <2>1 DEF StepsIn
    <2>3. HasRun(S, b, e, g)
        BY <1>3, <2>2, Recursion
    <2>4. PICK f \in [0 .. e -> S] :
              f[0] = b /\ \A i \in 1 .. e : f[i] = g[<<f[i - 1], i>>]
        BY <2>3 DEF HasRun
    <2>5. ASSUME NEW i \in 0 .. e
          PROVE  f[i] = IF i = 0 THEN b ELSE After(m, f[i - 1])
        <3>1. CASE i = 0
            BY <2>4, <3>1
        <3>2. CASE i # 0
            <4>1. i \in 1 .. e /\ i - 1 \in 0 .. e
                BY <1>3, <3>2
            <4>2. f[i] = g[<<f[i - 1], i>>] /\ f[i - 1] \in S
                BY <2>4, <4>1
            <4>3. QED
                BY <2>1, <3>2, <4>1, <4>2
        <3>3. QED
            BY <3>1, <3>2
    <2>6. f = [i \in 0 .. e |-> IF i = 0 THEN b ELSE After(m, f[i - 1])]
        BY <2>4, <2>5
    <2>7. QED
        BY <2>6
<1>5. Walks(cell)
    <2> HIDE DEF Walks
    <2>1. QED
        BY <1>4
<1>6. \A i \in 0 .. e : cell[i] = IF i = 0 THEN b ELSE After(m, cell[i - 1])
    BY <1>5
<1> HIDE DEF cell, b, e
<1>7. cell[0] = b /\ \A i \in 1 .. e : cell[i] = After(m, cell[i - 1])
    <2>1. 0 \in 0 .. e /\ \A i \in 1 .. e : i \in 0 .. e /\ i # 0
        BY <1>3
    <2>2. QED
        BY <1>6, <2>1
<1>8. QED
    BY <1>1, <1>2, <1>7 DEF b, e

\* A list is no longer than there are nodes.
LEMMA ListsAreShort ==
    ASSUME NEW s \in Seq(Nodes), IsInjective(s)
    PROVE  Len(s) \in Nat /\ Cardinality(Nodes) \in Nat /\ Len(s) <= Cardinality(Nodes)
<1>1. Len(s) \in Nat /\ DOMAIN s = 1 .. Len(s) /\ s \in [1 .. Len(s) -> Nodes]
    OBVIOUS
<1>2. s \in Injection(1 .. Len(s), Nodes)
    BY <1>1 DEF IsInjective, Injection
<1>3. Cardinality(1 .. Len(s)) <= Cardinality(Nodes)
    BY <1>2, CellAssumption, FS_Injection
<1>4. Cardinality(1 .. Len(s)) = Len(s)
    BY <1>1, FS_Interval
<1>5. QED
    BY <1>1, <1>3, <1>4, CellAssumption, FS_CardinalityType

\* A walk visits the cells of the list after the head, in order, and stays at
\* the tail.
LEMMA WalkFollows ==
    ASSUME NEW m, Agree(m), NEW l \in Lists, NEW s \in Seq(Nodes), IsInjective(s),
           Chain(m, l, s)
    PROVE  \A i \in 0 .. Cardinality(Nodes) + 1 :
               Walk(m, l)[i] = IF i < Len(s) THEN s[i + 1] ELSE TailOf(l)
<1> DEFINE w == Walk(m, l)
           c == Cardinality(Nodes)
           e == Len(s)
           Right(i) == w[i] = IF i < e THEN s[i + 1] ELSE TailOf(l)
           good == {i \in Nat : i <= c + 1 => Right(i)}
<1>1. /\ c \in Nat /\ w[0] = m.next[HeadOf(l)]
      /\ \A i \in 1 .. c + 1 : w[i] = After(m, w[i - 1])
    BY WalkSteps
<1>2. /\ e \in Nat /\ Spot(l, s, 0) = HeadOf(l) /\ Spot(l, s, e + 1) = TailOf(l)
      /\ \A i \in 1 .. e : Spot(l, s, i) = s[i] /\ s[i] \in Nodes
    BY SpotCells
<1>3. \A i \in 0 .. e : m.next[Spot(l, s, i)] = Spot(l, s, i + 1)
    BY DEF Chain
<1> HIDE DEF w, c, e
<1>4. \A i \in 0 .. e : Spot(l, s, i + 1) = IF i < e THEN s[i + 1] ELSE TailOf(l)
    <2> SUFFICES ASSUME NEW i \in 0 .. e
                 PROVE  Spot(l, s, i + 1) = IF i < e THEN s[i + 1] ELSE TailOf(l)
        OBVIOUS
    <2> DEFINE j == i + 1
    <2>1. j \in 1 .. e + 1 /\ (i < e <=> j \in 1 .. e) /\ (~(i < e) => j = e + 1)
        BY <1>2
    <2> HIDE DEF j
    <2>2. Spot(l, s, j) = IF i < e THEN s[j] ELSE TailOf(l)
        BY <1>2, <2>1
    <2>3. QED
        BY <2>2 DEF j
<1>5. 0 \in good
    <2>1. 0 \in 0 .. e
        BY <1>2
    <2>2. w[0] = Spot(l, s, 0 + 1)
        BY <1>1, <1>2, <1>3, <2>1
    <2>3. QED
        BY <1>4, <2>1, <2>2
<1>6. ASSUME NEW i \in Nat, i \in good PROVE i + 1 \in good
    <2> SUFFICES ASSUME i + 1 <= c + 1 PROVE Right(i + 1)
        OBVIOUS
    <2> DEFINE j == i + 1
    <2>1. w[i] = IF i < e THEN s[j] ELSE TailOf(l)
        BY <1>1, <1>6
    <2>2. j \in 1 .. c + 1 /\ j - 1 = i /\ j \in Nat
        BY <1>1
    <2> SUFFICES Right(j)
        OBVIOUS
    <2>3. i < e <=> j \in 1 .. e
        BY <1>2
    <2>4. j <= e <=> j \in 0 .. e
        BY <1>2, <2>2
    <2>5. j <= e <=> i < e
        BY <1>2, <2>2
    <2> HIDE DEF j
    <2>6. w[j] = After(m, w[i])
        BY <1>1, <2>2
    <2>7. CASE i < e
        <3>1. w[i] = Spot(l, s, j) /\ w[i] \in Nodes
            BY <1>2, <2>1, <2>3, <2>7
        <3>2. w[j] = Spot(l, s, j + 1)
            BY <1>3, <2>4, <2>5, <2>6, <2>7, <3>1 DEF After
        <3>3. QED
            BY <1>4, <2>4, <2>5, <2>7, <3>2
    <2>8. CASE ~ (i < e)
        <3>1. w[i] = TailOf(l) /\ w[i] \notin Nodes
            BY <2>1, <2>8, CellsDiffer
        <3>2. ~ (j < e)
            BY <1>2, <2>2, <2>8
        <3>3. QED
            BY <2>6, <3>1, <3>2 DEF After
    <2>9. QED
        BY <2>7, <2>8
<1> HIDE DEF good
<1>7. \A i \in Nat : i \in good
    BY <1>5, <1>6, SetInduction
<1>8. QED
    BY <1>1, <1>7 DEF good, w, c, e

\* The sequences that a memory represents are those that walks meet.
LEMMA NodesAreListed ==
    ASSUME NEW m, Agree(m), NEW q, Represents(m, q), NEW l \in Lists
    PROVE  NodesOf(m, l) = q[l]
<1> DEFINE s == q[l]
           w == Walk(m, l)
           c == Cardinality(Nodes)
           e == Len(s)
<1>1. s \in Seq(Nodes) /\ IsInjective(s) /\ Chain(m, l, s)
    BY DEF Represents
<1> HIDE DEF s
<1>2. e \in Nat /\ c \in Nat /\ e <= c
    BY <1>1, ListsAreShort
<1>3. \A i \in 0 .. c + 1 : w[i] = IF i < e THEN s[i + 1] ELSE TailOf(l)
    BY <1>1, WalkFollows
<1>4. \A i \in 1 .. e : s[i] \in Nodes
    BY <1>1
<1>5. TailOf(l) \notin Nodes
    BY CellsDiffer
<1>6. s = [i \in 1 .. e |-> s[i]]
    BY <1>1
<1> HIDE DEF w, c, e
<1>7. {i \in 0 .. c - 1 : w[i] \in Nodes} = 0 .. e - 1
    <2>1. ASSUME NEW i \in 0 .. c - 1 PROVE w[i] \in Nodes <=> i < e
        <3> DEFINE j == i + 1
        <3>1. i \in 0 .. c + 1 /\ (i < e => j \in 1 .. e)
            BY <1>2
        <3> HIDE DEF j
        <3>2. w[i] = IF i < e THEN s[j] ELSE TailOf(l)
            BY <1>3, <3>1 DEF j
        <3>3. QED
            BY <1>4, <1>5, <3>1, <3>2
    <2>2. QED
        BY <1>2, <2>1
<1>8. Size(m, l) = e
    <2>1. Cardinality(0 .. e - 1) = e
        <3>1. 0 \in Int /\ e - 1 \in Int
            BY <1>2
        <3>2. Cardinality(0 .. e - 1) = IF 0 > e - 1 THEN 0 ELSE (e - 1) - 0 + 1
            BY <3>1, FS_Interval
        <3>3. (0 > e - 1 => e = 0) /\ (e - 1) - 0 + 1 = e
            BY <1>2
        <3>4. QED
            BY <3>2, <3>3
    <2>2. QED
        BY <1>7, <2>1 DEF Size, w, c
<1>9. ASSUME NEW i \in 1 .. e PROVE w[i - 1] = s[i]
    <2> DEFINE j == i - 1
    <2>1. j \in 0 .. c + 1 /\ j < e /\ j + 1 = i
        BY <1>2
    <2> HIDE DEF j
    <2>2. w[j] = s[j + 1]
        BY <1>3, <2>1
    <2>3. QED
        BY <2>1, <2>2 DEF j
<1>10. NodesOf(m, l) = [i \in 1 .. e |-> w[i - 1]]
    BY <1>8 DEF NodesOf, w
<1>11. NodesOf(m, l) = s
    BY <1>6, <1>9, <1>10, Zenon
<1>12. QED
    BY <1>11 DEF s

\* list_search finds the nodes of the list.
LEMMA SearchFinds ==
    ASSUME NEW m, Agree(m), NEW q, Represents(m, q), NEW l \in Lists, NEW n \in Nodes
    PROVE  Search(m, l, n) <=> n \in ToSet(q[l])
<1> DEFINE s == q[l]
           w == Walk(m, l)
           c == Cardinality(Nodes)
           e == Len(s)
<1>1. s \in Seq(Nodes) /\ IsInjective(s) /\ Chain(m, l, s)
    BY DEF Represents
<1> HIDE DEF s
<1>2. e \in Nat /\ c \in Nat /\ e <= c /\ DOMAIN s = 1 .. e
    BY <1>1, ListsAreShort
<1>3. \A i \in 0 .. c + 1 : w[i] = IF i < e THEN s[i + 1] ELSE TailOf(l)
    BY <1>1, WalkFollows
<1> HIDE DEF w, c, e
<1>4. ASSUME NEW i \in 0 .. c, w[i] = n PROVE n \in ToSet(s)
    <2>1. i \in 0 .. c + 1
        BY <1>2
    <2>2. i < e
        BY <1>3, <1>4, <2>1, CellsDiffer
    <2>3. i + 1 \in 1 .. e
        BY <1>2, <2>1, <2>2
    <2>4. s[i + 1] = n
        BY <1>3, <1>4, <2>1, <2>2
    <2>5. QED
        BY <1>2, <2>3, <2>4 DEF ToSet
<1>5. ASSUME n \in ToSet(s) PROVE \E i \in 0 .. c : w[i] = n
    <2>1. PICK k \in 1 .. e : s[k] = n
        BY <1>2, <1>5 DEF ToSet
    <2> DEFINE i == k - 1
    <2>2. i \in 0 .. c /\ i \in 0 .. c + 1 /\ i < e /\ i + 1 = k
        BY <1>2
    <2> HIDE DEF i
    <2>3. w[i] = s[i + 1]
        BY <1>3, <2>2
    <2>4. QED
        BY <2>1, <2>2, <2>3
<1>6. QED
    BY <1>4, <1>5 DEF Search, s, w, c

\* A node is linked exactly if one list, and no other, has it, and walks end at
\* the tail of the list that they began in.
LEMMA ListedOnce ==
    ASSUME Agree(mem), NEW q, Represents(mem, q)
    PROVE  LinkedMeansListed
<1>1. \A l \in Lists, n \in Nodes : Search(mem, l, n) <=> n \in ToSet(q[l])
    BY SearchFinds
<1>2. ASSUME NEW n \in Nodes
      PROVE  ~ Unlinked(mem, n) <=>
                \E l \in Lists : /\ Search(mem, l, n)
                                 /\ \A k \in Lists \ {l} : ~ Search(mem, k, n)
    <2>1. ~ Unlinked(mem, n) <=> \E l \in Lists : n \in ToSet(q[l])
        BY ListedIsLinked DEF Represents, Unlinked
    <2>2. \A l, k \in Lists : l # k => ~ (n \in ToSet(q[l]) /\ n \in ToSet(q[k]))
        BY DEF Represents
    <2>3. QED
        BY <1>1, <2>1, <2>2
<1>3. ASSUME NEW l \in Lists PROVE Walk(mem, l)[Cardinality(Nodes)] = TailOf(l)
    <2> DEFINE s == q[l]
    <2>1. s \in Seq(Nodes) /\ IsInjective(s) /\ Chain(mem, l, s)
        BY DEF Represents
    <2> HIDE DEF s
    <2>2. /\ Cardinality(Nodes) \in 0 .. Cardinality(Nodes) + 1
          /\ ~ (Cardinality(Nodes) < Len(s))
        BY <2>1, ListsAreShort
    <2>3. QED
        BY <2>1, <2>2, WalkFollows
<1>4. QED
    BY <1>2, <1>3 DEF LinkedMeansListed

\* What the assertions of the callers take for granted: pointers mean
\* membership, for any number of tasks and lists.
THEOREM PointersMeanMembership == Spec => []LinkedMeansListed
<1>1. IInv => LinkedMeansListed
    BY ListedOnce DEF IInv, LinksAgree
<1>2. QED
    BY <1>1, ListInvariance, PTL

-----------------------------------------------------------------------------
(* The refinement.                                                         *)

\* ListSpec means by its operators on sequences what this module means by them.
LEMMA SameOperators ==
    /\ \A s : Lifted!ToSet(s) = ToSet(s)
    /\ \A s, n : Lifted!Unlink(s, n) = Unlink(s, n)
    /\ \A s, k, n : Lifted!InsertAt(s, k, n) = InsertAt(s, k, n)
BY DEF Lifted!ToSet, ToSet, Lifted!Unlink, Unlink, Lifted!StopAt, StopAt, Lifted!Min, Min,
       Lifted!InsertAt, InsertAt

\* A move is an operation on sequences.
LEMMA MovesAreOperations ==
    ASSUME NEW q, NEW z, Moved(q, z), Contents = q, Contents' = z,
           q \in [Lists -> Seq(Nodes)]
    PROVE  Lifted!Next
<1>1. ASSUME NEW l \in Lists, NEW n \in ToSet(q[l]),
             z = [q EXCEPT ![l] = Unlink(q[l], n)]
      PROVE  Lifted!Next
    <2>1. n \in Nodes
        BY DEF ToSet
    <2>2. Lifted!RemoveNode(l, n)
        BY <1>1, SameOperators DEF Lifted!RemoveNode
    <2>3. QED
        BY <2>1, <2>2 DEF Lifted!Next
<1>2. ASSUME NEW l \in Lists, NEW n \in Nodes, NEW k \in 1 .. Len(q[l]) + 1,
             \A x \in Lists : n \notin ToSet(q[x]),
             z = [q EXCEPT ![l] = InsertAt(q[l], k, n)]
      PROVE  Lifted!Next
    <2>1. n \notin Lifted!Linked
        BY <1>2, SameOperators DEF Lifted!Linked
    <2>2. Lifted!Insert(l, n, k)
        BY <1>2, <2>1, SameOperators DEF Lifted!Insert
    <2>3. QED
        BY <2>2 DEF Lifted!Next
<1>3. QED
    BY <1>1, <1>2 DEF Moved

\* The contents of the lists are the sequences that the memory represents.
LEMMA ContentsRepresent ==
    ASSUME Agree(mem), NEW q, Represents(mem, q)
    PROVE  Contents = q
<1>1. \A l \in Lists : NodesOf(mem, l) = q[l]
    BY NodesAreListed
<1>2. q = [l \in Lists |-> q[l]]
    BY DEF Represents
<1>3. QED
    BY <1>1, <1>2, Zenon DEF Contents

\* The same of the memory after a step.
LEMMA ContentsFollow ==
    ASSUME Agree(mem'), NEW z, Represents(mem', z)
    PROVE  Contents' = z
<1>1. \A l \in Lists : NodesOf(mem', l) = z[l]
    BY NodesAreListed
<1>2. z = [l \in Lists |-> z[l]]
    BY DEF Represents
<1>3. Contents' = [l \in Lists |-> NodesOf(mem', l)]
    BY DEF Contents, NodesOf, Size, Walk, After
<1>4. QED
    BY <1>1, <1>2, <1>3, Zenon

\* The linked lists implement lists that are sequences, for any number of nodes
\* and lists: whatever list.c does to the pointers is an insertion or a removal
\* at one place of one sequence.
THEOREM ListsImplement == Spec => ListsAreSequences
<1>1. Init => Lifted!Init
    <2> SUFFICES ASSUME Init PROVE Lifted!Init
        OBVIOUS
    <2>1. Agree(mem) /\ Represents(mem, [l \in Lists |-> <<>>])
        BY InitRepresents
    <2>2. Contents = [l \in Lists |-> <<>>]
        BY <2>1, ContentsRepresent
    <2>3. QED
        BY <2>2 DEF Lifted!Init
<1>2. IInv /\ [Next]_vars => [Lifted!Next]_Contents
    <2> SUFFICES ASSUME IInv, [Next]_vars PROVE [Lifted!Next]_Contents
        OBVIOUS
    <2>1. CASE Next
        <3>1. PICK q : Represents(mem, q)
            BY DEF IInv
        <3>2. Agree(mem)
            BY DEF IInv, LinksAgree
        <3>3. PICK z : Agree(mem') /\ Represents(mem', z) /\ Moved(q, z)
            BY <2>1, <3>1, <3>2, StepMoves
        <3>4. Contents = q /\ Contents' = z /\ q \in [Lists -> Seq(Nodes)]
            BY <3>1, <3>2, <3>3, ContentsRepresent, ContentsFollow DEF Represents
        <3>5. QED
            BY <3>3, <3>4, MovesAreOperations
    <2>2. CASE UNCHANGED vars
        BY <2>2 DEF vars, Contents, NodesOf, Size, Walk, After
    <2>3. QED
        BY <2>1, <2>2
<1>3. QED
    BY <1>1, <1>2, ListInvariance, PTL DEF Spec, ListsAreSequences, Lifted!Spec

-----------------------------------------------------------------------------
(* The walks of task_sleep and task_wakeup.                                *)

\* The walk of task_sleep ends at the place that StopAt names.
LEMMA AnchorStops ==
    ASSUME NEW m, Agree(m), NEW q, Represents(m, q), NEW l \in Lists,
           NEW later \in SUBSET Nodes
    PROVE  Anchor(m, l, later) = Spot(l, q[l], StopAt(q[l], later))
<1> DEFINE s == q[l]
           w == Walk(m, l)
           c == Cardinality(Nodes)
           e == Len(s)
           stop == StopAt(s, later)
           j == stop - 1
           stops == {i \in 0 .. c : w[i] \in later \cup {TailOf(l)}}
           first == CHOOSE i \in stops : \A x \in stops : i <= x
<1>1. s \in Seq(Nodes) /\ IsInjective(s) /\ Chain(m, l, s)
    BY DEF Represents
<1>2. Anchor(m, l, later) = w[first]
    BY DEF Anchor
<1> HIDE DEF s
<1>3. e \in Nat /\ c \in Nat /\ e <= c /\ \A i \in 1 .. e : s[i] \in Nodes
    BY <1>1, ListsAreShort
<1>4. \A i \in 0 .. c + 1 : w[i] = IF i < e THEN s[i + 1] ELSE TailOf(l)
    BY <1>1, WalkFollows
<1>5. /\ stop \in 1 .. e + 1
      /\ \A i \in 1 .. stop - 1 : s[i] \notin later
      /\ stop <= e => s[stop] \in later
    BY <1>1, StopAtStops
<1>6. /\ \A i \in 1 .. e : Spot(l, s, i) = s[i]
      /\ Spot(l, s, e + 1) = TailOf(l)
    BY <1>1, SpotCells
<1>7. TailOf(l) \notin Nodes
    BY CellsDiffer
<1> HIDE DEF w, c, e, stop
<1>8. j \in 0 .. c /\ j \in 0 .. c + 1 /\ j + 1 = stop
    BY <1>3, <1>5
<1>9. w[j] = Spot(l, s, stop) /\ w[j] \in later \cup {TailOf(l)}
    <2>1. w[j] = IF j < e THEN s[stop] ELSE TailOf(l)
        BY <1>4, <1>8
    <2>2. (j < e <=> stop \in 1 .. e) /\ (~(j < e) => stop = e + 1)
        BY <1>3, <1>5
    <2> HIDE DEF j
    <2>3. QED
        BY <1>3, <1>5, <1>6, <2>1, <2>2
<1> HIDE DEF j
<1>10. \A i \in stops : j <= i
    <2> SUFFICES ASSUME NEW i \in 0 .. c, i < j
                 PROVE  w[i] \notin later \cup {TailOf(l)}
        BY <1>3, <1>8
    <2> DEFINE x == i + 1
    <2>1. i \in 0 .. c + 1 /\ i < e /\ x \in 1 .. stop - 1 /\ x \in 1 .. e
        BY <1>3, <1>5, <1>8
    <2>2. w[i] = s[x]
        BY <1>4, <2>1
    <2> HIDE DEF x
    <2>3. QED
        BY <1>3, <1>5, <1>7, <2>1, <2>2
<1>11. j \in stops
    BY <1>8, <1>9
<1>12. \A i \in stops : i \in Int
    BY <1>3
<1>13. first = j
    <2>1. first \in stops /\ \A x \in stops : first <= x
        <3> HIDE DEF stops
        <3>1. QED
            BY <1>10, <1>11
    <2> HIDE DEF stops, first
    <2>2. first <= j /\ j <= first /\ first \in Int /\ j \in Int
        BY <1>10, <1>11, <1>12, <2>1
    <2>3. QED
        BY <2>2
<1> HIDE DEF first
<1>14. QED
    BY <1>2, <1>9, <1>13 DEF s, stop

\* The cells of what is left of a list.
LEMMA SuffixSpots ==
    ASSUME NEW l \in Lists, NEW s \in Seq(Nodes), NEW k \in 0 .. Len(s)
    PROVE  LET u == SubSeq(s, k + 1, Len(s))
           IN  /\ u \in Seq(Nodes) /\ Len(u) = Len(s) - k
               /\ \A i \in 1 .. Len(s) - k + 1 : Spot(l, u, i) = Spot(l, s, k + i)
<1> DEFINE u == SubSeq(s, k + 1, Len(s))
           e == Len(s)
<1>1. /\ u \in Seq(Nodes) /\ Len(u) = e - k
      /\ \A i \in 1 .. e - k : u[i] = s[k + i]
    BY SuffixElements
<1>2. e \in Nat /\ k \in 0 .. e
    OBVIOUS
<1> HIDE DEF u, e
<1>3. ASSUME NEW i \in 1 .. e - k + 1 PROVE Spot(l, u, i) = Spot(l, s, k + i)
    <2> DEFINE j == k + i
               f == Len(u)
    <2>1. i # 0 /\ j # 0 /\ (i = f + 1 <=> j = e + 1) /\ (i = f + 1 \/ i \in 1 .. e - k)
        <3>1. f = e - k
            BY <1>1
        <3> HIDE DEF f
        <3>2. QED
            BY <1>2, <3>1
    <2>2. i \in 1 .. e - k => u[i] = s[j]
        BY <1>1
    <2> HIDE DEF j
    <2>3. Spot(l, u, i) = IF i = f + 1 THEN TailOf(l) ELSE u[i]
        BY <2>1 DEF Spot
    <2>4. Spot(l, s, j) = IF j = e + 1 THEN TailOf(l) ELSE s[j]
        BY <2>1 DEF Spot, e
    <2> HIDE DEF f
    <2>5. Spot(l, u, i) = Spot(l, s, j)
        BY <2>1, <2>2, <2>3, <2>4
    <2>6. QED
        BY <2>5 DEF j
<1>4. QED
    BY <1>1, <1>3 DEF u, e

\* Unlinking the first of what is left of a list.
LEMMA SuffixUnlinked ==
    ASSUME NEW s \in Seq(Nodes), IsInjective(s), NEW k \in 0 .. Len(s) - 1
    PROVE  LET u == SubSeq(s, k + 1, Len(s))
           IN  /\ s[k + 1] \in ToSet(u)
               /\ Unlink(u, s[k + 1]) = SubSeq(s, (k + 1) + 1, Len(s))
<1> DEFINE e == Len(s)
           h == k + 1
           u == SubSeq(s, k + 1, Len(s))
           v == SubSeq(s, h + 1, Len(s))
           n == s[k + 1]
           t == Unlink(u, n)
<1>1. e \in Nat /\ k \in 0 .. e /\ h \in 0 .. e /\ 1 \in 1 .. e - k
    OBVIOUS
<1>2. /\ u \in Seq(Nodes) /\ Len(u) = e - k
      /\ \A i \in 1 .. e - k : u[i] = s[k + i]
    BY <1>1, SuffixElements
<1>3. /\ v \in Seq(Nodes) /\ Len(v) = e - h
      /\ \A i \in 1 .. e - h : v[i] = s[h + i]
    <2> HIDE DEF h
    <2>1. QED
        BY <1>1, SuffixElements
<1>4. IsInjective(u)
    BY <1>1, SuffixRemains
<1> HIDE DEF u, v
<1>5. u[1] = n /\ DOMAIN u = 1 .. e - k /\ DOMAIN v = 1 .. e - h
    BY <1>1, <1>2, <1>3
<1>6. n \in ToSet(u)
    BY <1>1, <1>5 DEF ToSet
<1> HIDE DEF n
<1>7. PICK x \in 1 .. Len(u) :
         /\ u[x] = n
         /\ t \in Seq(Nodes)
         /\ Len(t) = Len(u) - 1
         /\ \A i \in 1 .. Len(u) - 1 : t[i] = IF i < x THEN u[i] ELSE u[i + 1]
    <2>1. u \in Seq(Nodes) /\ n \in ToSet(u)
        BY <1>2, <1>6
    <2>2. QED
        BY <2>1, UnlinkElements
<1>8. x = 1
    BY <1>1, <1>2, <1>4, <1>5, <1>7 DEF IsInjective
<1> HIDE DEF t, e
<1>9. Len(t) = e - h /\ Len(u) - 1 = e - h
    BY <1>1, <1>2, <1>7
<1>10. ASSUME NEW i \in 1 .. e - h PROVE t[i] = v[i]
    <2> DEFINE j == i + 1
    <2>1. ~ (i < 1) /\ j \in 1 .. e - k /\ k + j = h + i
        BY <1>1
    <2>2. t[i] = u[j]
        BY <1>7, <1>8, <1>9, <2>1
    <2> HIDE DEF j
    <2>3. u[j] = s[k + j]
        BY <1>2, <2>1
    <2>4. QED
        BY <1>3, <2>1, <2>2, <2>3
<1>11. t = v
    <2>1. t = [i \in 1 .. e - h |-> t[i]]
        BY <1>7, <1>9
    <2>2. v = [i \in 1 .. e - h |-> v[i]]
        BY <1>3
    <2>3. QED
        BY <1>10, <2>1, <2>2, Zenon
<1>12. QED
    BY <1>6, <1>11 DEF u, v, n, t, e

\* One turn of the loop of task_wakeup, and where the loop is after k nodes.
Turn(a, later) == IF a.ptr \in Nodes \ later
                  THEN [mem |-> RemoveFrom(a.mem, a.ptr), ptr |-> a.mem.next[a.ptr]]
                  ELSE a

Left(q, l, k) == [q EXCEPT ![l] = SubSeq(q[l], k + 1, Len(q[l]))]

Reached(a, q, l, k) ==
    /\ Agree(a.mem) /\ Represents(a.mem, Left(q, l, k))
    /\ a.ptr = Spot(l, q[l], k + 1)

\* A turn removes the first node that is left, and ptr, which was read before,
\* is the node after it.
LEMMA TurnRemoves ==
    ASSUME NEW q \in [Lists -> Seq(Nodes)], NEW l \in Lists, IsInjective(q[l]),
           NEW k \in 0 .. Len(q[l]) - 1, NEW a, Reached(a, q, l, k),
           NEW later, q[l][k + 1] \notin later
    PROVE  Reached(Turn(a, later), q, l, k + 1)
<1> DEFINE s == q[l]
           h == k + 1
           u == SubSeq(s, k + 1, Len(s))
           n == s[k + 1]
           m == a.mem
           r == RemoveFrom(m, n)
           b == Turn(a, later)
           z == Left(q, l, k)
           y == Left(q, l, h)
<1>1. /\ s \in Seq(Nodes) /\ IsInjective(s) /\ Len(s) \in Nat
      /\ k \in 0 .. Len(s) - 1 /\ k \in 0 .. Len(s) /\ h \in 1 .. Len(s)
      /\ h \in 0 .. Len(s)
    OBVIOUS
<1>2. Agree(m) /\ Represents(m, z) /\ a.ptr = Spot(l, s, k + 1)
    BY DEF Reached
<1>3. z[l] = u /\ z = [q EXCEPT ![l] = u]
    BY DEF Left
<1>4. y = [q EXCEPT ![l] = SubSeq(s, h + 1, Len(s))]
    BY DEF Left
<1>5. n \in Nodes /\ n \notin later /\ Spot(l, s, k + 1) = n
    <2> HIDE DEF s
    <2>1. Spot(l, s, h) = s[h] /\ s[h] \in Nodes
        BY <1>1, SpotCells
    <2>2. QED
        BY <2>1 DEF s
<1> HIDE DEF s
<1>6. n \in ToSet(u) /\ Unlink(u, n) = SubSeq(s, h + 1, Len(s))
    BY <1>1, SuffixUnlinked
<1>7. /\ u \in Seq(Nodes) /\ Len(u) = Len(s) - k
      /\ \A i \in 1 .. Len(s) - k + 1 : Spot(l, u, i) = Spot(l, s, k + i)
    BY <1>1, SuffixSpots
<1>8. b = [mem |-> r, ptr |-> m.next[n]]
    BY <1>2, <1>5 DEF Turn
<1> HIDE DEF b, r, z, y, u, m
<1>9. Agree(r) /\ Represents(r, [z EXCEPT ![l] = Unlink(z[l], n)])
    BY <1>2, <1>3, <1>6, RemoveRepresents DEF r
<1>10. [z EXCEPT ![l] = Unlink(z[l], n)] = y
    BY <1>3, <1>4, <1>6
<1>11. m.next[n] = Spot(l, s, h + 1)
    <2>1. Chain(m, l, u)
        BY <1>2, <1>3 DEF Represents
    <2> DEFINE e == Len(s)
    <2>2. e \in Nat /\ Len(u) = e - k /\ k \in 0 .. e - 1 /\ h = k + 1
        BY <1>1, <1>7
    <2>3. \A i \in 1 .. e - k + 1 : Spot(l, u, i) = Spot(l, s, k + i)
        BY <1>7
    <2> HIDE DEF e
    <2>4. 1 \in 0 .. Len(u) /\ 1 \in 1 .. e - k + 1 /\ 2 \in 1 .. e - k + 1 /\ 1 + 1 = 2 /\ k + 2 = h + 1
        BY <2>2
    <2>5. m.next[Spot(l, u, 1)] = Spot(l, u, 2)
        BY <2>1, <2>4 DEF Chain
    <2>6. Spot(l, u, 1) = Spot(l, s, k + 1) /\ Spot(l, u, 2) = Spot(l, s, k + 2)
        BY <2>3, <2>4
    <2>7. QED
        BY <1>5, <2>4, <2>5, <2>6
<1>12. b.mem = r /\ b.ptr = Spot(l, s, h + 1)
    BY <1>8, <1>11
<1>13. QED
    BY <1>9, <1>10, <1>12 DEF Reached, b, y, s

\* The function that the loop is defined as exists.
LEMMA TurnsFollow ==
    ASSUME NEW m, Agree(m), NEW l \in Lists, NEW later
    PROVE  \E turn :
               /\ Drained(m, l, later) = turn[Cardinality(Nodes)].mem
               /\ turn[0] = [mem |-> m, ptr |-> m.next[HeadOf(l)]]
               /\ \A i \in 1 .. Cardinality(Nodes) : turn[i] = Turn(turn[i - 1], later)
<1> DEFINE e == Cardinality(Nodes)
           P == [Cells -> Cells \cup {NULL}]
           M == [prev : P, next : P]
           S == [mem : M, ptr : Cells \cup {NULL}]
           b == [mem |-> m, ptr |-> m.next[HeadOf(l)]]
           Turns(f) == f = [i \in 0 .. e |-> IF i = 0 THEN b ELSE Turn(f[i - 1], later)]
           turn == CHOOSE f : Turns(f)
<1>1. e \in Nat
    BY CellAssumption, FS_CardinalityType
<1>2. Drained(m, l, later) = turn[e].mem
    BY DEF Drained, Turn
<1>3. b \in S
    BY CellsDiffer DEF Agree, Cells
<1>4. ASSUME NEW a \in S PROVE Turn(a, later) \in S
    <2>1. CASE a.ptr \in Nodes \ later
        <3> DEFINE n == a.ptr
                   mm == a.mem
        <3>1. n \in Cells /\ mm \in M /\ mm.prev \in P /\ mm.next \in P
            BY <2>1 DEF Cells
        <3>2. mm.prev[n] \in Cells \cup {NULL} /\ mm.next[n] \in Cells \cup {NULL}
            BY <3>1
        <3> HIDE DEF n, mm, P
        <3>3. /\ [mm.prev EXCEPT ![mm.next[n]] = mm.prev[n], ![n] = NULL] \in P
              /\ [mm.next EXCEPT ![mm.prev[n]] = mm.next[n], ![n] = NULL] \in P
            BY <3>1, <3>2 DEF P
        <3>4. RemoveFrom(mm, n) \in M
            BY <3>3 DEF RemoveFrom
        <3>5. Turn(a, later) = [mem |-> RemoveFrom(mm, n), ptr |-> mm.next[n]]
            BY <2>1 DEF Turn, mm, n
        <3>6. QED
            BY <3>2, <3>4, <3>5
    <2>2. CASE a.ptr \notin Nodes \ later
        BY <2>2 DEF Turn
    <2>3. QED
        BY <2>1, <2>2
<1>5. \E f : Turns(f)
    <2> DEFINE g == [p \in S \X (1 .. e) |-> Turn(p[1], later)]
    <2>1. \A s \in S, i \in 1 .. e : g[<<s, i>>] = Turn(s, later)
        OBVIOUS
    <2> HIDE DEF g, S, e, b
    <2>2. StepsIn(S, e, g)
        BY <1>4, <2>1 DEF StepsIn
    <2>3. HasRun(S, b, e, g)
        BY <1>1, <1>3, <2>2, Recursion
    <2>4. PICK f \in [0 .. e -> S] :
              f[0] = b /\ \A i \in 1 .. e : f[i] = g[<<f[i - 1], i>>]
        BY <2>3 DEF HasRun
    <2>5. ASSUME NEW i \in 0 .. e
          PROVE  f[i] = IF i = 0 THEN b ELSE Turn(f[i - 1], later)
        <3>1. CASE i = 0
            BY <2>4, <3>1
        <3>2. CASE i # 0
            <4>1. i \in 1 .. e /\ i - 1 \in 0 .. e
                BY <1>1, <3>2
            <4>2. f[i] = g[<<f[i - 1], i>>] /\ f[i - 1] \in S
                BY <2>4, <4>1
            <4>3. QED
                BY <2>1, <3>2, <4>1, <4>2
        <3>3. QED
            BY <3>1, <3>2
    <2>6. f = [i \in 0 .. e |-> IF i = 0 THEN b ELSE Turn(f[i - 1], later)]
        BY <2>4, <2>5
    <2>7. QED
        BY <2>6
<1>6. Turns(turn)
    <2> HIDE DEF Turns
    <2>1. QED
        BY <1>5
<1>7. \A i \in 0 .. e : turn[i] = IF i = 0 THEN b ELSE Turn(turn[i - 1], later)
    BY <1>6
<1> HIDE DEF turn, b, e
<1>8. turn[0] = b /\ \A i \in 1 .. e : turn[i] = Turn(turn[i - 1], later)
    <2>1. 0 \in 0 .. e /\ \A i \in 1 .. e : i \in 0 .. e /\ i # 0
        BY <1>1
    <2>2. QED
        BY <1>7, <2>1
<1>9. QED
    BY <1>2, <1>8 DEF b, e

\* The loop of task_wakeup leaves what begins at the place that StopAt names.
LEMMA DrainedStops ==
    ASSUME NEW m, Agree(m), NEW q, Represents(m, q), NEW l \in Lists,
           NEW later \in SUBSET Nodes
    PROVE  NodesOf(Drained(m, l, later), l)
               = SubSeq(q[l], StopAt(q[l], later), Len(q[l]))
<1> DEFINE s == q[l]
           c == Cardinality(Nodes)
           e == Len(s)
           stop == StopAt(s, later)
           j == stop - 1
<1>1. s \in Seq(Nodes) /\ IsInjective(s) /\ Chain(m, l, s) /\ q \in [Lists -> Seq(Nodes)]
    BY DEF Represents
<1>2. e \in Nat /\ c \in Nat /\ e <= c
    <2> HIDE DEF s
    <2>1. QED
        BY <1>1, ListsAreShort
<1>3. /\ stop \in 1 .. e + 1
      /\ \A i \in 1 .. stop - 1 : s[i] \notin later
      /\ stop <= e => s[stop] \in later
    <2> HIDE DEF s
    <2>1. QED
        BY <1>1, StopAtStops
<1>4. PICK turn : /\ Drained(m, l, later) = turn[c].mem
                  /\ turn[0] = [mem |-> m, ptr |-> m.next[HeadOf(l)]]
                  /\ \A i \in 1 .. c : turn[i] = Turn(turn[i - 1], later)
    BY TurnsFollow
<1>5. /\ Spot(l, s, 0) = HeadOf(l) /\ Spot(l, s, e + 1) = TailOf(l)
      /\ \A i \in 1 .. e : Spot(l, s, i) = s[i]
    <2> HIDE DEF s
    <2>1. QED
        BY <1>1, SpotCells
<1>6. TailOf(l) \notin Nodes
    BY CellsDiffer
<1>7. Reached(turn[0], q, l, 0)
    <2>1. turn[0].mem = m /\ turn[0].ptr = m.next[HeadOf(l)]
        BY <1>4
    <2>2. m.next[HeadOf(l)] = Spot(l, s, 0 + 1)
        BY <1>1, <1>2, <1>5 DEF Chain
    <2>3. Left(q, l, 0) = q
        <3>1. SubSeq(s, 0 + 1, e) = s
            BY <1>1
        <3> HIDE DEF s, e
        <3>2. QED
            BY <1>1, <3>1 DEF Left, s, e
    <2>4. QED
        BY <2>1, <2>2, <2>3 DEF Reached
<1> HIDE DEF c, e, stop, s
<1>8. j \in 0 .. e /\ j \in 0 .. c /\ j + 1 = stop
    BY <1>2, <1>3
<1>9. Spot(l, s, stop) \notin Nodes \ later
    <2>1. stop \in 1 .. e \/ stop = e + 1
        BY <1>2, <1>3
    <2>2. stop \in 1 .. e => stop <= e
        BY <1>2
    <2>3. QED
        BY <1>3, <1>5, <1>6, <2>1, <2>2
<1> HIDE DEF j
<1> DEFINE Right(i) == \E k \in 0 .. j : (k = i \/ k = j) /\ Reached(turn[i], q, l, k)
           good == {i \in Nat : i <= c => Right(i)}
<1>10. 0 \in good
    BY <1>7, <1>8
<1>11. ASSUME NEW i \in Nat, i \in good PROVE i + 1 \in good
    <2> SUFFICES ASSUME i + 1 <= c PROVE Right(i + 1)
        OBVIOUS
    <2>1. i <= c /\ i + 1 \in 1 .. c /\ (i + 1) - 1 = i
        BY <1>2
    <2>2. PICK k \in 0 .. j : (k = i \/ k = j) /\ Reached(turn[i], q, l, k)
        BY <1>11, <2>1
    <2>3. turn[i + 1] = Turn(turn[i], later)
        BY <1>4, <2>1
    <2>4. CASE k = j
        <3>1. turn[i].ptr = Spot(l, s, stop)
            BY <1>8, <2>2, <2>4 DEF Reached, s
        <3>2. turn[i + 1] = turn[i]
            BY <1>9, <2>3, <3>1 DEF Turn
        <3>3. j \in 0 .. j
            BY <1>8
        <3>4. QED
            BY <2>2, <2>4, <3>2, <3>3
    <2>5. CASE k # j
        <3>1. k = i /\ k \in 0 .. e - 1 /\ k + 1 \in 1 .. stop - 1 /\ k + 1 \in 0 .. j
            BY <1>2, <1>8, <2>2, <2>5
        <3>2. s[k + 1] \notin later
            BY <1>3, <3>1
        <3>3. Reached(Turn(turn[i], later), q, l, k + 1)
            BY <1>1, <2>2, <3>1, <3>2, TurnRemoves DEF s, e
        <3>4. QED
            BY <2>3, <3>1, <3>3
    <2>6. QED
        BY <2>4, <2>5
<1> HIDE DEF good
<1>12. \A i \in Nat : i \in good
    BY <1>10, <1>11, SetInduction
<1>13. Reached(turn[c], q, l, j)
    <2>1. Right(c)
        BY <1>2, <1>12 DEF good
    <2>2. c \in 0 .. j => c = j
        BY <1>2, <1>8
    <2>3. QED
        BY <2>1, <2>2
<1>14. NodesOf(turn[c].mem, l) = Left(q, l, j)[l]
    BY <1>13, NodesAreListed DEF Reached
<1>15. Left(q, l, j)[l] = SubSeq(s, stop, e)
    BY <1>1, <1>8 DEF Left, s, e
<1>16. QED
    BY <1>4, <1>14, <1>15 DEF s, stop, e

\* Both walks in one state.
LEMMA WalksStop ==
    ASSUME Agree(mem), NEW q, Represents(mem, q)
    PROVE  WalksAgree
<1> SUFFICES ASSUME NEW l \in Lists, NEW later \in SUBSET Nodes
             PROVE  LET s == NodesOf(mem, l)
                        stop == StopAt(s, later)
                    IN  /\ NodesOf(Drained(mem, l, later), l) = SubSeq(s, stop, Len(s))
                        /\ \A n \in Nodes :
                              Unlinked(mem, n) =>
                                  NodesOf(InsertBefore(mem, Anchor(mem, l, later), n), l)
                                      = InsertAt(s, stop, n)
    BY Zenon DEF WalksAgree
<1> DEFINE s == q[l]
           stop == StopAt(s, later)
<1>1. NodesOf(mem, l) = s
    BY NodesAreListed
<1>2. NodesOf(Drained(mem, l, later), l) = SubSeq(s, stop, Len(s))
    BY DrainedStops
<1>3. ASSUME NEW n \in Nodes, Unlinked(mem, n)
      PROVE  NodesOf(InsertBefore(mem, Anchor(mem, l, later), n), l) = InsertAt(s, stop, n)
    <2> DEFINE r == InsertBefore(mem, Spot(l, s, stop), n)
               z == [q EXCEPT ![l] = InsertAt(s, stop, n)]
    <2>1. Anchor(mem, l, later) = Spot(l, s, stop)
        BY AnchorStops
    <2>2. s \in Seq(Nodes) /\ q \in [Lists -> Seq(Nodes)]
        BY DEF Represents
    <2>3. stop \in 1 .. Len(s) + 1
        <3> HIDE DEF s
        <3>1. QED
            BY <2>2, StopAtStops
    <2>4. Agree(r) /\ Represents(r, z)
        <3> HIDE DEF stop
        <3>1. QED
            BY <1>3, <2>3, InsertMoves
    <2>5. z[l] = InsertAt(s, stop, n)
        BY <2>2
    <2> HIDE DEF r, z
    <2>6. NodesOf(r, l) = z[l]
        BY <2>4, NodesAreListed
    <2>7. QED
        BY <2>1, <2>5, <2>6 DEF r
<1> HIDE DEF s
<1>4. QED
    BY <1>1, <1>2, <1>3

\* The loops of task_sleep and task_wakeup, pointer by pointer, stop where the
\* models of the scheduler say, for any number of tasks, although the second
\* loop removes the nodes that it walks over.
THEOREM WalksAreStops == Spec => []WalksAgree
<1>1. IInv => WalksAgree
    BY WalksStop DEF IInv, LinksAgree
<1>2. QED
    BY <1>1, ListInvariance, PTL
=============================================================================
