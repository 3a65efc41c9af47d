------------------------------- MODULE Lemmas ---------------------------------
(***************************************************************************)
(* Facts that several proofs rest on: induction and recursion over the     *)
(* natural numbers, and what the list operators return, for all sequences. *)
(***************************************************************************)
EXTENDS TaskLists, SequenceTheorems, WellFoundedInduction, TLAPS

\* A set of natural numbers that is not empty has a least element.
LEMMA MinOfNats ==
    ASSUME NEW T, T \subseteq Nat, T # {}
    PROVE  Min(T) \in T /\ \A y \in T : Min(T) <= y
<1> DEFINE L == OpToRel(<, Nat)
<1>1. PICK x \in T : \A y \in T : <<y, x>> \notin L
    BY NatLessThanWellFounded, WFMin, Zenon
<1>2. ASSUME NEW y \in T PROVE x <= y
    <2>1. L = {ss \in Nat \X Nat : ss[1] < ss[2]}
        BY Zenon DEF OpToRel
    <2> HIDE DEF L
    <2>2. ~ (y < x)
        BY <1>1, <2>1
    <2>3. QED
        BY <2>2
<1>3. QED
    BY <1>2 DEF Min

\* Induction over the natural numbers, about a set instead of a formula.
LEMMA SetInduction ==
    ASSUME NEW T, 0 \in T, \A m \in Nat : m \in T => m + 1 \in T
    PROVE  \A n \in Nat : n \in T
<1> DEFINE bad == Nat \ T
<1>1. SUFFICES ASSUME bad # {} PROVE FALSE
    OBVIOUS
<1>2. Min(bad) \in bad /\ \A m \in bad : Min(bad) <= m
    BY <1>1, MinOfNats
<1>3. PICK m \in bad : \A k \in bad : m <= k
    BY <1>2
<1>4. m # 0 /\ m - 1 \in Nat /\ m - 1 \notin bad /\ (m - 1) + 1 = m
    BY <1>3
<1>5. QED
    BY <1>3, <1>4

\* A function that is defined by recursion over the numbers up to n, from b by
\* steps g, exists.
StepsIn(S, n, g) == \A s \in S, i \in 1 .. n : g[<<s, i>>] \in S

HasRun(S, b, n, g) ==
    \E f \in [0 .. n -> S] :
      f[0] = b /\ \A i \in 1 .. n : f[i] = g[<<f[i - 1], i>>]

LEMMA Recursion ==
    ASSUME NEW S, NEW b, NEW n, NEW g, b \in S, n \in Nat, StepsIn(S, n, g)
    PROVE  HasRun(S, b, n, g)
<1> USE DEF StepsIn, HasRun
<1> DEFINE Steps(f, m) ==
               f[0] = b /\ \A i \in 1 .. m : f[i] = g[<<f[i - 1], i>>]
           good == {m \in Nat : m <= n => \E f \in [0 .. m -> S] : Steps(f, m)}
<1>1. 0 \in good
    <2> DEFINE f == [i \in 0 .. 0 |-> b]
    <2>1. f \in [0 .. 0 -> S] /\ Steps(f, 0)
        OBVIOUS
    <2>2. QED
        BY <2>1
<1>2. ASSUME NEW m \in Nat, m \in good PROVE m + 1 \in good
    <2> SUFFICES ASSUME m + 1 <= n PROVE \E h \in [0 .. m + 1 -> S] : Steps(h, m + 1)
        OBVIOUS
    <2>1. PICK f \in [0 .. m -> S] : Steps(f, m)
        BY <1>2
    <2> DEFINE last == g[<<f[m], m + 1>>]
               h == [i \in 0 .. m + 1 |-> IF i = m + 1 THEN last ELSE f[i]]
    <2>2. f[m] \in S /\ m + 1 \in 1 .. n
        OBVIOUS
    <2>3. last \in S
        BY <2>2
    <2> HIDE DEF last
    <2>4. h \in [0 .. m + 1 -> S] /\ h[0] = b
        BY <2>1, <2>3
    <2>5. ASSUME NEW i \in 1 .. m + 1 PROVE h[i] = g[<<h[i - 1], i>>]
        <3>1. CASE i = m + 1
            <4>1. h[i] = last /\ i - 1 = m /\ h[m] = f[m]
                BY <3>1
            <4>2. QED
                BY <3>1, <4>1 DEF last
        <3>2. CASE i # m + 1
            <4>1. i \in 1 .. m /\ h[i] = f[i] /\ h[i - 1] = f[i - 1]
                BY <3>2
            <4>2. QED
                BY <2>1, <4>1
        <3>3. QED
            BY <3>1, <3>2
    <2> HIDE DEF h
    <2>6. QED
        BY <2>4, <2>5
<1> HIDE DEF good
<1>3. n \in good
    BY <1>1, <1>2, SetInduction
<1>4. QED
    BY <1>3 DEF good

\* Days of the hundred years from 1970 on: with the leap days of the years
\* before, of which the last year has none.
HundredYears(n) == n \in 0 .. 36524

LEMMA HundredYearsFit ==
    ASSUME NEW y \in 0 .. 99, NEW q \in 0 .. 25, NEW e \in 0 .. 365,
           y # 99 => q <= 24, y = 99 => e <= 364
    PROVE  HundredYears(365 * y + q + e)
    BY SMT DEF HundredYears

\* Division of integers: quotient and remainder exist, and they are the only
\* ones.
LEMMA DivisionUnique ==
    ASSUME NEW d \in Nat \ {0}, NEW n \in Int, NEW q \in Int, NEW r \in 0 .. d - 1,
           n = q * d + r
    PROVE  n \div d = q /\ n % d = r
    OBVIOUS

LEMMA Division ==
    ASSUME NEW d \in Nat \ {0}, NEW n \in Int
    PROVE  /\ n \div d \in Int /\ n % d \in 0 .. d - 1
           /\ n = (n \div d) * d + (n % d)
           /\ n \in Nat => n \div d \in Nat
    OBVIOUS

\* Remainders may be taken before adding.
LEMMA RemainderAdds ==
    ASSUME NEW d \in Nat \ {0}, NEW a \in Int, NEW b \in Int
    PROVE  ((a % d) + b) % d = (a + b) % d
<1>1. PICK p \in Int : a = p * d + (a % d) /\ a % d \in Int
    <2>1. a % d \in 0 .. d - 1 /\ a \div d \in Int /\ a = (a \div d) * d + (a % d)
        BY Division
    <2>2. \A r \in 0 .. d - 1 : r \in Int
        OBVIOUS
    <2>3. QED
        BY <2>1, <2>2, Zenon
<1> DEFINE c == (a % d) + b
<1>2. c \in Int
    BY <1>1
<1>3. PICK q \in Int, r \in 0 .. d - 1 : c = q * d + r
    <2> HIDE DEF c
    <2>1. c % d \in 0 .. d - 1 /\ c \div d \in Int /\ c = (c \div d) * d + (c % d)
        BY <1>2, Division
    <2>2. QED
        BY <2>1, Zenon
<1>4. p + q \in Int /\ a + b = (p + q) * d + r
    <2> DEFINE m == a % d
    <2>1. m \in Int /\ a = p * d + m /\ m + b = q * d + r
        BY <1>1, <1>3
    <2> HIDE DEF m
    <2>2. QED
        BY <2>1
<1>5. (a + b) % d = r /\ c % d = r
    <2> HIDE DEF c
    <2>1. a + b \in Int
        OBVIOUS
    <2>2. (a + b) % d = r
        BY <1>4, <2>1, DivisionUnique, Zenon
    <2>3. c % d = r
        BY <1>2, <1>3, DivisionUnique, Zenon
    <2>4. QED
        BY <2>2, <2>3
<1>6. QED
    BY <1>5, Zenon

\* A walk passes only tasks that do not stop it, and stops at one that does
\* or at the tail (the loops of task_sleep and task_wakeup).
LEMMA StopAtStops ==
    ASSUME NEW S, NEW s \in Seq(S), NEW stop
    PROVE  /\ StopAt(s, stop) \in 1 .. Len(s) + 1
           /\ \A j \in 1 .. StopAt(s, stop) - 1 : s[j] \notin stop
           /\ StopAt(s, stop) <= Len(s) => s[StopAt(s, stop)] \in stop
<1> DEFINE hits == {i \in 1 .. Len(s) : s[i] \in stop}
<1>0. Len(s) \in Nat
    OBVIOUS
<1>1. CASE hits = {}
    BY <1>0, <1>1 DEF StopAt
<1>2. CASE hits # {}
    <2>0. hits \subseteq Nat
        BY <1>0
    <2>1. /\ Min(hits) \in hits
          /\ \A y \in hits : Min(hits) <= y
        BY <1>2, <2>0, MinOfNats
    <2>2. PICK m \in hits : m = StopAt(s, stop) /\ \A y \in hits : m <= y
        BY <1>2, <2>1 DEF StopAt
    <2>3. m \in 1 .. Len(s) /\ s[m] \in stop
        OBVIOUS
    <2>4. \A j \in 1 .. m - 1 : s[j] \notin stop
        BY <1>0, <2>2, <2>3
    <2>5. QED
        BY <1>0, <2>2, <2>3, <2>4
<1>3. QED
    BY <1>1, <1>2

\* list_insert_before and list_push: the list with one task more.
LEMMA InsertAtSlot ==
    ASSUME NEW S, NEW s \in Seq(S), NEW i \in 1 .. Len(s) + 1, NEW e \in S
    PROVE  /\ InsertAt(s, i, e) \in Seq(S)
           /\ Len(InsertAt(s, i, e)) = Len(s) + 1
           /\ \A j \in 1 .. Len(s) + 1 :
                InsertAt(s, i, e)[j] = IF j < i THEN s[j]
                                       ELSE IF j = i THEN e ELSE s[j - 1]
<1> DEFINE a == SubSeq(s, 1, i - 1)
           b == SubSeq(s, i, Len(s))
           ae == a \o <<e>>
<1>0. Len(s) \in Nat
    OBVIOUS
<1>1. /\ a \in Seq(S) /\ Len(a) = i - 1
      /\ \A j \in 1 .. i - 1 : a[j] = s[j]
    BY SubSeqProperties
<1>2. /\ b \in Seq(S) /\ Len(b) = Len(s) - i + 1
      /\ \A j \in 1 .. Len(s) - i + 1 : b[j] = s[i + j - 1]
    BY SubSeqProperties
<1>3. InsertAt(s, i, e) = ae \o b
    BY DEF InsertAt
<1> HIDE DEF a, b
<1>4. /\ ae \in Seq(S) /\ Len(ae) = i
      /\ \A j \in 1 .. i : ae[j] = IF j < i THEN a[j] ELSE e
    BY <1>1
<1> HIDE DEF ae
<1> DEFINE r == ae \o b
<1>5. /\ r \in Seq(S)
      /\ Len(r) = Len(s) + 1
      /\ \A j \in 1 .. Len(s) + 1 : r[j] = IF j <= i THEN ae[j] ELSE b[j - i]
    <2>1. Len(ae) = i /\ Len(ae) + Len(b) = Len(s) + 1
        BY <1>0, <1>2, <1>4
    <2>2. /\ ae \o b \in Seq(S)
          /\ Len(ae \o b) = Len(ae) + Len(b)
          /\ \A j \in 1 .. Len(ae) + Len(b) :
               (ae \o b)[j] = IF j <= Len(ae) THEN ae[j] ELSE b[j - Len(ae)]
        BY <1>2, <1>4, ConcatProperties, Zenon
    <2>3. QED
        BY <2>1, <2>2
<1> HIDE DEF r
<1>6. ASSUME NEW j \in 1 .. Len(s) + 1
      PROVE  r[j] = IF j < i THEN s[j]
                    ELSE IF j = i THEN e ELSE s[j - 1]
    <2>1. i \in Nat /\ j \in Nat
        BY <1>0
    <2>2. CASE j < i
        <3>1. j \in 1 .. i - 1 /\ j \in 1 .. i /\ j <= i
            BY <1>0, <2>1, <2>2
        <3>2. r[j] = ae[j]
            BY <1>5, <3>1
        <3>3. ae[j] = a[j] /\ a[j] = s[j]
            BY <1>1, <1>4, <2>2, <3>1
        <3>4. QED
            BY <2>2, <3>2, <3>3
    <2>3. CASE j = i
        <3>1. r[j] = ae[j] /\ ae[j] = e
            BY <1>4, <1>5, <2>1, <2>3
        <3>2. QED
            BY <2>1, <2>3, <3>1
    <2>4. CASE j > i
        <3>1. j - i \in 1 .. Len(s) - i + 1 /\ i + (j - i) - 1 = j - 1
            BY <1>0, <2>1, <2>4
        <3>2. b[j - i] = s[j - 1]
            BY <1>2, <3>1
        <3>3. r[j] = b[j - i]
            BY <1>5, <2>1, <2>4
        <3>4. QED
            BY <2>1, <2>4, <3>2, <3>3
    <2>5. QED
        BY <2>1, <2>2, <2>3, <2>4
<1>7. InsertAt(s, i, e) = r
    BY <1>3 DEF r
<1>8. QED
    BY <1>5, <1>6, <1>7

\* The same, of one task of the list.
LEMMA InsertAtElement ==
    ASSUME NEW S, NEW s \in Seq(S), NEW i \in 1 .. Len(s) + 1, NEW e \in S,
           NEW j \in 1 .. Len(s) + 1
    PROVE  InsertAt(s, i, e)[j] = IF j < i THEN s[j]
                                  ELSE IF j = i THEN e ELSE s[j - 1]
BY InsertAtSlot

\* Linking a task that is not on the list.
LEMMA InsertAtLinks ==
    ASSUME NEW S, NEW s \in Seq(S), NEW i \in 1 .. Len(s) + 1, NEW e \in S
    PROVE  /\ ToSet(InsertAt(s, i, e)) = ToSet(s) \cup {e}
           /\ IsInjective(s) /\ e \notin ToSet(s)
                => IsInjective(InsertAt(s, i, e))
<1> DEFINE r == InsertAt(s, i, e)
<1>1. /\ Len(s) \in Nat /\ DOMAIN s = 1 .. Len(s)
      /\ r \in Seq(S) /\ DOMAIN r = 1 .. Len(s) + 1
      /\ \A j \in 1 .. Len(s) + 1 :
            r[j] = IF j < i THEN s[j] ELSE IF j = i THEN e ELSE s[j - 1]
    BY InsertAtSlot
<1> HIDE DEF r
<1>2. ToSet(r) \subseteq ToSet(s) \cup {e}
    BY <1>1 DEF ToSet
<1>3. e \in ToSet(r)
    BY <1>1 DEF ToSet
<1>4. ASSUME NEW k \in 1 .. Len(s) PROVE s[k] \in ToSet(r)
    <2>1. CASE k < i
        BY <1>1, <2>1 DEF ToSet
    <2>2. CASE k >= i
        <3>1. k + 1 \in 1 .. Len(s) + 1 /\ r[k + 1] = s[k]
            BY <1>1, <2>2
        <3>2. QED
            BY <1>1, <3>1 DEF ToSet
    <2>3. QED
        BY <2>1, <2>2
<1>5. ToSet(r) = ToSet(s) \cup {e}
    BY <1>1, <1>2, <1>3, <1>4 DEF ToSet
<1>6. ASSUME IsInjective(s), e \notin ToSet(s) PROVE IsInjective(r)
    <2>1. SUFFICES ASSUME NEW j \in 1 .. Len(s) + 1, NEW k \in 1 .. Len(s) + 1,
                          r[j] = r[k], j < k
                   PROVE  FALSE
        BY <1>1 DEF IsInjective
    <2>2. \A m \in 1 .. Len(s) : s[m] # e
        BY <1>1, <1>6 DEF ToSet
    <2>3. \A m, n \in 1 .. Len(s) : m # n => s[m] # s[n]
        BY <1>1, <1>6 DEF IsInjective
    <2>4. CASE k < i
        <3>1. /\ j \in 1 .. Len(s) /\ k \in 1 .. Len(s) /\ j # k
              /\ r[j] = s[j] /\ r[k] = s[k]
            BY <1>1, <2>1, <2>4
        <3>2. QED
            BY <2>1, <2>3, <3>1
    <2>5. CASE k = i
        <3>1. j \in 1 .. Len(s) /\ r[j] = s[j] /\ r[k] = e
            BY <1>1, <2>1, <2>5
        <3>2. QED
            BY <2>1, <2>2, <3>1
    <2>6. CASE k > i
        <3>1. k - 1 \in 1 .. Len(s) /\ r[k] = s[k - 1]
            BY <1>1, <2>1, <2>6
        <3>2. CASE j < i
            <4>1. j \in 1 .. Len(s) /\ r[j] = s[j] /\ j # k - 1
                BY <1>1, <2>1, <2>6, <3>2
            <4>2. QED
                BY <2>1, <2>3, <3>1, <4>1
        <3>3. CASE j = i
            BY <1>1, <2>1, <2>2, <3>1, <3>3
        <3>4. CASE j > i
            <4>1. j - 1 \in 1 .. Len(s) /\ r[j] = s[j - 1] /\ j - 1 # k - 1
                BY <1>1, <2>1, <3>4
            <4>2. QED
                BY <2>1, <2>3, <3>1, <4>1
        <3>5. QED
            BY <3>2, <3>3, <3>4
    <2>7. QED
        BY <2>4, <2>5, <2>6
<1>7. QED
    BY <1>5, <1>6 DEF r

\* list_push: the list with one task more, at its head.
LEMMA PushLinks ==
    ASSUME NEW S, NEW s \in Seq(S), NEW e \in S
    PROVE  /\ <<e>> \o s \in Seq(S)
           /\ ToSet(<<e>> \o s) = ToSet(s) \cup {e}
           /\ IsInjective(s) /\ e \notin ToSet(s) => IsInjective(<<e>> \o s)
<1> DEFINE r == <<e>> \o s
<1>1. /\ Len(s) \in Nat /\ DOMAIN s = 1 .. Len(s)
      /\ r \in Seq(S) /\ DOMAIN r = 1 .. Len(s) + 1
      /\ r[1] = e
      /\ \A j \in 2 .. Len(s) + 1 : r[j] = s[j - 1]
    OBVIOUS
<1> HIDE DEF r
<1>2. \A j \in 1 .. Len(s) : j + 1 \in 2 .. Len(s) + 1 /\ r[j + 1] = s[j]
    BY <1>1
<1>3. \A x : x \in ToSet(r) <=> x = e \/ \E j \in 1 .. Len(s) : x = s[j]
    <2>1. \A x : x \in ToSet(r) <=> \E j \in 1 .. Len(s) + 1 : x = r[j]
        BY <1>1 DEF ToSet
    <2>2. \A j \in 1 .. Len(s) + 1 : j = 1 \/ j - 1 \in 1 .. Len(s)
        BY <1>1
    <2>3. \A j \in 1 .. Len(s) : j + 1 \in 1 .. Len(s) + 1
        BY <1>1
    <2>4. QED
        BY <1>1, <1>2, <2>1, <2>2, <2>3
<1>4. ToSet(r) = ToSet(s) \cup {e}
    <2>1. \A x : x \in ToSet(s) <=> \E j \in 1 .. Len(s) : x = s[j]
        BY <1>1 DEF ToSet
    <2>2. QED
        BY <1>3, <2>1
<1>5. ASSUME IsInjective(s), e \notin ToSet(s) PROVE IsInjective(r)
    <2>1. \A j \in 1 .. Len(s) : s[j] # e
        BY <1>1, <1>5 DEF ToSet
    <2>2. SUFFICES ASSUME NEW j \in 1 .. Len(s) + 1, NEW k \in 1 .. Len(s) + 1,
                          r[j] = r[k], j < k
                   PROVE  FALSE
        BY <1>1 DEF IsInjective
    <2>3. k - 1 \in 1 .. Len(s) /\ r[k] = s[k - 1]
        BY <1>1, <2>2
    <2>4. CASE j = 1
        BY <1>1, <2>1, <2>2, <2>3, <2>4
    <2>5. CASE j # 1
        <3>1. j - 1 \in 1 .. Len(s) /\ r[j] = s[j - 1] /\ j - 1 # k - 1
            BY <1>1, <2>2, <2>5
        <3>2. QED
            BY <1>1, <1>5, <2>2, <2>3, <3>1 DEF IsInjective
    <2>6. QED
        BY <2>4, <2>5
<1>6. QED
    BY <1>1, <1>4, <1>5 DEF r

\* The elements that are left when a sequence without repetitions loses some.
LEMMA ToSetSplit ==
    ASSUME NEW S, NEW s \in Seq(S), IsInjective(s),
           NEW I, NEW J, I \cup J = 1 .. Len(s), I \cap J = {}
    PROVE  {s[i] : i \in I} = ToSet(s) \ {s[i] : i \in J}
<1>1. DOMAIN s = 1 .. Len(s)
    OBVIOUS
<1>2. \A i, j \in 1 .. Len(s) : s[i] = s[j] => i = j
    BY <1>1 DEF IsInjective
<1>3. \A x : x \in ToSet(s) <=> \E i \in 1 .. Len(s) : x = s[i]
    BY <1>1 DEF ToSet
<1>4. ASSUME NEW i \in I PROVE s[i] \in ToSet(s) /\ s[i] \notin {s[j] : j \in J}
    BY <1>2, <1>3
<1>5. ASSUME NEW x \in ToSet(s), x \notin {s[j] : j \in J}
      PROVE  x \in {s[i] : i \in I}
    <2>1. PICK i \in 1 .. Len(s) : x = s[i]
        BY <1>3
    <2>2. QED
        BY <1>5, <2>1
<1>6. QED
    BY <1>4, <1>5

\* Unlinking a task moves those behind it one position to the front.
LEMMA UnlinkElements ==
    ASSUME NEW S, NEW s \in Seq(S), NEW t \in ToSet(s)
    PROVE  \E i \in 1 .. Len(s) :
               /\ s[i] = t
               /\ Unlink(s, t) \in Seq(S)
               /\ Len(Unlink(s, t)) = Len(s) - 1
               /\ \A j \in 1 .. Len(s) - 1 :
                    Unlink(s, t)[j] = IF j < i THEN s[j] ELSE s[j + 1]
<1> DEFINE i == StopAt(s, {t})
           a == SubSeq(s, 1, i - 1)
           b == SubSeq(s, i + 1, Len(s))
           r == Unlink(s, t)
<1>0. Len(s) \in Nat /\ DOMAIN s = 1 .. Len(s) /\ \A j \in 1 .. Len(s) : s[j] \in S
    OBVIOUS
<1>1. i \in 1 .. Len(s) /\ s[i] = t
    BY <1>0, StopAtStops DEF ToSet
<1>2. r = a \o b
    BY DEF Unlink
<1> HIDE DEF i, r
<1>3. /\ a \in Seq(S) /\ Len(a) = i - 1
      /\ \A j \in 1 .. i - 1 : a[j] = s[j]
    BY <1>0, <1>1, SubSeqProperties
<1>4. /\ b \in Seq(S) /\ Len(b) = Len(s) - i
      /\ \A j \in 1 .. Len(s) - i : b[j] = s[i + j]
    <2>1. \A j \in i + 1 .. Len(s) : s[j] \in S
        BY <1>0, <1>1
    <2>2. /\ b \in Seq(S)
          /\ Len(b) = IF i + 1 <= Len(s) THEN Len(s) - (i + 1) + 1 ELSE 0
          /\ \A j \in 1 .. Len(s) - (i + 1) + 1 : b[j] = s[(i + 1) + j - 1]
        BY <1>0, <1>1, <2>1, SubSeqProperties
    <2> HIDE DEF b
    <2>3. Len(b) = Len(s) - i
        <3>1. Len(b) = IF i + 1 <= Len(s) THEN Len(s) - (i + 1) + 1 ELSE 0
            BY <2>2
        <3>2. Len(s) \in Nat /\ i \in Nat /\ i <= Len(s)
            BY <1>0, <1>1
        <3>3. QED
            BY <3>1, <3>2
    <2>4. ASSUME NEW j \in 1 .. Len(s) - i PROVE b[j] = s[i + j]
        <3>1. j \in 1 .. Len(s) - (i + 1) + 1 /\ (i + 1) + j - 1 = i + j
            BY <1>0, <1>1
        <3>2. QED
            BY <2>2, <3>1
    <2>5. QED
        BY <2>2, <2>3, <2>4
<1> HIDE DEF a, b
<1>5. /\ r \in Seq(S)
      /\ Len(r) = Len(s) - 1
      /\ \A j \in 1 .. Len(s) - 1 : r[j] = IF j < i THEN a[j] ELSE b[j - (i - 1)]
    <2>1. Len(a) + Len(b) = Len(s) - 1
        BY <1>0, <1>1, <1>3, <1>4
    <2>2. \A j \in 1 .. Len(s) - 1 : j <= Len(a) <=> j < i
        BY <1>0, <1>1, <1>3
    <2>3. /\ a \o b \in Seq(S)
          /\ Len(a \o b) = Len(a) + Len(b)
          /\ \A j \in 1 .. Len(a) + Len(b) :
               (a \o b)[j] = IF j <= Len(a) THEN a[j] ELSE b[j - Len(a)]
        BY <1>3, <1>4, ConcatProperties, Zenon
    <2>4. QED
        BY <1>2, <1>3, <2>1, <2>2, <2>3
<1>6. ASSUME NEW j \in 1 .. Len(s) - 1
      PROVE  r[j] = IF j < i THEN s[j] ELSE s[j + 1]
    <2>1. CASE j < i
        <3>1. j \in 1 .. i - 1
            BY <1>0, <1>1, <2>1
        <3>2. QED
            BY <1>3, <1>5, <2>1, <3>1
    <2>2. CASE ~ (j < i)
        <3>1. j - (i - 1) \in 1 .. Len(s) - i /\ i + (j - (i - 1)) = j + 1
            BY <1>0, <1>1, <2>2
        <3>2. b[j - (i - 1)] = s[j + 1]
            BY <1>4, <3>1
        <3>3. QED
            BY <1>1, <1>5, <2>2, <3>2
    <2>3. QED
        BY <2>1, <2>2
<1>7. QED
    BY <1>1, <1>5, <1>6 DEF r

\* Unlinking a task that is on the list once.
LEMMA UnlinkRemoves ==
    ASSUME NEW S, NEW s \in Seq(S), NEW t \in ToSet(s), IsInjective(s)
    PROVE  /\ Unlink(s, t) \in Seq(S)
           /\ IsInjective(Unlink(s, t))
           /\ ToSet(Unlink(s, t)) = ToSet(s) \ {t}
<1> DEFINE r == Unlink(s, t)
<1>0. Len(s) \in Nat /\ DOMAIN s = 1 .. Len(s) /\ \A j \in 1 .. Len(s) : s[j] \in S
    OBVIOUS
<1> HIDE DEF r
<1>1. PICK i \in 1 .. Len(s) :
         /\ s[i] = t
         /\ r \in Seq(S)
         /\ Len(r) = Len(s) - 1
         /\ \A j \in 1 .. Len(s) - 1 : r[j] = IF j < i THEN s[j] ELSE s[j + 1]
    BY UnlinkElements DEF r
<1> DEFINE from(j) == IF j < i THEN j ELSE j + 1
<1>5. r \in Seq(S) /\ Len(r) = Len(s) - 1
    BY <1>1
<1>6. \A j \in 1 .. Len(s) - 1 : r[j] = s[from(j)]
    BY <1>1
<1>7. \A j \in 1 .. Len(s) - 1 : from(j) \in (1 .. Len(s)) \ {i}
    BY <1>0, <1>1
<1>8. ASSUME NEW k \in (1 .. Len(s)) \ {i}
      PROVE  \E j \in 1 .. Len(s) - 1 : from(j) = k
    <2>1. CASE k < i
        <3>1. k \in 1 .. Len(s) - 1 /\ from(k) = k
            BY <1>0, <1>1, <2>1
        <3>2. QED
            BY <3>1
    <2>2. CASE ~ (k < i)
        <3>1. k - 1 \in 1 .. Len(s) - 1 /\ from(k - 1) = k
            BY <1>0, <1>1, <2>2
        <3>2. QED
            BY <3>1
    <2>3. QED
        BY <2>1, <2>2
<1>9. \A j, k \in 1 .. Len(s) - 1 : from(j) = from(k) => j = k
    BY <1>0, <1>1
<1> HIDE DEF from
<1>10. DOMAIN r = 1 .. Len(s) - 1
    BY <1>5
<1>11. IsInjective(r)
    <2>1. SUFFICES ASSUME NEW j \in 1 .. Len(s) - 1, NEW k \in 1 .. Len(s) - 1,
                          r[j] = r[k]
                   PROVE  j = k
        BY <1>10 DEF IsInjective
    <2>2. s[from(j)] = s[from(k)]
        BY <1>6, <2>1
    <2>3. from(j) = from(k)
        BY <1>0, <1>7, <2>2 DEF IsInjective
    <2>4. QED
        BY <1>9, <2>3
<1>12. ToSet(r) = {s[k] : k \in (1 .. Len(s)) \ {i}}
    <2>1. \A x : x \in ToSet(r) <=> \E j \in 1 .. Len(s) - 1 : x = r[j]
        BY <1>10 DEF ToSet
    <2>2. ASSUME NEW j \in 1 .. Len(s) - 1
          PROVE  r[j] \in {s[k] : k \in (1 .. Len(s)) \ {i}}
        BY <1>6, <1>7
    <2>3. ASSUME NEW k \in (1 .. Len(s)) \ {i} PROVE s[k] \in ToSet(r)
        BY <1>6, <1>8, <2>1
    <2>4. QED
        BY <2>1, <2>2, <2>3
<1>13. {s[k] : k \in (1 .. Len(s)) \ {i}} = ToSet(s) \ {t}
    <2>1. ((1 .. Len(s)) \ {i}) \cup {i} = 1 .. Len(s)
        BY <1>1
    <2>2. ((1 .. Len(s)) \ {i}) \cap {i} = {}
        OBVIOUS
    <2>3. {s[k] : k \in (1 .. Len(s)) \ {i}} = ToSet(s) \ {s[k] : k \in {i}}
        BY <2>1, <2>2, ToSetSplit
    <2>4. QED
        BY <1>1, <2>3
<1>14. QED
    BY <1>5, <1>11, <1>12, <1>13 DEF r

\* What is left of a list when its first n tasks are unlinked.
LEMMA SuffixElements ==
    ASSUME NEW S, NEW s \in Seq(S), NEW n \in 0 .. Len(s)
    PROVE  /\ SubSeq(s, n + 1, Len(s)) \in Seq(S)
           /\ Len(SubSeq(s, n + 1, Len(s))) = Len(s) - n
           /\ \A j \in 1 .. Len(s) - n : SubSeq(s, n + 1, Len(s))[j] = s[n + j]
<1> DEFINE r == SubSeq(s, n + 1, Len(s))
<1>0. Len(s) \in Nat /\ n \in Nat /\ n <= Len(s) /\ DOMAIN s = 1 .. Len(s)
    OBVIOUS
<1>1. /\ r \in Seq(S)
      /\ Len(r) = IF n + 1 <= Len(s) THEN Len(s) - (n + 1) + 1 ELSE 0
      /\ \A j \in 1 .. Len(s) - (n + 1) + 1 : r[j] = s[(n + 1) + j - 1]
    <2>1. \A j \in n + 1 .. Len(s) : s[j] \in S
        <3>1. \A j \in 1 .. Len(s) : s[j] \in S
            OBVIOUS
        <3>2. QED
            BY <1>0, <3>1
    <2>2. QED
        BY <1>0, <2>1, SubSeqProperties
<1> HIDE DEF r
<1>2. Len(r) = Len(s) - n /\ DOMAIN r = 1 .. Len(s) - n
    <2>1. DOMAIN r = 1 .. Len(r)
        BY <1>1
    <2>2. Len(r) = Len(s) - n
        <3>1. Len(r) = IF n + 1 <= Len(s) THEN Len(s) - (n + 1) + 1 ELSE 0
            BY <1>1
        <3>2. CASE n = Len(s)
            BY <1>0, <3>1, <3>2
        <3>3. CASE n # Len(s)
            <4>0. \A l, m \in Nat : m <= l /\ m # l =>
                     m + 1 <= l /\ l - (m + 1) + 1 = l - m
                OBVIOUS
            <4>1. n + 1 <= Len(s) /\ Len(s) - (n + 1) + 1 = Len(s) - n
                BY <1>0, <3>3, <4>0
            <4>2. QED
                BY <3>1, <4>1
        <3>4. QED
            BY <3>2, <3>3
    <2>3. QED
        BY <2>1, <2>2
<1>3. ASSUME NEW j \in 1 .. Len(s) - n PROVE r[j] = s[n + j]
    <2>1. j \in 1 .. Len(s) - (n + 1) + 1 /\ (n + 1) + j - 1 = n + j
        BY <1>0
    <2>2. QED
        BY <1>1, <2>1
<1>4. QED
    BY <1>1, <1>2, <1>3 DEF r

\* It has each of them once, and is the list without the first n.
LEMMA SuffixRemains ==
    ASSUME NEW S, NEW s \in Seq(S), IsInjective(s), NEW n \in 0 .. Len(s)
    PROVE  /\ IsInjective(SubSeq(s, n + 1, Len(s)))
           /\ ToSet(SubSeq(s, n + 1, Len(s))) = ToSet(s) \ {s[i] : i \in 1 .. n}
<1> DEFINE r == SubSeq(s, n + 1, Len(s))
<1>0. Len(s) \in Nat /\ n \in Nat /\ n <= Len(s) /\ DOMAIN s = 1 .. Len(s)
    OBVIOUS
<1>1. /\ r \in Seq(S) /\ Len(r) = Len(s) - n
      /\ \A j \in 1 .. Len(s) - n : r[j] = s[n + j]
    BY SuffixElements
<1> HIDE DEF r
<1>2. DOMAIN r = 1 .. Len(s) - n
    BY <1>1
<1>3. ASSUME NEW j \in 1 .. Len(s) - n PROVE r[j] = s[n + j]
    BY <1>1
<1>4. IsInjective(r)
    <2>1. SUFFICES ASSUME NEW j \in 1 .. Len(s) - n, NEW k \in 1 .. Len(s) - n,
                          r[j] = r[k]
                   PROVE  j = k
        BY <1>2 DEF IsInjective
    <2>2. s[n + j] = s[n + k]
        BY <1>3, <2>1
    <2>3. n + j \in 1 .. Len(s) /\ n + k \in 1 .. Len(s)
        BY <1>0
    <2>4. n + j = n + k
        BY <1>0, <2>2, <2>3 DEF IsInjective
    <2>5. QED
        BY <1>0, <2>4
<1>5. ASSUME NEW k \in n + 1 .. Len(s)
      PROVE  \E j \in 1 .. Len(s) - n : s[k] = r[j]
    <2>1. k - n \in 1 .. Len(s) - n /\ n + (k - n) = k
        BY <1>0
    <2>2. r[k - n] = s[k]
        BY <1>3, <2>1
    <2>3. QED
        BY <2>1, <2>2
<1>6. \A j \in 1 .. Len(s) - n : n + j \in n + 1 .. Len(s)
    BY <1>0
<1>7. ToSet(r) = {s[k] : k \in n + 1 .. Len(s)}
    <2>1. \A x : x \in ToSet(r) <=> \E j \in 1 .. Len(s) - n : x = r[j]
        BY <1>2 DEF ToSet
    <2>2. ASSUME NEW j \in 1 .. Len(s) - n
          PROVE  r[j] \in {s[k] : k \in n + 1 .. Len(s)}
        BY <1>3, <1>6
    <2>3. ASSUME NEW k \in n + 1 .. Len(s) PROVE s[k] \in ToSet(r)
        BY <1>5, <2>1
    <2>4. ToSet(r) \subseteq {s[k] : k \in n + 1 .. Len(s)}
        BY <2>1, <2>2
    <2>5. {s[k] : k \in n + 1 .. Len(s)} \subseteq ToSet(r)
        BY <2>3
    <2>6. QED
        BY <2>4, <2>5
<1>8. {s[k] : k \in n + 1 .. Len(s)} = ToSet(s) \ {s[i] : i \in 1 .. n}
    <2>1. (n + 1 .. Len(s)) \cup (1 .. n) = 1 .. Len(s)
        BY <1>0
    <2>2. (n + 1 .. Len(s)) \cap (1 .. n) = {}
        BY <1>0
    <2>3. QED
        BY <2>1, <2>2, ToSetSplit
<1>9. QED
    BY <1>4, <1>7, <1>8 DEF r
=============================================================================
