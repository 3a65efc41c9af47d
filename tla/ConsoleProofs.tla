---------------------------- MODULE ConsoleProofs ----------------------------
(***************************************************************************)
(* Proofs about the console, for screens and video memories of every size: *)
(* its four variables agree, it stays inside of the video memory, and it   *)
(* implements a terminal; and about formatted output, for words of every   *)
(* size, and every format, width, precision and argument.                  *)
(***************************************************************************)
EXTENDS ConsoleRefinement, Lemmas

(***************************************************************************)
(* Sizes                                                                   *)
(***************************************************************************)

\* The sizes as numbers, without the products in them.
LEMMA Sizes ==
    /\ WIDTH \in Nat \ {0, 1} /\ HEIGHT \in Nat \ {0}
    /\ ROW_SIZE = 2 * WIDTH /\ ROW_SIZE \in Nat /\ ROW_SIZE >= 4
    /\ SCR_SIZE \in Nat /\ SCR_SIZE = HEIGHT * ROW_SIZE /\ SCR_SIZE >= ROW_SIZE
    /\ SCR_SIZE = 2 * (WIDTH * HEIGHT) /\ WIDTH * HEIGHT \in Nat
    /\ MEM_END \in Nat /\ SCR_SIZE + 2 * ROW_SIZE < MEM_END
<1>1. WIDTH \in Nat \ {0, 1} /\ HEIGHT \in Nat \ {0} /\ MEM_SIZE \in Nat
    BY ConsoleAssumption
<1>2. ROW_SIZE = 2 * WIDTH /\ ROW_SIZE \in Nat /\ ROW_SIZE >= 4
    BY <1>1 DEF ROW_SIZE
<1>3. SCR_SIZE = ROW_SIZE * HEIGHT
    BY DEF SCR_SIZE
<1>4. PICK k \in Nat : HEIGHT = k + 1
    <2>1. HEIGHT - 1 \in Nat /\ HEIGHT = (HEIGHT - 1) + 1
        BY <1>1
    <2>2. QED
        BY <2>1
<1>5. ROW_SIZE * (k + 1) = ROW_SIZE * k + ROW_SIZE /\ ROW_SIZE * k \in Nat
    BY <1>2, <1>4
<1>6. SCR_SIZE \in Nat /\ SCR_SIZE >= ROW_SIZE /\ SCR_SIZE = HEIGHT * ROW_SIZE
    <2>1. SCR_SIZE = ROW_SIZE * k + ROW_SIZE
        BY <1>3, <1>4, <1>5
    <2>2. HEIGHT * ROW_SIZE = ROW_SIZE * HEIGHT
        BY <1>1, <1>2
    <2>3. QED
        BY <1>2, <1>3, <1>5, <2>1, <2>2
<1>7. SCR_SIZE = 2 * (WIDTH * HEIGHT) /\ WIDTH * HEIGHT \in Nat
    BY <1>1, <1>2, <1>3
<1>8. MEM_END \in Nat /\ SCR_SIZE + 2 * ROW_SIZE < MEM_END
    BY ConsoleAssumption DEF MEM_END
<1>9. QED
    BY <1>1, <1>2, <1>6, <1>7, <1>8

\* A row of the screen, and the place of a column in it.
LEMMA RowInScreen ==
    ASSUME NEW y \in 0 .. HEIGHT - 1
    PROVE  /\ y * ROW_SIZE \in Nat /\ y * ROW_SIZE + ROW_SIZE <= SCR_SIZE
           /\ (y + 1) * ROW_SIZE = y * ROW_SIZE + ROW_SIZE
           /\ y = HEIGHT - 1 <=> y * ROW_SIZE + ROW_SIZE = SCR_SIZE
           /\ y + 1 < HEIGHT => y * ROW_SIZE + 2 * ROW_SIZE <= SCR_SIZE
<1> DEFINE R == ROW_SIZE
           H == HEIGHT
<1>1. R \in Nat /\ R >= 4 /\ H \in Nat \ {0} /\ SCR_SIZE = H * R /\ y \in 0 .. H - 1
    BY Sizes
<1> HIDE DEF R, H
<1>2. PICK k \in Nat : H = y + 1 + k
    <2>1. H - y - 1 \in Nat /\ H = y + 1 + (H - y - 1)
        BY <1>1
    <2>2. QED
        BY <2>1
<1>3. H * R = y * R + R + k * R /\ y * R \in Nat /\ k * R \in Nat /\ (y + 1) * R = y * R + R
    BY <1>1, <1>2
<1>4. k # 0 => k * R >= R
    <2> SUFFICES ASSUME k # 0 PROVE k * R >= R
        OBVIOUS
    <2>1. PICK j \in Nat : k = j + 1
        <3>1. k - 1 \in Nat /\ k = (k - 1) + 1
            BY <1>2
        <3>2. QED
            BY <3>1
    <2>2. k * R = j * R + R /\ j * R \in Nat
        BY <1>1, <2>1
    <2>3. QED
        BY <1>1, <2>2
<1>5. k = 0 => k * R = 0
    BY <1>1
<1> DEFINE yR == y * R
           kR == k * R
<1>6. /\ SCR_SIZE = yR + R + kR /\ yR \in Nat /\ kR \in Nat /\ (y + 1) * R = yR + R
      /\ (k # 0 => kR >= R) /\ (k = 0 => kR = 0)
    BY <1>1, <1>3, <1>4, <1>5
<1> HIDE DEF yR, kR
<1>7. y = H - 1 <=> k = 0
    BY <1>1, <1>2
<1>8. y + 1 < H <=> k # 0
    BY <1>1, <1>2
<1>9. /\ yR \in Nat /\ yR + R <= SCR_SIZE /\ (y + 1) * R = yR + R
      /\ y = H - 1 <=> yR + R = SCR_SIZE
      /\ y + 1 < H => yR + 2 * R <= SCR_SIZE
    <2>1. yR + R <= SCR_SIZE
        BY <1>1, <1>6
    <2>2. y = H - 1 <=> yR + R = SCR_SIZE
        BY <1>1, <1>6, <1>7
    <2>3. y + 1 < H => yR + 2 * R <= SCR_SIZE
        BY <1>1, <1>6, <1>8
    <2>4. QED
        BY <1>6, <2>1, <2>2, <2>3
<1>10. QED
    BY <1>9 DEF R, H, yR

(***************************************************************************)
(* The video memory                                                        *)
(***************************************************************************)

Content == -1 .. 255

\* The memory with bytes in the video memory, and nobody else's touched.
Video ==
    {m \in [AllMemory -> Content] :
        \A a \in AllMemory : (m[a] = Foreign) <=> a \notin 0 .. MEM_END - 1}

\* Addresses are those of the video memory.
LEMMA VideoAddresses ==
    ASSUME NEW a \in 0 .. MEM_END - 1
    PROVE  a \in AllMemory /\ a \in Int
    BY Sizes DEF AllMemory

\* An element of a sequence over a set is in the set.
LEMMA ElementOf ==
    ASSUME NEW S, NEW s \in Seq(S), NEW i \in 1 .. Len(s)
    PROVE  s[i] \in S
    OBVIOUS

\* Bytes stored inside of the video memory.
LEMMA StoreInside ==
    ASSUME NEW m \in Video, NEW address \in Nat, NEW bytes \in Seq(0 .. 255),
           address + Len(bytes) <= MEM_END
    PROVE  /\ Store(m, address, bytes) \in Video
           /\ \A a \in AllMemory :
                Store(m, address, bytes)[a] =
                    IF a - address \in 0 .. Len(bytes) - 1 THEN bytes[a - address + 1] ELSE m[a]
<1> DEFINE n == Len(bytes)
           s == Store(m, address, bytes)
<1>1. n \in Nat /\ MEM_END \in Nat /\ AllMemory \subseteq Int
    BY Sizes DEF AllMemory
<1>2. s = [a \in AllMemory |-> IF a - address \in 0 .. n - 1
                               THEN bytes[a - address + 1] ELSE m[a]]
    BY DEF Store
<1>3. ASSUME NEW a \in AllMemory, a - address \in 0 .. n - 1
      PROVE  bytes[a - address + 1] \in 0 .. 255 /\ a \in 0 .. MEM_END - 1
    <2> DEFINE k == a - address + 1
    <2>1. k \in 1 .. n
        BY <1>1, <1>3
    <2> HIDE DEF k
    <2>2. bytes[k] \in 0 .. 255
        BY <2>1, ElementOf, Zenon
    <2>3. bytes[a - address + 1] \in 0 .. 255
        BY <2>2 DEF k
    <2>4. QED
        BY <1>1, <1>3, <2>3
<1>4. m \in [AllMemory -> Content]
        /\ \A a \in AllMemory : (m[a] = Foreign) <=> a \notin 0 .. MEM_END - 1
    BY DEF Video
<1> HIDE DEF s, n
<1>5. ASSUME NEW a \in AllMemory
      PROVE  s[a] \in Content /\ ((s[a] = Foreign) <=> a \notin 0 .. MEM_END - 1)
    <2>1. CASE a - address \in 0 .. n - 1
        <3>1. s[a] \in 0 .. 255 /\ a \in 0 .. MEM_END - 1
            BY <1>2, <1>3, <2>1
        <3>2. \A v \in 0 .. 255 : v \in Content /\ v # Foreign
            BY DEF Content, Foreign
        <3>3. QED
            BY <3>1, <3>2, Zenon
    <2>2. CASE a - address \notin 0 .. n - 1
        BY <1>2, <1>4, <2>2
    <2>3. QED
        BY <2>1, <2>2
<1>6. s \in [AllMemory -> Content]
    BY <1>2, <1>5
<1>7. s \in Video
    BY <1>5, <1>6 DEF Video
<1>8. QED
    BY <1>2, <1>7 DEF s, n

\* A copy down to the start of the video memory, byte by byte.
LEMMA MemcpyDown ==
    ASSUME NEW m \in Video, NEW src \in Nat, NEW count \in Nat, src + count <= MEM_END
    PROVE  /\ Memcpy(m, 0, src, count) \in Video
           /\ \A a \in AllMemory :
                Memcpy(m, 0, src, count)[a] =
                    IF a \in 0 .. count - 1 THEN m[src + a] ELSE m[a]
<1> DEFINE S == [AllMemory -> Content]
           Step(s, n) == [s EXCEPT ![0 + n - 1] = s[src + n - 1]]
           Copies(f) == f = [n \in 0 .. count |-> IF n = 0 THEN m ELSE Step(f[n - 1], n)]
           copied == CHOOSE f : Copies(f)
<1>1. /\ m \in S /\ MEM_END \in Nat /\ AllMemory \subseteq Int
      /\ \A a \in AllMemory : (m[a] = Foreign) <=> a \notin 0 .. MEM_END - 1
    BY Sizes DEF Video, AllMemory
<1>2. Memcpy(m, 0, src, count) = copied[count]
    BY DEF Memcpy
<1>3. ASSUME NEW s \in S, NEW n \in 1 .. count
      PROVE  /\ n - 1 \in AllMemory /\ src + n - 1 \in AllMemory
             /\ Step(s, n) \in S
             /\ \A a \in AllMemory :
                  Step(s, n)[a] = IF a = n - 1 THEN s[src + n - 1] ELSE s[a]
    <2>1. n - 1 \in AllMemory /\ src + n - 1 \in AllMemory
        <3>1. n - 1 \in 0 .. MEM_END - 1 /\ src + n - 1 \in 0 .. MEM_END - 1
            BY <1>1
        <3>2. QED
            BY <3>1, VideoAddresses
    <2>2. s[src + n - 1] \in Content /\ 0 + n - 1 = n - 1
        BY <2>1
    <2>3. QED
        BY <2>1, <2>2
<1>4. \E f : Copies(f)
    <2> DEFINE g == [p \in S \X (1 .. count) |-> Step(p[1], p[2])]
    <2>1. \A s \in S, n \in 1 .. count : g[<<s, n>>] = Step(s, n)
        OBVIOUS
    <2> HIDE DEF g, S, Step
    <2>2. StepsIn(S, count, g)
        BY <1>3, <2>1 DEF StepsIn
    <2>3. HasRun(S, m, count, g)
        BY <1>1, <2>2, Recursion
    <2>4. PICK f \in [0 .. count -> S] :
              f[0] = m /\ \A n \in 1 .. count : f[n] = g[<<f[n - 1], n>>]
        BY <2>3 DEF HasRun
    <2>5. ASSUME NEW n \in 0 .. count
          PROVE  f[n] = IF n = 0 THEN m ELSE Step(f[n - 1], n)
        <3>1. CASE n = 0
            BY <2>4, <3>1
        <3>2. CASE n # 0
            <4>1. n \in 1 .. count /\ n - 1 \in 0 .. count
                BY <3>2
            <4>2. f[n] = g[<<f[n - 1], n>>] /\ f[n - 1] \in S
                BY <2>4, <4>1
            <4>3. QED
                BY <2>1, <3>2, <4>1, <4>2
        <3>3. QED
            BY <3>1, <3>2
    <2>6. f = [n \in 0 .. count |-> IF n = 0 THEN m ELSE Step(f[n - 1], n)]
        BY <2>4, <2>5
    <2>7. QED
        BY <2>6
<1>5. Copies(copied)
    <2> HIDE DEF Copies
    <2>1. QED
        BY <1>4
<1>6. \A n \in 0 .. count : copied[n] = IF n = 0 THEN m ELSE Step(copied[n - 1], n)
    BY <1>5
<1> HIDE DEF copied, Step, S
<1> DEFINE After(n) ==
               /\ copied[n] \in S
               /\ \A a \in AllMemory :
                    copied[n][a] = IF a \in 0 .. n - 1 THEN m[src + a] ELSE m[a]
           good == {n \in Nat : n <= count => After(n)}
<1>7. 0 \in good
    <2>1. copied[0] = m
        BY <1>6
    <2>2. QED
        BY <1>1, <2>1
<1>8. ASSUME NEW n \in Nat, n \in good PROVE n + 1 \in good
    <2> SUFFICES ASSUME n + 1 <= count PROVE After(n + 1)
        OBVIOUS
    <2>1. After(n)
        BY <1>8
    <2>2. n + 1 \in 1 .. count /\ n + 1 \in 0 .. count /\ (n + 1) - 1 = n
        BY <1>1
    <2>3. copied[n + 1] = Step(copied[n], n + 1)
        BY <1>6, <2>2
    <2>4. /\ copied[n + 1] \in S
          /\ src + n \in AllMemory
          /\ \A a \in AllMemory :
               copied[n + 1][a] = IF a = n THEN copied[n][src + n] ELSE copied[n][a]
        <3>1. src + (n + 1) - 1 = src + n
            BY <2>2
        <3> DEFINE k == n + 1
                   s == copied[n]
        <3>2. k \in 1 .. count /\ s \in S /\ k - 1 = n /\ src + k - 1 = src + n
            BY <2>1, <2>2, <3>1
        <3> HIDE DEF k, s
        <3>3. /\ src + k - 1 \in AllMemory /\ Step(s, k) \in S
              /\ \A a \in AllMemory :
                   Step(s, k)[a] = IF a = k - 1 THEN s[src + k - 1] ELSE s[a]
            BY <1>3, <3>2, Zenon
        <3>4. QED
            BY <2>3, <3>2, <3>3, Zenon DEF k, s
    <2>5. copied[n][src + n] = m[src + n]
        <3>1. src + n \notin 0 .. n - 1
            BY <2>2
        <3>2. QED
            BY <2>1, <2>4, <3>1
    <2>6. ASSUME NEW a \in AllMemory
          PROVE  copied[n + 1][a] = IF a \in 0 .. n + 1 - 1 THEN m[src + a] ELSE m[a]
        <3>1. a \in Int
            BY <1>1
        <3>2. CASE a = n
            BY <2>4, <2>5, <3>2
        <3>3. CASE a # n
            <4>1. a \in 0 .. n + 1 - 1 <=> a \in 0 .. n - 1
                BY <3>1, <3>3
            <4>2. QED
                BY <2>1, <2>4, <3>3, <4>1
        <3>4. QED
            BY <3>2, <3>3
    <2>7. QED
        BY <2>4, <2>6
<1>9. After(count)
    <2> HIDE DEF After
    <2>1. \A n \in Nat : n \in good
        <3> HIDE DEF good
        <3>1. QED
            BY <1>7, <1>8, SetInduction
    <2>2. QED
        BY <2>1
<1>10. copied[count] \in Video
    <2>1. ASSUME NEW a \in AllMemory
          PROVE  (copied[count][a] = Foreign) <=> a \notin 0 .. MEM_END - 1
        <3>1. CASE a \in 0 .. count - 1
            <4>1. src + a \in 0 .. MEM_END - 1 /\ a \in 0 .. MEM_END - 1
                BY <1>1, <3>1
            <4>2. src + a \in AllMemory
                BY <4>1, VideoAddresses
            <4>3. QED
                BY <1>1, <1>9, <3>1, <4>1, <4>2
        <3>2. CASE a \notin 0 .. count - 1
            BY <1>1, <1>9, <3>2
        <3>3. QED
            BY <3>1, <3>2
    <2>2. QED
        BY <1>9, <2>1 DEF Video, S
<1>11. QED
    BY <1>2, <1>9, <1>10

(***************************************************************************)
(* What the console shows                                                  *)
(***************************************************************************)

Registers == [high : 0 .. Byte - 1, low : 0 .. Byte - 1]

\* The variables agree, but for the registers of the cursor, which console_write
\* sets last; the screen starts at the first row or at the second.
Sane(c) ==
    /\ c \in [screen : {0, ROW_SIZE}, pos : Nat, x : 0 .. WIDTH - 1, y : 0 .. HEIGHT - 1,
              mem : Video, start : Registers, cursor : Registers]
    /\ c.pos = c.screen + c.y * ROW_SIZE + 2 * c.x
    /\ 2 * Position(c.start) = c.screen

\* The registers hold every even address of the video memory.
LEMMA PositionKept ==
    ASSUME NEW p \in Nat, 2 * p < MEM_END
    PROVE  /\ [high |-> High(2 * p), low |-> Low(2 * p)] \in Registers
           /\ Position([high |-> High(2 * p), low |-> Low(2 * p)]) = p
<1> DEFINE B == Byte
<1>1. B \in Nat \ {0} /\ p \in Int
    BY ConsoleAssumption
<1>2. p < B * B
    <2>1. MEM_SIZE \in Nat /\ MEM_SIZE % 2 = 0 /\ MEM_END = MEM_SIZE
        BY ConsoleAssumption DEF MEM_END
    <2>2. MEM_SIZE \div 2 <= B * B
        BY ConsoleAssumption
    <2>3. p < MEM_SIZE \div 2 /\ MEM_SIZE \div 2 \in Int
        BY <2>1
    <2>4. B * B \in Int
        BY <1>1
    <2>5. QED
        BY <2>2, <2>3, <2>4
<1> HIDE DEF B
<1> DEFINE q == p \div B
           r == p % B
<1>3. q \in Int /\ r \in 0 .. B - 1 /\ p = q * B + r /\ q \in Nat
    BY <1>1, Division
<1> HIDE DEF q, r
<1>4. q < B
    <2> SUFFICES ASSUME q >= B PROVE FALSE
        BY <1>1, <1>3
    <2>1. PICK k \in Nat : q = B + k
        <3>1. q - B \in Nat /\ q = B + (q - B)
            BY <1>1, <1>3
        <3>2. QED
            BY <3>1
    <2>2. q * B = B * B + k * B /\ k * B \in Nat /\ B * B \in Nat
        BY <1>1, <2>1
    <2>3. QED
        BY <1>1, <1>2, <1>3, <2>2
<1>5. High(2 * p) = q
    <2>1. 2 * p = q * (2 * B) + 2 * r
        BY <1>1, <1>3
    <2>2. 2 * r \in 0 .. 2 * B - 1 /\ 2 * B \in Nat \ {0} /\ 2 * p \in Int
        BY <1>1, <1>3
    <2>3. (2 * p) \div (2 * B) = q
        <3> DEFINE d == 2 * B
                   n == 2 * p
                   s == 2 * r
        <3>1. d \in Nat \ {0} /\ n \in Int /\ q \in Int /\ s \in 0 .. d - 1 /\ n = q * d + s
            BY <1>3, <2>1, <2>2
        <3> HIDE DEF d, n, s
        <3>2. n \div d = q
            BY <3>1, DivisionUnique
        <3>3. QED
            BY <3>2 DEF d, n
    <2>4. q % B = q
        <3>1. q \in 0 .. B - 1 /\ q = 0 * B + q /\ 0 \in Int
            BY <1>1, <1>3, <1>4
        <3>2. QED
            BY <1>1, <1>3, <3>1, DivisionUnique
    <2>5. QED
        BY <2>3, <2>4 DEF High, B
<1>6. Low(2 * p) = r
    <2>1. (2 * p) \div 2 = p
        BY <1>1
    <2>2. QED
        BY <2>1 DEF Low, B, r
<1> DEFINE g == [high |-> q, low |-> r]
<1>7. g \in Registers /\ Position(g) = p
    <2>1. q \in 0 .. B - 1 /\ r \in 0 .. B - 1
        BY <1>1, <1>3, <1>4
    <2>2. g.high = q /\ g.low = r
        OBVIOUS
    <2>3. Position(g) = p
        BY <1>3, <2>2 DEF Position, B
    <2>4. g \in Registers
        BY <2>1 DEF Registers, B
    <2>5. QED
        BY <2>3, <2>4
<1>8. QED
    BY <1>5, <1>6, <1>7

\* Where pos may be.
LEMMA PosInScreen ==
    ASSUME NEW c, Sane(c)
    PROVE  /\ c.screen \in Nat /\ c.screen + SCR_SIZE + ROW_SIZE < MEM_END
           /\ c.pos \in Nat /\ c.pos >= c.screen
           /\ c.pos + 2 <= c.screen + SCR_SIZE
           /\ c.pos = c.screen + c.y * ROW_SIZE + 2 * c.x
           /\ c.x \in 0 .. WIDTH - 1 /\ c.y \in 0 .. HEIGHT - 1 /\ c.mem \in Video
           /\ c.y * ROW_SIZE \in Nat
<1>1. /\ c.screen \in {0, ROW_SIZE} /\ c.x \in 0 .. WIDTH - 1 /\ c.y \in 0 .. HEIGHT - 1
      /\ c.pos \in Nat /\ c.mem \in Video
      /\ c.pos = c.screen + c.y * ROW_SIZE + 2 * c.x
    BY DEF Sane
<1>2. c.y * ROW_SIZE \in Nat /\ c.y * ROW_SIZE + ROW_SIZE <= SCR_SIZE
    BY <1>1, RowInScreen
<1>3. /\ ROW_SIZE = 2 * WIDTH /\ ROW_SIZE \in Nat /\ WIDTH \in Nat
      /\ SCR_SIZE \in Nat /\ MEM_END \in Nat /\ SCR_SIZE + 2 * ROW_SIZE < MEM_END
    BY Sizes
<1> DEFINE yR == c.y * ROW_SIZE
<1>4. yR \in Nat /\ yR + ROW_SIZE <= SCR_SIZE /\ c.pos = c.screen + yR + 2 * c.x
    BY <1>1, <1>2
<1> HIDE DEF yR
<1>5. c.screen \in Nat /\ c.screen <= ROW_SIZE
    BY <1>1, <1>3
<1>6. c.screen + SCR_SIZE + ROW_SIZE < MEM_END
    BY <1>3, <1>5
<1>7. c.pos >= c.screen /\ c.pos + 2 <= c.screen + SCR_SIZE
    BY <1>1, <1>3, <1>4, <1>5
<1>8. QED
    BY <1>1, <1>2, <1>5, <1>6, <1>7

(***************************************************************************)
(* The cells that are shown                                                *)
(***************************************************************************)

CellNo(c) == c.y * WIDTH + c.x
Places == 0 .. WIDTH * HEIGHT - 1

Cell(c, i) ==
    LET a == c.screen + 2 * i
    IN  IF c.mem[a + 1] = 0 \/ c.mem[a] = SPACE THEN Blank ELSE c.mem[a]

\* The cursor's column and row, and its address.
LEMMA PlaceOnScreen ==
    ASSUME NEW c, Sane(c)
    PROVE  /\ CellNo(c) \in Places /\ c.pos = c.screen + 2 * CellNo(c)
           /\ CellNo(c) % WIDTH = c.x /\ CellNo(c) \div WIDTH = c.y
           /\ c.y = HEIGHT - 1 <=> CellNo(c) >= WIDTH * HEIGHT - WIDTH
<1> DEFINE W == WIDTH
           N == WIDTH * HEIGHT
           yW == c.y * W
<1>1. c.x \in 0 .. W - 1 /\ c.y \in 0 .. HEIGHT - 1 /\ c.screen \in Nat
    BY PosInScreen
<1>2. W \in Nat \ {0, 1} /\ ROW_SIZE = 2 * W /\ SCR_SIZE = 2 * N /\ N \in Nat
    BY Sizes
<1>3. /\ c.y * ROW_SIZE + ROW_SIZE <= SCR_SIZE
      /\ c.y = HEIGHT - 1 <=> c.y * ROW_SIZE + ROW_SIZE = SCR_SIZE
      /\ c.y + 1 < HEIGHT => c.y * ROW_SIZE + 2 * ROW_SIZE <= SCR_SIZE
    BY <1>1, RowInScreen
<1>4. c.y * ROW_SIZE = 2 * yW /\ yW \in Nat
    <2>1. c.y \in Nat
        BY <1>1
    <2>2. QED
        BY <1>2, <2>1
<1>5. c.pos = c.screen + c.y * ROW_SIZE + 2 * c.x
    BY PosInScreen
<1>6. CellNo(c) = yW + c.x
    BY DEF CellNo
<1>7. HEIGHT \in Nat
    BY Sizes
<1> HIDE DEF yW, N
<1>8. c.pos = c.screen + 2 * CellNo(c) /\ CellNo(c) \in 0 .. N - 1
    BY <1>1, <1>2, <1>3, <1>4, <1>5, <1>6
<1>9. c.y = HEIGHT - 1 <=> CellNo(c) >= N - W
    BY <1>1, <1>2, <1>3, <1>4, <1>6, <1>7
<1>10. CellNo(c) % W = c.x /\ CellNo(c) \div W = c.y
    <2>1. CellNo(c) = c.y * W + c.x
        BY <1>6 DEF yW
    <2>2. CellNo(c) \in Int /\ c.y \in Int /\ W \in Nat \ {0}
        BY <1>1, <1>2, <1>8
    <2> DEFINE p == CellNo(c)
               y == c.y
               x == c.x
    <2>3. p = y * W + x /\ p \in Int /\ y \in Int /\ W \in Nat \ {0} /\ x \in 0 .. W - 1
        BY <1>1, <2>1, <2>2
    <2> HIDE DEF p, y, x, W
    <2>4. p % W = x /\ p \div W = y
        BY <2>3, DivisionUnique
    <2>5. QED
        BY <2>4 DEF p, y, x
<1>11. QED
    BY <1>8, <1>9, <1>10 DEF Places, N

\* A place's two bytes are on the screen.
LEMMA CellAddress ==
    ASSUME NEW c, Sane(c), NEW i \in Places
    PROVE  /\ i \in Nat /\ c.screen + 2 * i \in Nat
           /\ c.screen + 2 * i \in AllMemory /\ c.screen + 2 * i + 1 \in AllMemory
           /\ c.screen + 2 * i + 2 <= c.screen + SCR_SIZE
<1> DEFINE N == WIDTH * HEIGHT
<1>1. i \in 0 .. N - 1 /\ SCR_SIZE = 2 * N /\ N \in Nat /\ ROW_SIZE \in Nat /\ MEM_END \in Nat
    BY Sizes DEF Places
<1>2. c.screen \in Nat /\ c.screen + SCR_SIZE + ROW_SIZE < MEM_END
    BY PosInScreen
<1> HIDE DEF N
<1> DEFINE a == c.screen + 2 * i
<1>3. a \in 0 .. MEM_END - 1 /\ a + 1 \in 0 .. MEM_END - 1 /\ a + 2 <= c.screen + SCR_SIZE /\ i \in Nat
    BY <1>1, <1>2
<1> HIDE DEF a
<1>4. a \in AllMemory /\ a + 1 \in AllMemory
    BY <1>3, VideoAddresses
<1>5. QED
    BY <1>1, <1>3, <1>4 DEF a

(***************************************************************************)
(* The control characters, one by one                                      *)
(***************************************************************************)

\* A carriage return goes to the start of the row.
LEMMA ReturnMoves ==
    ASSUME NEW c, Sane(c)
    PROVE  /\ Sane(command_cr(c)) /\ command_cr(c).cursor = c.cursor
           /\ CellNo(command_cr(c)) = CellNo(c) - c.x
           /\ \A i \in Places : Cell(command_cr(c), i) = Cell(c, i)
<1> DEFINE d == command_cr(c)
           yR == c.y * ROW_SIZE
<1>1. d = [c EXCEPT !.pos = c.pos - 2 * c.x, !.x = 0]
    BY DEF command_cr
<1>2. /\ c \in [screen : {0, ROW_SIZE}, pos : Nat, x : 0 .. WIDTH - 1, y : 0 .. HEIGHT - 1,
                mem : Video, start : Registers, cursor : Registers]
      /\ 2 * Position(c.start) = c.screen
    BY DEF Sane
<1>3. /\ c.pos = c.screen + yR + 2 * c.x /\ yR \in Nat /\ c.screen \in Nat
      /\ c.x \in 0 .. WIDTH - 1 /\ WIDTH \in Nat \ {0, 1}
    BY PosInScreen, Sizes
<1> HIDE DEF yR
<1>4. c.pos - 2 * c.x \in Nat /\ c.pos - 2 * c.x = c.screen + yR + 2 * 0
    BY <1>3
<1>5. 0 \in 0 .. WIDTH - 1
    BY <1>3
<1>6. /\ d \in [screen : {0, ROW_SIZE}, pos : Nat, x : 0 .. WIDTH - 1, y : 0 .. HEIGHT - 1,
                mem : Video, start : Registers, cursor : Registers]
      /\ d.screen = c.screen /\ d.pos = c.pos - 2 * c.x /\ d.x = 0 /\ d.y = c.y
      /\ d.mem = c.mem /\ d.start = c.start /\ d.cursor = c.cursor
    BY <1>1, <1>2, <1>4, <1>5
<1> HIDE DEF d
<1>7. Sane(d)
    BY <1>2, <1>4, <1>6 DEF Sane, yR
<1>8. CellNo(d) = CellNo(c) - c.x
    <2> DEFINE yW == c.y * WIDTH
    <2>1. yW \in Int
        BY <1>2, Sizes
    <2>2. CellNo(d) = yW + 0 /\ CellNo(c) = yW + c.x
        BY <1>6 DEF CellNo
    <2> HIDE DEF yW
    <2>3. QED
        BY <1>3, <2>1, <2>2
<1>9. \A i \in Places : Cell(d, i) = Cell(c, i)
    BY <1>6 DEF Cell
<1>10. QED
    BY <1>6, <1>7, <1>8, <1>9 DEF d

\* A blank with its attribute is stored in a place.
LEMMA EraseBlanks ==
    ASSUME NEW c, Sane(c), NEW p \in Places, NEW d,
           d.screen = c.screen, d.mem = Store(c.mem, c.screen + 2 * p, erase)
    PROVE  /\ d.mem \in Video
           /\ \A i \in Places : Cell(d, i) = IF i = p THEN Blank ELSE Cell(c, i)
<1> DEFINE at == c.screen + 2 * p
<1>1. /\ at \in Nat /\ at + 2 <= c.screen + SCR_SIZE /\ p \in Nat
      /\ c.screen \in Nat /\ c.screen + SCR_SIZE + ROW_SIZE < MEM_END
      /\ c.mem \in Video /\ SCR_SIZE \in Nat /\ ROW_SIZE \in Nat /\ MEM_END \in Nat
    BY CellAddress, PosInScreen, Sizes
<1>2. erase \in Seq(0 .. 255) /\ Len(erase) = 2 /\ erase[1] = SPACE
    BY DEF erase, SPACE
<1> HIDE DEF at
<1>3. at + Len(erase) <= MEM_END
    BY <1>1, <1>2
<1>4. /\ d.mem \in Video
      /\ \A a \in AllMemory :
           d.mem[a] = IF a - at \in 0 .. 1 THEN erase[a - at + 1] ELSE c.mem[a]
    <2>1. /\ Store(c.mem, at, erase) \in Video
          /\ \A a \in AllMemory :
               Store(c.mem, at, erase)[a] =
                   IF a - at \in 0 .. Len(erase) - 1 THEN erase[a - at + 1] ELSE c.mem[a]
        BY <1>1, <1>2, <1>3, StoreInside, ZenonT(40)
    <2>2. 0 .. Len(erase) - 1 = 0 .. 1 /\ d.mem = Store(c.mem, at, erase)
        BY <1>2 DEF at
    <2>3. QED
        BY <2>1, <2>2
<1>5. ASSUME NEW i \in Places PROVE Cell(d, i) = IF i = p THEN Blank ELSE Cell(c, i)
    <2> DEFINE a == c.screen + 2 * i
    <2>1. a \in Nat /\ a \in AllMemory /\ a + 1 \in AllMemory /\ i \in Nat
        BY CellAddress
    <2>2. Cell(d, i) = IF d.mem[a + 1] = 0 \/ d.mem[a] = SPACE THEN Blank ELSE d.mem[a]
        BY DEF Cell
    <2>3. Cell(c, i) = IF c.mem[a + 1] = 0 \/ c.mem[a] = SPACE THEN Blank ELSE c.mem[a]
        BY DEF Cell
    <2>4. (i = p => a = at) /\ (i # p => (a + 1 < at \/ a > at + 1))
        BY <1>1, <2>1 DEF at
    <2> HIDE DEF a
    <2>5. CASE i = p
        <3>1. a - at \in 0 .. 1 /\ a - at + 1 = 1
            BY <1>1, <2>1, <2>4, <2>5
        <3>2. d.mem[a] = SPACE
            BY <1>2, <1>4, <2>1, <3>1
        <3>3. QED
            BY <2>2, <2>5, <3>2
    <2>6. CASE i # p
        <3>1. a - at \notin 0 .. 1 /\ (a + 1) - at \notin 0 .. 1
            BY <1>1, <2>1, <2>4, <2>6
        <3>2. d.mem[a] = c.mem[a]
            BY <1>4, <2>1, <3>1
        <3>3. d.mem[a + 1] = c.mem[a + 1]
            <4> DEFINE b == a + 1
            <4>1. b \in AllMemory /\ b - at \notin 0 .. 1
                BY <2>1, <3>1
            <4> HIDE DEF b
            <4>2. d.mem[b] = c.mem[b]
                BY <1>4, <4>1
            <4>3. QED
                BY <4>2 DEF b
        <3>4. QED
            BY <2>2, <2>3, <2>6, <3>2, <3>3
    <2>7. QED
        BY <2>5, <2>6
<1>6. QED
    BY <1>4, <1>5

\* DEL blanks the place of the cursor.
LEMMA DeleteErases ==
    ASSUME NEW c, Sane(c)
    PROVE  /\ Sane(command_del(c)) /\ command_del(c).cursor = c.cursor
           /\ CellNo(command_del(c)) = CellNo(c)
           /\ \A i \in Places :
                Cell(command_del(c), i) = IF i = CellNo(c) THEN Blank ELSE Cell(c, i)
<1> DEFINE d == command_del(c)
           p == CellNo(c)
<1>1. d = [c EXCEPT !.mem = Store(c.mem, c.pos, erase)]
    BY DEF command_del
<1>2. /\ c \in [screen : {0, ROW_SIZE}, pos : Nat, x : 0 .. WIDTH - 1, y : 0 .. HEIGHT - 1,
                mem : Video, start : Registers, cursor : Registers]
      /\ c.pos = c.screen + c.y * ROW_SIZE + 2 * c.x
      /\ 2 * Position(c.start) = c.screen
    BY DEF Sane
<1>3. p \in Places /\ c.pos = c.screen + 2 * p
    BY PlaceOnScreen
<1>4. d.screen = c.screen /\ d.mem = Store(c.mem, c.screen + 2 * p, erase)
    BY <1>1, <1>2, <1>3
<1> HIDE DEF p, d
<1>5. /\ d.mem \in Video
      /\ \A i \in Places : Cell(d, i) = IF i = p THEN Blank ELSE Cell(c, i)
    BY <1>3, <1>4, EraseBlanks
<1>6. /\ d \in [screen : {0, ROW_SIZE}, pos : Nat, x : 0 .. WIDTH - 1, y : 0 .. HEIGHT - 1,
                mem : Video, start : Registers, cursor : Registers]
      /\ d.screen = c.screen /\ d.pos = c.pos /\ d.x = c.x /\ d.y = c.y
      /\ d.start = c.start /\ d.cursor = c.cursor
    BY <1>1, <1>2, <1>5
<1>7. Sane(d)
    BY <1>2, <1>6 DEF Sane
<1>8. CellNo(d) = p
    BY <1>6 DEF CellNo, p
<1>9. QED
    BY <1>5, <1>6, <1>7, <1>8 DEF d, p

\* BS goes back by one place in the row, and blanks it.
LEMMA BackspaceErases ==
    ASSUME NEW c, Sane(c), c.x # 0
    PROVE  /\ Sane(command_bs(c)) /\ command_bs(c).cursor = c.cursor
           /\ CellNo(command_bs(c)) = CellNo(c) - 1 /\ CellNo(c) - 1 \in Places
           /\ \A i \in Places :
                Cell(command_bs(c), i) = IF i = CellNo(c) - 1 THEN Blank ELSE Cell(c, i)
<1> DEFINE d == command_bs(c)
           p == CellNo(c) - 1
           yR == c.y * ROW_SIZE
           yW == c.y * WIDTH
<1>1. d = [c EXCEPT !.x = c.x - 1, !.pos = c.pos - 2, !.mem = Store(c.mem, c.pos - 2, erase)]
    BY DEF command_bs
<1>2. /\ c \in [screen : {0, ROW_SIZE}, pos : Nat, x : 0 .. WIDTH - 1, y : 0 .. HEIGHT - 1,
                mem : Video, start : Registers, cursor : Registers]
      /\ c.pos = c.screen + yR + 2 * c.x
      /\ 2 * Position(c.start) = c.screen
    BY DEF Sane
<1>3. /\ CellNo(c) \in 0 .. WIDTH * HEIGHT - 1 /\ c.pos = c.screen + 2 * CellNo(c)
      /\ CellNo(c) = yW + c.x /\ WIDTH * HEIGHT \in Nat /\ WIDTH \in Nat
    BY PlaceOnScreen, Sizes DEF Places, CellNo
<1>4. yW \in Nat /\ yR \in Nat /\ c.screen \in Nat
    <2>1. c.y \in Nat /\ c.screen \in Nat /\ yR \in Nat
        BY PosInScreen
    <2>2. QED
        BY <1>3, <2>1
<1> HIDE DEF yW, yR
<1>5. c.x - 1 \in 0 .. WIDTH - 1 /\ c.pos - 2 \in Nat /\ c.pos - 2 = c.screen + yR + 2 * (c.x - 1)
    BY <1>2, <1>3, <1>4
<1>6. p \in Places /\ c.pos - 2 = c.screen + 2 * p /\ p = yW + (c.x - 1)
    <2> DEFINE N == WIDTH * HEIGHT
    <2> HIDE DEF N
    <2>1. CellNo(c) \in 0 .. N - 1 /\ c.pos = c.screen + 2 * CellNo(c) /\ CellNo(c) = yW + c.x /\ N \in Nat
        BY <1>3 DEF N
    <2>2. p \in 0 .. N - 1 /\ c.pos - 2 = c.screen + 2 * p /\ p = yW + (c.x - 1)
        BY <1>2, <1>4, <1>5, <2>1
    <2>3. QED
        BY <2>2 DEF N, Places
<1>7. d.screen = c.screen /\ d.mem = Store(c.mem, c.screen + 2 * p, erase)
    BY <1>1, <1>2, <1>6
<1> HIDE DEF p, d
<1>8. /\ d.mem \in Video
      /\ \A i \in Places : Cell(d, i) = IF i = p THEN Blank ELSE Cell(c, i)
    BY <1>6, <1>7, EraseBlanks
<1>9. /\ d \in [screen : {0, ROW_SIZE}, pos : Nat, x : 0 .. WIDTH - 1, y : 0 .. HEIGHT - 1,
                mem : Video, start : Registers, cursor : Registers]
      /\ d.screen = c.screen /\ d.pos = c.pos - 2 /\ d.x = c.x - 1 /\ d.y = c.y
      /\ d.start = c.start /\ d.cursor = c.cursor
    BY <1>1, <1>2, <1>5, <1>8
<1>10. Sane(d)
    BY <1>2, <1>5, <1>9 DEF Sane, yR
<1>11. CellNo(d) = p
    BY <1>6, <1>9 DEF CellNo, yW
<1>12. QED
    BY <1>6, <1>8, <1>9, <1>10, <1>11 DEF d, p

(***************************************************************************)
(* Scrolling                                                               *)
(***************************************************************************)

\* The rows go up by one, and the last one is blank.
RowsUp(c, d) ==
    \A i \in Places : Cell(d, i) = IF i < WIDTH * HEIGHT - WIDTH THEN Cell(c, i + WIDTH) ELSE Blank

\* The two rows of blanks, of which every other one has no attribute.
Erased == [i \in 1 .. 4 * WIDTH |-> (erase \o <<0, 0>>)[((i - 1) % 4) + 1]]

\* What scroll_up stores below the screen: blanks, as words of 32 bits.
LEMMA BlankRows ==
    /\ Erased \in Seq(0 .. 255) /\ Len(Erased) = 2 * ROW_SIZE
    /\ \A i \in 1 .. 4 * WIDTH :
         /\ (i - 1) % 4 = 0 => Erased[i] = SPACE
         /\ (i - 1) % 4 \in {2, 3} => Erased[i] = 0
<1> DEFINE w == erase \o <<0, 0>>
<1>1. w[1] = 32 /\ w[2] = 7 /\ w[3] = 0 /\ w[4] = 0
    <2>1. erase \in Seq(Nat) /\ <<0, 0>> \in Seq(Nat) /\ Len(erase) = 2 /\ Len(<<0, 0>>) = 2
          /\ erase[1] = 32 /\ erase[2] = 7
        BY DEF erase
    <2>2. \A i \in 1 .. 4 : w[i] = IF i <= 2 THEN erase[i] ELSE <<0, 0>>[i - 2]
        <3> DEFINE z == <<0, 0>>
        <3>1. erase \in Seq(Nat) /\ z \in Seq(Nat) /\ Len(erase) = 2 /\ Len(z) = 2
            BY <2>1
        <3> HIDE DEF z
        <3>2. \A i \in 1 .. Len(erase) + Len(z) :
                  w[i] = IF i <= Len(erase) THEN erase[i] ELSE z[i - Len(erase)]
            BY <3>1, ConcatProperties, Zenon DEF z
        <3> HIDE DEF w
        <3>3. \A i \in 1 .. 4 : w[i] = IF i <= 2 THEN erase[i] ELSE z[i - 2]
            BY <3>1, <3>2
        <3>4. QED
            BY <3>3 DEF z
    <2> HIDE DEF w
    <2>3. w[1] = erase[1] /\ w[2] = erase[2]
        BY <2>2
    <2>4. w[3] = <<0, 0>>[1] /\ w[4] = <<0, 0>>[2]
        BY <2>2
    <2>5. QED
        BY <2>1, <2>3, <2>4
<1>2. WIDTH \in Nat /\ ROW_SIZE = 2 * WIDTH
    BY Sizes
<1> HIDE DEF w
<1>3. Erased = [i \in 1 .. 4 * WIDTH |-> w[((i - 1) % 4) + 1]]
    BY DEF Erased, w
<1>4. ASSUME NEW i \in 1 .. 4 * WIDTH
      PROVE  /\ Erased[i] \in 0 .. 255
             /\ (i - 1) % 4 = 0 => Erased[i] = SPACE
             /\ (i - 1) % 4 \in {2, 3} => Erased[i] = 0
    <2> DEFINE k == (i - 1) % 4
    <2>1. k \in 0 .. 3
        BY <1>2
    <2>2. Erased[i] = w[k + 1]
        BY <1>3
    <2> HIDE DEF k
    <2>3. \/ k = 0 /\ k + 1 = 1
          \/ k = 1 /\ k + 1 = 2
          \/ k = 2 /\ k + 1 = 3
          \/ k = 3 /\ k + 1 = 4
        BY <2>1
    <2>4. \/ k = 0 /\ Erased[i] = 32
          \/ k = 1 /\ Erased[i] = 7
          \/ k \in {2, 3} /\ Erased[i] = 0
        BY <1>1, <2>2, <2>3
    <2>5. QED
        BY <2>4 DEF k, SPACE
<1>5. 4 * WIDTH \in Nat /\ 4 * WIDTH = 2 * ROW_SIZE
    BY <1>2
<1>6. Erased \in [1 .. 4 * WIDTH -> 0 .. 255]
    BY <1>3, <1>4
<1>7. Erased \in Seq(0 .. 255) /\ Len(Erased) = 4 * WIDTH
    <2> DEFINE n == 4 * WIDTH
    <2>1. n \in Nat /\ Erased \in [1 .. n -> 0 .. 255]
        BY <1>5, <1>6
    <2> HIDE DEF n
    <2>2. Erased \in Seq(0 .. 255) /\ Len(Erased) = n
        BY <2>1
    <2>3. QED
        BY <2>2 DEF n
<1>8. QED
    BY <1>4, <1>5, <1>7

\* scroll_up shows every row one higher, in the same memory or copied down.
LEMMA ScrollsUp ==
    ASSUME NEW c, Sane(c)
    PROVE  /\ Sane(scroll_up(c)) /\ scroll_up(c).cursor = c.cursor
           /\ CellNo(scroll_up(c)) = CellNo(c)
           /\ RowsUp(c, scroll_up(c))
<1> DEFINE m == Memcpy(c.mem, 0, c.screen, SCR_SIZE)
           blank == Erased
           t == Store(m, SCR_SIZE, blank)
           d == scroll_up(c)
           R == ROW_SIZE
           S == SCR_SIZE
           yR == c.y * ROW_SIZE
           regs == [high |-> High(R), low |-> Low(R)]
<1>1. /\ c \in [screen : {0, ROW_SIZE}, pos : Nat, x : 0 .. WIDTH - 1, y : 0 .. HEIGHT - 1,
                mem : Video, start : Registers, cursor : Registers]
      /\ c.pos = c.screen + yR + 2 * c.x
    BY DEF Sane
<1>2. /\ c.screen \in Nat /\ c.screen + S + R < MEM_END /\ c.pos >= c.screen /\ yR \in Nat
      /\ R \in Nat /\ R = 2 * WIDTH /\ S \in Nat /\ MEM_END \in Nat /\ WIDTH \in Nat \ {0, 1}
      /\ S + 2 * R < MEM_END /\ S >= R
    BY PosInScreen, Sizes
<1>3. d = [c EXCEPT !.mem = t, !.screen = R, !.pos = c.pos - c.screen + R, !.start = regs]
    <2>1. CopiedBack(c) = [c EXCEPT !.mem = m, !.pos = c.pos - c.screen, !.screen = 0]
        BY <1>2 DEF CopiedBack
    <2> DEFINE b == CopiedBack(c)
               e == [b EXCEPT !.mem = Store(b.mem, b.screen + S, blank),
                              !.screen = b.screen + R, !.pos = b.pos + R]
    <2>2. d = set_screen(e)
        BY DEF scroll_up, Erased
    <2> HIDE DEF m, blank, R, S, d, yR
    <2>3. b.mem = m /\ b.screen = 0 /\ b.pos = c.pos - c.screen /\ 0 + S = S /\ 0 + R = R
        BY <1>1, <1>2, <2>1
    <2>4. e = [c EXCEPT !.mem = t, !.screen = R, !.pos = c.pos - c.screen + R]
        <3>1. Store(b.mem, b.screen + S, blank) = t
            BY <2>3 DEF S
        <3>2. e = [b EXCEPT !.mem = t, !.screen = R, !.pos = c.pos - c.screen + R]
            BY <2>3, <3>1
        <3> HIDE DEF b, t
        <3>3. b = [c EXCEPT !.mem = m, !.pos = c.pos - c.screen, !.screen = 0]
            BY <2>1 DEF b
        <3>4. QED
            BY <1>1, <3>2, <3>3
    <2>5. e.screen = R
        BY <1>1, <2>4
    <2>6. d = [e EXCEPT !.start = regs]
        BY <2>2, <2>5 DEF set_screen
    <2>7. QED
        BY <1>1, <2>4, <2>6
<1>4. blank \in Seq(0 .. 255) /\ Len(blank) = 2 * R
      /\ \A i \in 1 .. 4 * WIDTH :
           /\ (i - 1) % 4 = 0 => blank[i] = SPACE
           /\ (i - 1) % 4 \in {2, 3} => blank[i] = 0
    BY BlankRows
<1> HIDE DEF blank, regs
<1>5. /\ m \in Video
      /\ \A a \in AllMemory : m[a] = IF a \in 0 .. S - 1 THEN c.mem[c.screen + a] ELSE c.mem[a]
    <2>1. c.mem \in Video /\ c.screen \in Nat /\ S \in Nat /\ c.screen + S <= MEM_END
        BY <1>1, <1>2
    <2>2. QED
        BY <2>1, MemcpyDown, Zenon
<1> HIDE DEF m
<1>6. /\ t \in Video
      /\ \A a \in AllMemory : t[a] = IF a - S \in 0 .. 2 * R - 1 THEN blank[a - S + 1] ELSE m[a]
    <2>1. m \in Video /\ S \in Nat /\ blank \in Seq(0 .. 255) /\ S + Len(blank) <= MEM_END
        BY <1>2, <1>4, <1>5
    <2>2. /\ t \in Video
          /\ \A a \in AllMemory :
               t[a] = IF a - S \in 0 .. Len(blank) - 1 THEN blank[a - S + 1] ELSE m[a]
        BY <2>1, StoreInside, Zenon
    <2>3. QED
        BY <1>4, <2>2
<1> HIDE DEF t, d
<1>7. regs \in Registers /\ Position(regs) = WIDTH
    <2>1. WIDTH \in Nat /\ 2 * WIDTH < MEM_END /\ 2 * WIDTH = R
        BY <1>2
    <2>2. QED
        BY <2>1, PositionKept DEF regs
<1> HIDE DEF R, S, yR
<1>8. c.pos - c.screen + R \in Nat /\ c.pos - c.screen + R = R + yR + 2 * c.x
    BY <1>1, <1>2
<1>9. /\ d \in [screen : {0, ROW_SIZE}, pos : Nat, x : 0 .. WIDTH - 1, y : 0 .. HEIGHT - 1,
                mem : Video, start : Registers, cursor : Registers]
      /\ d.screen = R /\ d.pos = c.pos - c.screen + R /\ d.x = c.x /\ d.y = c.y /\ d.mem = t
      /\ d.start = regs /\ d.cursor = c.cursor
    BY <1>1, <1>3, <1>6, <1>7, <1>8 DEF R
<1>10. Sane(d)
    <2>1. d.pos = d.screen + d.y * ROW_SIZE + 2 * d.x
        BY <1>8, <1>9 DEF yR
    <2>2. 2 * Position(d.start) = d.screen
        BY <1>2, <1>7, <1>9
    <2>3. QED
        BY <1>9, <2>1, <2>2 DEF Sane
<1>11. CellNo(d) = CellNo(c)
    BY <1>9 DEF CellNo
<1> DEFINE N == WIDTH * HEIGHT
<1>12. S = 2 * N /\ N \in Nat /\ Places = 0 .. N - 1 /\ R \in Nat /\ R = 2 * WIDTH /\ N >= WIDTH
    BY <1>2, Sizes DEF Places, S, R
<1> HIDE DEF N
<1>13. ASSUME NEW i \in Places
       PROVE  Cell(d, i) = IF i < N - WIDTH THEN Cell(c, i + WIDTH) ELSE Blank
    <2> DEFINE a == R + 2 * i
    <2>1. i \in Nat /\ i < N /\ a \in Nat /\ a + 1 < S + R /\ R \in Nat /\ S \in Nat
        BY <1>12
    <2>2. a \in AllMemory /\ a + 1 \in AllMemory
        BY <1>9, <1>10, CellAddress
    <2>3. Cell(d, i) = IF t[a + 1] = 0 \/ t[a] = SPACE THEN Blank ELSE t[a]
        BY <1>9 DEF Cell
    <2>4. CASE i < N - WIDTH
        <3> DEFINE j == i + WIDTH
                   b == c.screen + 2 * j
        <3>1. a = 2 * j /\ a + 1 < S /\ j \in Nat /\ c.screen + a = b /\ c.screen + (a + 1) = b + 1
            BY <1>2, <1>12, <2>1, <2>4
        <3>2. Cell(c, j) = IF c.mem[b + 1] = 0 \/ c.mem[b] = SPACE THEN Blank ELSE c.mem[b]
            BY DEF Cell
        <3> HIDE DEF a, b, j
        <3>3. a - S \notin 0 .. 2 * R - 1 /\ (a + 1) - S \notin 0 .. 2 * R - 1
              /\ a \in 0 .. S - 1 /\ a + 1 \in 0 .. S - 1
            BY <2>1, <3>1
        <3>4. t[a] = c.mem[b]
            BY <1>5, <1>6, <2>2, <3>1, <3>3
        <3>5. t[a + 1] = c.mem[b + 1]
            <4> DEFINE a1 == a + 1
            <4>0. a1 \in AllMemory /\ a1 - S \notin 0 .. 2 * R - 1
                BY <2>2, <3>3
            <4> HIDE DEF a1
            <4>1. t[a1] = m[a1]
                BY <1>6, <4>0
            <4>2. m[a + 1] = c.mem[c.screen + (a + 1)]
                BY <1>5, <2>2, <3>3
            <4>3. QED
                BY <3>1, <4>1, <4>2 DEF a1
        <3>6. QED
            BY <2>3, <2>4, <3>2, <3>4, <3>5 DEF j
    <2>5. CASE ~(i < N - WIDTH)
        <3>1. PICK k \in Nat : i = N - WIDTH + k
            <4>1. i - (N - WIDTH) \in Nat /\ i = N - WIDTH + (i - (N - WIDTH))
                BY <1>2, <1>12, <2>1, <2>5
            <4>2. QED
                BY <4>1
        <3>2. a - S = 2 * k /\ (a + 1) - S = 2 * k + 1 /\ 2 * k + 2 <= R
            BY <1>2, <1>12, <2>1, <3>1
        <3> HIDE DEF a
        <3>3. a - S \in 0 .. 2 * R - 1 /\ (a + 1) - S \in 0 .. 2 * R - 1
            BY <1>12, <3>2
        <3>4. t[a] = blank[2 * k + 1]
            BY <1>6, <2>2, <3>2, <3>3
        <3>5. t[a + 1] = blank[2 * k + 2]
            <4> DEFINE a1 == a + 1
            <4>0. a1 \in AllMemory /\ a1 - S \in 0 .. 2 * R - 1
                BY <2>2, <3>3
            <4>1. a1 - S + 1 = 2 * k + 2
                BY <3>2, <3>1
            <4> HIDE DEF a1
            <4>2. t[a1] = blank[a1 - S + 1]
                BY <1>6, <4>0
            <4>3. QED
                BY <4>1, <4>2 DEF a1
        <3>6. 2 * k + 1 \in 1 .. 4 * WIDTH /\ 2 * k + 2 \in 1 .. 4 * WIDTH
            BY <1>2, <1>12, <3>2
        <3>7. \/ (2 * k + 1 - 1) % 4 = 0
              \/ (2 * k + 2 - 1) % 4 \in {2, 3}
            BY <3>1
        <3>8. blank[2 * k + 1] = SPACE \/ blank[2 * k + 2] = 0
            BY <1>4, <3>6, <3>7
        <3>9. QED
            BY <2>3, <2>5, <3>4, <3>5, <3>8
    <2>6. QED
        BY <2>4, <2>5
<1>14. RowsUp(c, d)
    BY <1>13 DEF RowsUp, N
<1>15. QED
    BY <1>9, <1>10, <1>11, <1>14 DEF d

(***************************************************************************)
(* Line feeds and characters                                               *)
(***************************************************************************)

\* The screen of d is that of c, moved up if the cursor of c is on the last row.
Fed(c, d) ==
    IF c.y = HEIGHT - 1
    THEN CellNo(d) = CellNo(c) /\ RowsUp(c, d)
    ELSE CellNo(d) = CellNo(c) + WIDTH /\ \A i \in Places : Cell(d, i) = Cell(c, i)

\* A line feed goes to the next row, or on the last one scrolls the screen.
LEMMA LineFeeds ==
    ASSUME NEW c, Sane(c)
    PROVE  /\ Sane(command_lf(c)) /\ command_lf(c).cursor = c.cursor /\ command_lf(c).x = c.x
           /\ Fed(c, command_lf(c))
<1> DEFINE d == command_lf(c)
<1>1. /\ c \in [screen : {0, ROW_SIZE}, pos : Nat, x : 0 .. WIDTH - 1, y : 0 .. HEIGHT - 1,
                mem : Video, start : Registers, cursor : Registers]
      /\ c.pos = c.screen + c.y * ROW_SIZE + 2 * c.x
      /\ 2 * Position(c.start) = c.screen
    BY DEF Sane
<1>2. HEIGHT \in Nat \ {0} /\ WIDTH \in Nat /\ ROW_SIZE \in Nat /\ ROW_SIZE = 2 * WIDTH
    BY Sizes
<1>3. CASE c.y = HEIGHT - 1
    <2>1. d = scroll_up(c)
        BY <1>1, <1>2, <1>3 DEF command_lf
    <2> HIDE DEF d
    <2>2. Sane(d) /\ d.cursor = c.cursor /\ CellNo(d) = CellNo(c) /\ RowsUp(c, d)
        BY <2>1, ScrollsUp
    <2>3. d.x = c.x
        <3>1. CellNo(d) % WIDTH = d.x /\ CellNo(c) % WIDTH = c.x
            BY <2>2, PlaceOnScreen
        <3>2. QED
            BY <2>2, <3>1
    <2>4. QED
        BY <1>3, <2>2, <2>3 DEF Fed, d
<1>4. CASE c.y # HEIGHT - 1
    <2>1. c.y + 1 < HEIGHT /\ c.y + 1 \in 0 .. HEIGHT - 1
        BY <1>1, <1>2, <1>4
    <2>2. d = [c EXCEPT !.y = c.y + 1, !.pos = c.pos + ROW_SIZE]
        BY <2>1 DEF command_lf
    <2> HIDE DEF d
    <2>3. c.pos + ROW_SIZE \in Nat
        BY <1>1, <1>2
    <2>4. /\ d \in [screen : {0, ROW_SIZE}, pos : Nat, x : 0 .. WIDTH - 1, y : 0 .. HEIGHT - 1,
                    mem : Video, start : Registers, cursor : Registers]
          /\ d.screen = c.screen /\ d.pos = c.pos + ROW_SIZE /\ d.x = c.x /\ d.y = c.y + 1
          /\ d.mem = c.mem /\ d.start = c.start /\ d.cursor = c.cursor
        BY <1>1, <2>1, <2>2, <2>3
    <2>5. d.pos = d.screen + d.y * ROW_SIZE + 2 * d.x /\ CellNo(d) = CellNo(c) + WIDTH
        <3> DEFINE yR == c.y * ROW_SIZE
                   yW == c.y * WIDTH
        <3>1. (c.y + 1) * ROW_SIZE = yR + ROW_SIZE /\ yR \in Nat
            BY <1>1, RowInScreen
        <3>2. (c.y + 1) * WIDTH = yW + WIDTH /\ yW \in Nat
            <4>1. c.y \in Nat
                BY <1>1
            <4>2. QED
                BY <1>2, <4>1
        <3>3. CellNo(c) = yW + c.x /\ CellNo(d) = (yW + WIDTH) + c.x
            BY <2>4, <3>2 DEF CellNo
        <3>4. c.pos = c.screen + yR + 2 * c.x
            BY <1>1
        <3>5. d.y * ROW_SIZE = yR + ROW_SIZE
            BY <2>4, <3>1
        <3> HIDE DEF yR, yW
        <3>6. c.x \in Int /\ c.screen \in Int
            BY PosInScreen
        <3>7. CellNo(d) = CellNo(c) + WIDTH
            BY <1>2, <3>2, <3>3, <3>6
        <3>8. d.pos = d.screen + (yR + ROW_SIZE) + 2 * d.x
            BY <1>2, <2>4, <3>1, <3>4, <3>6
        <3>9. QED
            BY <3>5, <3>7, <3>8
    <2>6. Sane(d)
        BY <1>1, <2>4, <2>5 DEF Sane
    <2>7. \A i \in Places : Cell(d, i) = Cell(c, i)
        BY <2>4 DEF Cell
    <2>8. QED
        BY <1>4, <2>4, <2>5, <2>6, <2>7 DEF Fed, d
<1>5. QED
    BY <1>3, <1>4

\* The memory after a character and its attribute, each stored as a word of four bytes.
LEMMA WordsStored ==
    ASSUME NEW m \in Video, NEW at \in Nat, NEW ch \in Ascii, at + 5 <= MEM_END
    PROVE  LET t == Store(Store(m, at, Word32(ch)), at + 1, Word32(attr))
           IN  /\ t \in Video
               /\ \A a \in AllMemory :
                    t[a] = IF a = at THEN ch
                           ELSE IF a = at + 1 THEN attr
                           ELSE IF a - at \in 2 .. 4 THEN 0
                           ELSE m[a]
<1> DEFINE u == Store(m, at, Word32(ch))
           t == Store(u, at + 1, Word32(attr))
           w == Word32(ch)
           v == Word32(attr)
<1>1. /\ w \in Seq(0 .. 255) /\ Len(w) = 4 /\ w[1] = ch /\ w[2] = 0 /\ w[3] = 0 /\ w[4] = 0
    BY DEF Word32, Ascii
<1>2. /\ v \in Seq(0 .. 255) /\ Len(v) = 4 /\ v[1] = attr /\ v[2] = 0 /\ v[3] = 0 /\ v[4] = 0
    BY DEF Word32, attr
<1>3. MEM_END \in Nat /\ AllMemory \subseteq Int
    BY Sizes DEF AllMemory
<1> HIDE DEF w, v
<1>4. /\ u \in Video
      /\ \A a \in AllMemory : u[a] = IF a - at \in 0 .. Len(w) - 1 THEN w[a - at + 1] ELSE m[a]
    <2>1. at + Len(w) <= MEM_END
        BY <1>1, <1>3
    <2>2. QED
        BY <1>1, <2>1, StoreInside, ZenonT(40) DEF w
<1> HIDE DEF u
<1>5. /\ t \in Video
      /\ \A a \in AllMemory :
           t[a] = IF a - (at + 1) \in 0 .. Len(v) - 1 THEN v[a - (at + 1) + 1] ELSE u[a]
    <2>1. at + 1 \in Nat /\ (at + 1) + Len(v) <= MEM_END
        BY <1>2, <1>3
    <2>2. QED
        BY <1>2, <1>4, <2>1, StoreInside, ZenonT(40) DEF v
<1> HIDE DEF t
<1>6. ASSUME NEW a \in AllMemory
      PROVE  t[a] = IF a = at THEN ch
                    ELSE IF a = at + 1 THEN attr
                    ELSE IF a - at \in 2 .. 4 THEN 0
                    ELSE m[a]
    <2>1. PICK k \in Int : a = at + k /\ a - at = k /\ a - (at + 1) = k - 1
        <3>1. a \in Int
            BY <1>3
        <3>2. a - at \in Int /\ a = at + (a - at) /\ a - (at + 1) = (a - at) - 1
            BY <3>1
        <3>3. QED
            BY <3>2
    <2>2. u[a] = IF k \in 0 .. 3 THEN w[k + 1] ELSE m[a]
        BY <1>1, <1>4, <2>1
    <2>3. t[a] = IF k - 1 \in 0 .. 3 THEN v[(k - 1) + 1] ELSE u[a]
        BY <1>2, <1>5, <2>1
    <2>4. /\ a = at <=> k = 0
          /\ a = at + 1 <=> k = 1
          /\ (k - 1) + 1 = k
        BY <2>1
    <2>5. CASE k = 0
        BY <1>1, <2>2, <2>3, <2>4, <2>5
    <2>6. CASE k = 1
        BY <1>2, <2>3, <2>4, <2>6
    <2>7. CASE k \in 2 .. 4
        <3>1. k = 2 \/ k = 3 \/ k = 4
            BY <2>7
        <3>2. t[a] = v[k]
            BY <2>3, <2>4, <2>7
        <3>3. t[a] = 0
            BY <1>2, <3>1, <3>2
        <3>4. QED
            BY <2>1, <2>4, <2>7, <3>3
    <2>8. CASE k \notin 0 .. 4
        <3>1. k \notin 0 .. 3 /\ k - 1 \notin 0 .. 3 /\ k # 0 /\ k # 1 /\ k \notin 2 .. 4
            BY <2>1, <2>8
        <3>2. QED
            BY <2>1, <2>2, <2>3, <2>4, <3>1
    <2>9. QED
        BY <2>1, <2>5, <2>6, <2>7, <2>8
<1>7. QED
    BY <1>5, <1>6 DEF t, u, v, w

\* What a character leaves of the cell at i.
PutLeaves(c, ch, i, glyph) ==
    \/ i < CellNo(c) /\ glyph = Cell(c, i)
    \/ i = CellNo(c) /\ glyph = IF ch = SPACE THEN Blank ELSE ch
    \/ i > CellNo(c) /\ glyph \in {Cell(c, i), Blank}

\* The character in its place, before the cursor moves on.
Typed(c, ch) ==
    [c EXCEPT !.mem = Store(Store(c.mem, c.pos, Word32(ch)), c.pos + 1, Word32(attr))]

\* A character is stored with its attribute in its place.
LEMMA CharacterStored ==
    ASSUME NEW c, Sane(c), NEW ch \in Ascii
    PROVE  /\ Sane(Typed(c, ch)) /\ Typed(c, ch).cursor = c.cursor /\ CellNo(Typed(c, ch)) = CellNo(c)
           /\ Typed(c, ch).x = c.x /\ Typed(c, ch).y = c.y /\ Typed(c, ch).pos = c.pos
           /\ \A i \in Places : PutLeaves(c, ch, i, Cell(Typed(c, ch), i))
<1> DEFINE e == Typed(c, ch)
           p == CellNo(c)
           t == Store(Store(c.mem, c.pos, Word32(ch)), c.pos + 1, Word32(attr))
<1>1. /\ c \in [screen : {0, ROW_SIZE}, pos : Nat, x : 0 .. WIDTH - 1, y : 0 .. HEIGHT - 1,
                mem : Video, start : Registers, cursor : Registers]
      /\ c.pos = c.screen + c.y * ROW_SIZE + 2 * c.x
      /\ 2 * Position(c.start) = c.screen
    BY DEF Sane
<1>2. /\ c.screen \in Nat /\ c.pos \in Nat /\ c.pos + 5 <= MEM_END
      /\ p \in Places /\ p \in Nat /\ c.pos = c.screen + 2 * p
    <2>1. p \in Places /\ c.pos = c.screen + 2 * p
        BY PlaceOnScreen
    <2>2. p \in Nat
        BY <2>1, CellAddress
    <2>3. /\ c.screen \in Nat /\ c.pos \in Nat /\ c.pos + 2 <= c.screen + SCR_SIZE
          /\ c.screen + SCR_SIZE + ROW_SIZE < MEM_END
        BY PosInScreen
    <2>4. ROW_SIZE \in Nat /\ ROW_SIZE >= 4 /\ SCR_SIZE \in Nat /\ MEM_END \in Nat
        BY Sizes
    <2> HIDE DEF p
    <2>5. c.pos + 5 <= MEM_END
        BY <2>3, <2>4
    <2>6. QED
        BY <2>1, <2>2, <2>3, <2>5
<1> HIDE DEF p
<1>3. /\ t \in Video
      /\ \A a \in AllMemory :
           t[a] = IF a = c.pos THEN ch
                  ELSE IF a = c.pos + 1 THEN attr
                  ELSE IF a - c.pos \in 2 .. 4 THEN 0
                  ELSE c.mem[a]
    <2>1. c.mem \in Video /\ c.pos \in Nat /\ c.pos + 5 <= MEM_END
        BY <1>1, <1>2
    <2>2. QED
        BY <2>1, WordsStored
<1>4. e = [c EXCEPT !.mem = t]
    BY DEF Typed
<1> HIDE DEF t, e
<1>5. /\ e \in [screen : {0, ROW_SIZE}, pos : Nat, x : 0 .. WIDTH - 1, y : 0 .. HEIGHT - 1,
                mem : Video, start : Registers, cursor : Registers]
      /\ e.screen = c.screen /\ e.pos = c.pos /\ e.x = c.x /\ e.y = c.y /\ e.mem = t
      /\ e.start = c.start /\ e.cursor = c.cursor
    BY <1>1, <1>3, <1>4
<1>6. Sane(e)
    BY <1>1, <1>5 DEF Sane
<1>7. ASSUME NEW i \in Places PROVE PutLeaves(c, ch, i, Cell(e, i))
    <2> DEFINE a == c.screen + 2 * i
               b == a + 1
    <2>1. a \in Nat /\ a \in AllMemory /\ b \in AllMemory /\ i \in Nat
        BY CellAddress
    <2>2. Cell(e, i) = IF t[b] = 0 \/ t[a] = SPACE THEN Blank ELSE t[a]
        BY <1>5 DEF Cell
    <2>3. Cell(c, i) = IF c.mem[b] = 0 \/ c.mem[a] = SPACE THEN Blank ELSE c.mem[a]
        BY DEF Cell
    <2>4. PICK k \in Int : k = i - p /\ a = c.pos + 2 * k /\ b = c.pos + (2 * k + 1)
        <3>1. i - p \in Int /\ a = c.pos + 2 * (i - p) /\ b = c.pos + (2 * (i - p) + 1)
            BY <1>2, <2>1
        <3>2. QED
            BY <3>1
    <2> HIDE DEF a, b
    <2>5. /\ t[a] = IF k = 0 THEN ch ELSE IF k \in 1 .. 2 THEN 0 ELSE c.mem[a]
          /\ t[b] = IF k = 0 THEN attr ELSE IF k = 1 THEN 0 ELSE c.mem[b]
        <3>1. t[a] = IF k = 0 THEN ch ELSE IF k \in 1 .. 2 THEN 0 ELSE c.mem[a]
            <4>1. /\ a = c.pos <=> k = 0
                  /\ a # c.pos + 1
                  /\ a - c.pos \in 2 .. 4 <=> k \in 1 .. 2
                BY <1>2, <2>4
            <4>2. QED
                BY <1>3, <2>1, <4>1
        <3>2. t[b] = IF k = 0 THEN attr ELSE IF k = 1 THEN 0 ELSE c.mem[b]
            <4>1. /\ b # c.pos
                  /\ b = c.pos + 1 <=> k = 0
                  /\ b - c.pos \in 2 .. 4 <=> k = 1
                BY <1>2, <2>4
            <4>2. QED
                BY <1>3, <2>1, <4>1
        <3>3. QED
            BY <3>1, <3>2
    <2>6. (i < p <=> k < 0) /\ (i = p <=> k = 0) /\ (i > p <=> k > 0)
        BY <1>2, <2>1, <2>4
    <2>7. CASE k = 0
        <3>1. Cell(e, i) = IF ch = SPACE THEN Blank ELSE ch
            BY <2>2, <2>5, <2>7 DEF attr
        <3>2. QED
            BY <2>6, <2>7, <3>1 DEF PutLeaves, p
    <2>8. CASE k < 0
        <3>1. t[a] = c.mem[a] /\ t[b] = c.mem[b]
            BY <2>5, <2>8
        <3>2. QED
            BY <2>2, <2>3, <2>6, <2>8, <3>1 DEF PutLeaves, p
    <2>9. CASE k > 0
        <3>1. Cell(e, i) \in {Cell(c, i), Blank}
            <4>1. CASE k = 1
                BY <2>2, <2>5, <4>1
            <4>2. CASE k = 2
                <5>1. t[a] = 0 /\ t[b] = c.mem[b]
                    BY <2>5, <4>2
                <5>2. QED
                    BY <2>2, <5>1 DEF Blank
            <4>3. CASE k > 2
                <5>1. t[a] = c.mem[a] /\ t[b] = c.mem[b]
                    BY <2>5, <4>3
                <5>2. QED
                    BY <2>2, <2>3, <5>1
            <4>4. QED
                BY <2>9, <4>1, <4>2, <4>3
        <3>2. QED
            BY <2>6, <2>9, <3>1 DEF PutLeaves, p
    <2>10. QED
        BY <2>7, <2>8, <2>9
<1>8. CellNo(e) = CellNo(c)
    BY <1>5 DEF CellNo
<1>9. QED
    BY <1>5, <1>6, <1>7, <1>8 DEF e

\* The screen of d is that of c with the character put at the cursor.
PutShows(c, ch, d) ==
    IF c.x = WIDTH - 1 /\ c.y = HEIGHT - 1
    THEN /\ CellNo(d) = CellNo(c) - (WIDTH - 1)
         /\ \A i \in Places : i >= WIDTH => PutLeaves(c, ch, i, Cell(d, i - WIDTH))
         /\ \A i \in Places : i >= WIDTH * HEIGHT - WIDTH => Cell(d, i) = Blank
    ELSE /\ CellNo(d) = CellNo(c) + 1
         /\ \A i \in Places : PutLeaves(c, ch, i, Cell(d, i))

\* A character that is shown, in the last column or not, does what PutShows says.
LEMMA CharacterPut ==
    ASSUME NEW c, Sane(c), NEW ch \in Ascii
    PROVE  /\ Sane(command_put(c, ch)) /\ command_put(c, ch).cursor = c.cursor
           /\ PutShows(c, ch, command_put(c, ch))
<1> DEFINE d == command_put(c, ch)
           e == Typed(c, ch)
           f == command_cr(e)
           N == WIDTH * HEIGHT
<1>1. /\ c \in [screen : {0, ROW_SIZE}, pos : Nat, x : 0 .. WIDTH - 1, y : 0 .. HEIGHT - 1,
                mem : Video, start : Registers, cursor : Registers]
      /\ c.pos = c.screen + c.y * ROW_SIZE + 2 * c.x
    BY DEF Sane
<1>2. /\ HEIGHT \in Nat \ {0} /\ WIDTH \in Nat \ {0, 1} /\ ROW_SIZE = 2 * WIDTH
      /\ CellNo(c) \in 0 .. N - 1 /\ N \in Nat
    BY PlaceOnScreen, Sizes DEF Places
<1>3. /\ Sane(e) /\ e.cursor = c.cursor /\ CellNo(e) = CellNo(c)
      /\ e.x = c.x /\ e.y = c.y /\ e.pos = c.pos
      /\ \A i \in Places : PutLeaves(c, ch, i, Cell(e, i))
    BY CharacterStored
<1>4. /\ e \in [screen : {0, ROW_SIZE}, pos : Nat, x : 0 .. WIDTH - 1, y : 0 .. HEIGHT - 1,
                mem : Video, start : Registers, cursor : Registers]
      /\ e.pos = e.screen + e.y * ROW_SIZE + 2 * e.x
      /\ 2 * Position(e.start) = e.screen
    BY <1>3 DEF Sane
<1>5. d = IF c.x + 1 = WIDTH
          THEN command_lf([e EXCEPT !.x = 0, !.pos = (c.pos + 2) - ROW_SIZE])
          ELSE [e EXCEPT !.pos = c.pos + 2, !.x = c.x + 1]
    <2> DEFINE g == [c EXCEPT !.mem = Store(Store(c.mem, c.pos, Word32(ch)), c.pos + 1, Word32(attr)),
                              !.pos = c.pos + 2, !.x = c.x + 1]
    <2>1. d = IF g.x = WIDTH THEN command_lf([g EXCEPT !.x = 0, !.pos = g.pos - ROW_SIZE]) ELSE g
        BY DEF command_put
    <2>2. g = [e EXCEPT !.pos = c.pos + 2, !.x = c.x + 1]
        BY <1>1 DEF Typed
    <2> HIDE DEF d, e, g
    <2>3. g.x = c.x + 1 /\ g.pos = c.pos + 2
        BY <1>4, <2>2
    <2>4. [g EXCEPT !.x = 0, !.pos = g.pos - ROW_SIZE] = [e EXCEPT !.x = 0, !.pos = (c.pos + 2) - ROW_SIZE]
        <3> DEFINE q == c.pos + 2
                   r == c.x + 1
                   z == q - ROW_SIZE
        <3>1. g = [e EXCEPT !.pos = q, !.x = r] /\ g.pos - ROW_SIZE = z
            BY <2>2, <2>3
        <3> HIDE DEF q, r, z
        <3>2. [g EXCEPT !.x = 0, !.pos = z] = [e EXCEPT !.x = 0, !.pos = z]
            BY <1>4, <3>1
        <3>3. QED
            BY <3>1, <3>2 DEF z, q
    <2>5. QED
        BY <2>1, <2>2, <2>3, <2>4
<1> HIDE DEF d, e, N
<1>6. CASE c.x = WIDTH - 1
    <2>1. (c.pos + 2) - ROW_SIZE = e.pos - 2 * e.x
        BY <1>1, <1>2, <1>3, <1>6
    <2>2. [e EXCEPT !.x = 0, !.pos = (c.pos + 2) - ROW_SIZE] = f
        BY <1>4, <2>1 DEF command_cr
    <2>3. d = command_lf(f)
        BY <1>1, <1>2, <1>5, <1>6, <2>2
    <2>4. /\ Sane(f) /\ f.cursor = e.cursor /\ CellNo(f) = CellNo(c) - (WIDTH - 1)
          /\ \A i \in Places : Cell(f, i) = Cell(e, i)
        BY <1>3, <1>6, ReturnMoves
    <2>5. f.y = c.y
        BY <1>3, <1>4 DEF command_cr
    <2> HIDE DEF f
    <2>6. Sane(d) /\ d.cursor = f.cursor /\ Fed(f, d)
        BY <2>3, <2>4, LineFeeds
    <2>7. \A i \in Places : PutLeaves(c, ch, i, Cell(f, i))
        BY <1>3, <2>4
    <2>8. CASE c.y = HEIGHT - 1
        <3>1. CellNo(d) = CellNo(f) /\ RowsUp(f, d)
            BY <2>5, <2>6, <2>8 DEF Fed
        <3>2. ASSUME NEW i \in Places, i >= WIDTH
              PROVE  PutLeaves(c, ch, i, Cell(d, i - WIDTH))
            <4> DEFINE j == i - WIDTH
            <4>1. j \in Places /\ j < N - WIDTH /\ j + WIDTH = i
                BY <1>2, <3>2 DEF Places, N
            <4> HIDE DEF j
            <4>2. Cell(d, j) = Cell(f, i)
                BY <3>1, <4>1 DEF RowsUp, N
            <4>3. QED
                BY <2>7, <4>2 DEF j
        <3>3. ASSUME NEW i \in Places, i >= N - WIDTH
              PROVE  Cell(d, i) = Blank
            <4>1. ~(i < N - WIDTH)
                BY <1>2, <3>3 DEF Places, N
            <4>2. QED
                BY <3>1, <4>1 DEF RowsUp, N
        <3>4. QED
            BY <1>3, <1>6, <2>4, <2>6, <2>8, <3>1, <3>2, <3>3 DEF PutShows, d, N
    <2>9. CASE c.y # HEIGHT - 1
        <3>1. CellNo(d) = CellNo(f) + WIDTH /\ \A i \in Places : Cell(d, i) = Cell(f, i)
            BY <2>5, <2>6, <2>9 DEF Fed
        <3>2. CellNo(d) = CellNo(c) + 1
            BY <1>2, <2>4, <3>1
        <3>3. QED
            BY <1>3, <2>4, <2>6, <2>7, <2>9, <3>1, <3>2 DEF PutShows, d
    <2>10. QED
        BY <2>8, <2>9
<1>7. CASE c.x # WIDTH - 1
    <2>1. c.x + 1 \in 0 .. WIDTH - 1 /\ c.x + 1 # WIDTH
        BY <1>1, <1>2, <1>7
    <2>2. d = [e EXCEPT !.pos = c.pos + 2, !.x = c.x + 1]
        BY <1>5, <2>1
    <2>3. c.pos + 2 \in Nat
        BY <1>1
    <2>4. /\ d \in [screen : {0, ROW_SIZE}, pos : Nat, x : 0 .. WIDTH - 1, y : 0 .. HEIGHT - 1,
                    mem : Video, start : Registers, cursor : Registers]
          /\ d.screen = e.screen /\ d.pos = c.pos + 2 /\ d.x = c.x + 1 /\ d.y = c.y
          /\ d.mem = e.mem /\ d.start = e.start /\ d.cursor = e.cursor
        BY <1>3, <1>4, <2>1, <2>2, <2>3
    <2>5. d.pos = d.screen + d.y * ROW_SIZE + 2 * d.x /\ CellNo(d) = CellNo(c) + 1
        <3> DEFINE yR == c.y * ROW_SIZE
                   yW == c.y * WIDTH
        <3>1. yR \in Nat /\ yW \in Nat
            <4>1. c.y \in Nat
                BY <1>1
            <4>2. QED
                BY <1>2, <4>1
        <3>2. e.pos = e.screen + yR + 2 * e.x /\ e.screen \in Nat
            <4>1. e.screen \in Nat
                BY <1>3, PosInScreen
            <4>2. QED
                BY <1>3, <1>4, <4>1
        <3>3. CellNo(d) = yW + (c.x + 1) /\ CellNo(c) = yW + c.x
            BY <2>4 DEF CellNo
        <3>4. d.y * ROW_SIZE = yR
            BY <2>4
        <3> HIDE DEF yR, yW
        <3>5. c.x \in Int
            BY <1>1
        <3>6. CellNo(d) = CellNo(c) + 1
            BY <3>1, <3>3, <3>5
        <3>7. d.pos = d.screen + yR + 2 * d.x
            BY <1>3, <2>4, <3>1, <3>2, <3>5
        <3>8. QED
            BY <3>4, <3>6, <3>7
    <2>6. Sane(d)
        BY <1>4, <2>4, <2>5 DEF Sane
    <2>7. \A i \in Places : Cell(d, i) = Cell(e, i)
        BY <2>4 DEF Cell
    <2>8. QED
        BY <1>3, <1>7, <2>4, <2>5, <2>6, <2>7 DEF PutShows, d
<1>8. QED
    BY <1>6, <1>7

(***************************************************************************)
(* console_clear, and one character                                        *)
(***************************************************************************)

\* A cleared console shows blanks, and has its cursor at the start.
LEMMA Cleared ==
    /\ Sane(console_clear) /\ 2 * Position(console_clear.cursor) = console_clear.pos
    /\ console_clear.cursor \in Registers /\ CellNo(console_clear) = 0
    /\ \A i \in Places : Cell(console_clear, i) = Blank
<1> DEFINE mem == [a \in AllMemory |->
                      IF a \in 0 .. MEM_END - 1 THEN erase[(a % 2) + 1] ELSE Foreign]
           regs == [high |-> High(2 * 0), low |-> Low(2 * 0)]
           zero == [high |-> 0, low |-> 0]
           c == [screen |-> 0, pos |-> 0, x |-> 0, y |-> 0, mem |-> mem,
                 start |-> zero, cursor |-> zero]
           d == console_clear
<1>1. /\ MEM_END \in Nat \ {0} /\ WIDTH \in Nat \ {0, 1} /\ HEIGHT \in Nat \ {0} /\ ROW_SIZE \in Nat
      /\ AllMemory \subseteq Int
    BY Sizes DEF AllMemory
<1>2. regs \in Registers /\ Position(regs) = 0
    <2>1. 2 * 0 < MEM_END
        BY <1>1
    <2>2. QED
        BY <2>1, PositionKept
<1>3. erase[1] = SPACE /\ erase[2] = 7 /\ SPACE = 32
    BY DEF erase, SPACE
<1> HIDE DEF mem, regs
<1>4. d = [screen |-> 0, pos |-> 0, x |-> 0, y |-> 0, mem |-> mem, start |-> regs, cursor |-> regs]
    <2>1. d = set_screen(set_cursor(c))
        BY DEF console_clear, mem
    <2>2. set_cursor(c) = [c EXCEPT !.cursor = regs]
        BY DEF set_cursor, regs
    <2>3. set_screen(set_cursor(c)) = [[c EXCEPT !.cursor = regs] EXCEPT !.start = regs]
        <3>1. [c EXCEPT !.cursor = regs].screen = 2 * 0
            OBVIOUS
        <3>2. QED
            BY <2>2, <3>1 DEF set_screen, regs
    <2>4. QED
        BY <2>1, <2>3
<1> HIDE DEF d
<1>5. ASSUME NEW a \in AllMemory
      PROVE  /\ mem[a] \in Content /\ ((mem[a] = Foreign) <=> a \notin 0 .. MEM_END - 1)
             /\ a \in 0 .. MEM_END - 1 /\ a % 2 = 0 => mem[a] = SPACE
    <2>1. mem[a] = IF a \in 0 .. MEM_END - 1 THEN erase[(a % 2) + 1] ELSE Foreign
        BY DEF mem
    <2>2. CASE a \in 0 .. MEM_END - 1
        <3> DEFINE k == a % 2
        <3>1. k \in 0 .. 1
            BY <2>2
        <3>2. mem[a] = erase[k + 1]
            BY <2>1, <2>2
        <3> HIDE DEF k
        <3>3. \/ k = 0 /\ k + 1 = 1
              \/ k = 1 /\ k + 1 = 2
            BY <3>1
        <3>4. \/ k = 0 /\ mem[a] = SPACE
              \/ k = 1 /\ mem[a] = 7
            BY <1>3, <3>2, <3>3
        <3>5. mem[a] \in Content /\ mem[a] # Foreign
            BY <1>3, <3>4 DEF Content, Foreign
        <3>6. k = 0 => mem[a] = SPACE
            BY <3>4
        <3>7. QED
            BY <2>2, <3>5, <3>6 DEF k
    <2>3. CASE a \notin 0 .. MEM_END - 1
        BY <2>1, <2>3 DEF Content, Foreign
    <2>4. QED
        BY <2>2, <2>3
<1>6. mem \in Video
    <2>1. mem \in [AllMemory -> Content]
        <3>1. mem = [a \in AllMemory |-> mem[a]]
            BY DEF mem
        <3>2. QED
            BY <1>5, <3>1
    <2>2. QED
        BY <1>5, <2>1 DEF Video
<1>7. /\ d \in [screen : {0, ROW_SIZE}, pos : Nat, x : 0 .. WIDTH - 1, y : 0 .. HEIGHT - 1,
                mem : Video, start : Registers, cursor : Registers]
      /\ d.screen = 0 /\ d.pos = 0 /\ d.x = 0 /\ d.y = 0 /\ d.mem = mem /\ d.start = regs
      /\ d.cursor = regs
    <2>1. 0 \in 0 .. WIDTH - 1 /\ 0 \in 0 .. HEIGHT - 1
        BY <1>1
    <2>2. QED
        BY <1>2, <1>4, <1>6, <2>1
<1>8. 0 * ROW_SIZE = 0 /\ 0 * WIDTH = 0
    BY <1>1
<1>9. Sane(d) /\ 2 * Position(d.cursor) = d.pos
    <2>1. d.pos = d.screen + d.y * ROW_SIZE + 2 * d.x
        BY <1>7, <1>8
    <2>2. 2 * Position(d.start) = d.screen /\ 2 * Position(d.cursor) = d.pos
        BY <1>2, <1>7
    <2>3. QED
        BY <1>7, <2>1, <2>2 DEF Sane
<1>10. CellNo(d) = 0
    BY <1>7, <1>8 DEF CellNo
<1>11. ASSUME NEW i \in Places PROVE Cell(d, i) = Blank
    <2> DEFINE a == 2 * i
    <2>1. a \in AllMemory /\ i \in Nat /\ a + 2 <= SCR_SIZE
        <3>1. i \in Nat /\ 0 + 2 * i \in AllMemory /\ 0 + 2 * i + 2 <= 0 + SCR_SIZE
            BY <1>7, <1>9, CellAddress
        <3>2. 0 + 2 * i = a /\ 0 + SCR_SIZE = SCR_SIZE
            BY <3>1, Sizes
        <3>3. QED
            BY <3>1, <3>2
    <2>2. a \in 0 .. MEM_END - 1 /\ a % 2 = 0 /\ 0 + 2 * i = a
        BY <2>1, Sizes
    <2>3. Cell(d, i) = IF mem[a + 1] = 0 \/ mem[a] = SPACE THEN Blank ELSE mem[a]
        BY <1>7, <2>2 DEF Cell
    <2>4. mem[a] = SPACE
        BY <1>5, <2>1, <2>2
    <2>5. QED
        BY <2>3, <2>4
<1>12. QED
    BY <1>7, <1>2, <1>9, <1>10, <1>11 DEF d

\* What each character other than NUL does to the screen, as far as the cells and the
\* place of the cursor tell.
Nothing == {ASCII_ENQ, ASCII_ESC, ASCII_BEL, ASCII_HT, ASCII_VT}
Controls == Nothing \cup {ASCII_BS, ASCII_LF, ASCII_FF, ASCII_CR, ASCII_DEL}

\* The cursor goes to the next row, and there to its column or to the first one.
FeedShows(c, ch, d) ==
    \E e : /\ Sane(e) /\ Fed(c, e)
           /\ \/ ch = ASCII_LF /\ CellNo(d) = CellNo(e) - c.x
              \/ ch = ASCII_FF /\ CellNo(d) = CellNo(e)
           /\ \A i \in Places : Cell(d, i) = Cell(e, i)

Shows(c, ch, d) ==
    \/ /\ ch \in Nothing \/ (ch = ASCII_BS /\ c.x = 0)
       /\ CellNo(d) = CellNo(c) /\ \A i \in Places : Cell(d, i) = Cell(c, i)
    \/ ch \notin Controls /\ PutShows(c, ch, d)
    \/ FeedShows(c, ch, d)
    \/ /\ ch = ASCII_CR
       /\ CellNo(d) = CellNo(c) - c.x /\ \A i \in Places : Cell(d, i) = Cell(c, i)
    \/ /\ \/ ch = ASCII_DEL /\ CellNo(d) = CellNo(c)
          \/ ch = ASCII_BS /\ c.x # 0 /\ CellNo(d) = CellNo(c) - 1
       /\ \A i \in Places : Cell(d, i) = IF i = CellNo(d) THEN Blank ELSE Cell(c, i)

\* Each character does to the screen what Shows says.
LEMMA OneCharacter ==
    ASSUME NEW c, Sane(c), NEW ch \in Ascii
    PROVE  Sane(Written(c, ch)) /\ Shows(c, ch, Written(c, ch))
<1> DEFINE d == Written(c, ch)
<1> USE DEF ASCII_ENQ, ASCII_ESC, ASCII_BEL, ASCII_HT, ASCII_VT, ASCII_BS, ASCII_LF,
            ASCII_FF, ASCII_CR, ASCII_DEL, Nothing, Controls
<1>1. CASE ch \in {ASCII_ENQ, ASCII_ESC, ASCII_BEL, ASCII_HT, ASCII_VT}
    <2>1. d = c
        BY <1>1 DEF Written
    <2>2. QED
        BY <1>1, <2>1 DEF Shows
<1>2. CASE ch = ASCII_BS
    <2>1. d = command_bs(c)
        BY <1>2 DEF Written
    <2>2. CASE c.x = 0
        <3>1. d = c
            BY <2>1, <2>2 DEF command_bs
        <3>2. QED
            BY <1>2, <2>2, <3>1 DEF Shows
    <2>3. CASE c.x # 0
        <3> HIDE DEF d
        <3>1. Sane(d) /\ CellNo(d) = CellNo(c) - 1
              /\ \A i \in Places : Cell(d, i) = IF i = CellNo(d) THEN Blank ELSE Cell(c, i)
            BY <2>1, <2>3, BackspaceErases
        <3>2. QED
            BY <1>2, <2>3, <3>1 DEF Shows, d
    <2>4. QED
        BY <2>2, <2>3
<1>3. CASE ch = ASCII_LF
    <2> DEFINE e == command_lf(c)
    <2>1. d = command_cr(e)
        BY <1>3 DEF Written
    <2>2. Sane(e) /\ e.x = c.x /\ Fed(c, e)
        BY LineFeeds
    <2> HIDE DEF d, e
    <2>3. /\ Sane(d) /\ CellNo(d) = CellNo(e) - c.x
          /\ \A i \in Places : Cell(d, i) = Cell(e, i)
        BY <2>1, <2>2, ReturnMoves
    <2>4. QED
        BY <1>3, <2>2, <2>3 DEF Shows, FeedShows, d
<1>4. CASE ch = ASCII_FF
    <2>1. d = command_lf(c)
        BY <1>4 DEF Written
    <2>2. Sane(d) /\ Fed(c, d)
        BY <2>1, LineFeeds
    <2> HIDE DEF d
    <2>3. QED
        BY <1>4, <2>2 DEF Shows, FeedShows, d
<1>5. CASE ch = ASCII_CR
    <2>1. d = command_cr(c)
        BY <1>5 DEF Written
    <2>2. /\ Sane(d) /\ CellNo(d) = CellNo(c) - c.x
          /\ \A i \in Places : Cell(d, i) = Cell(c, i)
        BY <2>1, ReturnMoves
    <2> HIDE DEF d
    <2>3. QED
        BY <1>5, <2>2 DEF Shows, d
<1>6. CASE ch = ASCII_DEL
    <2>1. d = command_del(c)
        BY <1>6 DEF Written
    <2> HIDE DEF d
    <2>2. /\ Sane(d) /\ CellNo(d) = CellNo(c)
          /\ \A i \in Places : Cell(d, i) = IF i = CellNo(d) THEN Blank ELSE Cell(c, i)
        BY <2>1, DeleteErases
    <2>3. QED
        BY <1>6, <2>2 DEF Shows, d
<1>7. CASE ch \notin {ASCII_ENQ, ASCII_ESC, ASCII_BEL, ASCII_HT, ASCII_VT, ASCII_BS, ASCII_LF,
                     ASCII_FF, ASCII_CR, ASCII_DEL}
    <2>1. d = command_put(c, ch)
        BY <1>7 DEF Written
    <2>2. Sane(d) /\ PutShows(c, ch, d)
        BY <2>1, CharacterPut
    <2> HIDE DEF d
    <2>3. QED
        BY <1>7, <2>2 DEF Shows, d
<1>8. QED
    BY <1>1, <1>2, <1>3, <1>4, <1>5, <1>6, <1>7

\* set_cursor makes the registers agree with pos.
LEMMA CursorSet ==
    ASSUME NEW c, Sane(c)
    PROVE  /\ Sane(set_cursor(c)) /\ 2 * Position(set_cursor(c).cursor) = set_cursor(c).pos
           /\ CellNo(set_cursor(c)) = CellNo(c)
           /\ \A i \in Places : Cell(set_cursor(c), i) = Cell(c, i)
<1> DEFINE d == set_cursor(c)
<1>1. /\ c \in [screen : {0, ROW_SIZE}, pos : Nat, x : 0 .. WIDTH - 1, y : 0 .. HEIGHT - 1,
                mem : Video, start : Registers, cursor : Registers]
      /\ c.pos = c.screen + c.y * ROW_SIZE + 2 * c.x
      /\ 2 * Position(c.start) = c.screen
    BY DEF Sane
<1>2. PICK p \in Nat : c.pos = 2 * p /\ 2 * p < MEM_END
    <2>1. c.screen \in Nat /\ c.pos = c.screen + 2 * CellNo(c) /\ CellNo(c) \in Places
        BY PlaceOnScreen, PosInScreen
    <2>2. CellNo(c) \in Nat
        BY <2>1, CellAddress
    <2>3. ROW_SIZE = 2 * WIDTH /\ WIDTH \in Nat
        BY Sizes
    <2>4. c.pos = 2 * CellNo(c) \/ c.pos = 2 * (WIDTH + CellNo(c))
        BY <1>1, <2>1, <2>2, <2>3
    <2>5. c.pos < MEM_END
        BY PosInScreen, Sizes
    <2>6. WIDTH + CellNo(c) \in Nat
        BY <2>2, <2>3
    <2>7. QED
        BY <2>2, <2>4, <2>5, <2>6
<1> DEFINE regs == [high |-> High(2 * p), low |-> Low(2 * p)]
<1>3. regs \in Registers /\ Position(regs) = p
    BY <1>2, PositionKept
<1>4. d = [c EXCEPT !.cursor = regs]
    BY <1>2 DEF set_cursor
<1> HIDE DEF d, regs
<1>5. /\ d \in [screen : {0, ROW_SIZE}, pos : Nat, x : 0 .. WIDTH - 1, y : 0 .. HEIGHT - 1,
                mem : Video, start : Registers, cursor : Registers]
      /\ d.screen = c.screen /\ d.pos = c.pos /\ d.x = c.x /\ d.y = c.y /\ d.mem = c.mem
      /\ d.start = c.start /\ d.cursor = regs
    BY <1>1, <1>3, <1>4
<1>6. Sane(d) /\ 2 * Position(d.cursor) = d.pos
    BY <1>1, <1>2, <1>3, <1>5 DEF Sane
<1>7. CellNo(d) = CellNo(c) /\ \A i \in Places : Cell(d, i) = Cell(c, i)
    BY <1>5 DEF CellNo, Cell
<1>8. QED
    BY <1>6, <1>7 DEF d

\* One round of the loop of console_write does what Shows says, and ends with
\* registers that agree.
LEMMA CharacterWritten ==
    ASSUME NEW c, Sane(c), NEW ch \in Ascii
    PROVE  LET d == set_cursor(Written(c, ch))
           IN  Sane(d) /\ 2 * Position(d.cursor) = d.pos /\ Shows(c, ch, d)
<1> DEFINE e == Written(c, ch)
           d == set_cursor(e)
<1>1. Sane(e) /\ Shows(c, ch, e)
    BY OneCharacter
<1> HIDE DEF e
<1>2. /\ Sane(d) /\ 2 * Position(d.cursor) = d.pos /\ CellNo(d) = CellNo(e)
      /\ \A i \in Places : Cell(d, i) = Cell(e, i)
    BY <1>1, CursorSet
<1> HIDE DEF d
<1>3. PutShows(c, ch, e) => PutShows(c, ch, d)
    <2>1. ASSUME NEW i \in Places, i >= WIDTH, PutLeaves(c, ch, i, Cell(e, i - WIDTH))
          PROVE  PutLeaves(c, ch, i, Cell(d, i - WIDTH))
        <3>1. i - WIDTH \in Places
            BY <2>1, Sizes DEF Places
        <3>2. QED
            BY <1>2, <2>1, <3>1
    <2>2. QED
        BY <1>2, <2>1 DEF PutShows
<1>4. FeedShows(c, ch, e) => FeedShows(c, ch, d)
    BY <1>2 DEF FeedShows
<1>5. Shows(c, ch, d)
    <2>1. CASE ch \notin Controls /\ PutShows(c, ch, e)
        BY <1>3, <2>1 DEF Shows
    <2>2. CASE FeedShows(c, ch, e)
        BY <1>4, <2>2 DEF Shows
    <2>3. CASE ~(ch \notin Controls /\ PutShows(c, ch, e)) /\ ~FeedShows(c, ch, e)
        BY <1>1, <1>2, <2>3 DEF Shows
    <2>4. QED
        BY <2>1, <2>2, <2>3
<1>6. QED
    BY <1>2, <1>5 DEF d, e

(***************************************************************************)
(* The console at every step                                               *)
(***************************************************************************)

ConInv == Sane(con) /\ 2 * Position(con.cursor) = con.pos
TextInv == buf \in Seq(Ascii) /\ next \in 0 .. Len(buf)

ConsoleInv == ConInv /\ TextInv

\* The cleared console satisfies the invariant.
LEMMA InitConsole == Init => ConsoleInv
<1> SUFFICES ASSUME Init PROVE ConsoleInv
    OBVIOUS
<1>1. con = console_clear /\ buf = <<>> /\ next = 0
    BY DEF Init, console_init
<1>2. ConInv
    BY <1>1, Cleared DEF ConInv
<1>3. TextInv
    BY <1>1 DEF TextInv
<1>4. QED
    BY <1>2, <1>3 DEF ConsoleInv

\* A text is given to an idle console, or the next character of the text is shown.
TextGiven == con' = con /\ Rest = <<>> /\ Rest' \in Seq(Ascii)
CharacterShown ==
    /\ Rest # <<>> /\ Head(Rest) \in Ascii
    /\ IF Head(Rest) = ASCII_NUL THEN con' = con ELSE Shows(con, Head(Rest), con')
    /\ Rest' = IF Head(Rest) = ASCII_NUL THEN <<>> ELSE Tail(Rest)
Moves == TextGiven \/ CharacterShown \/ (con' = con /\ Rest' = Rest)

\* What is left of a text, from the place n on.
LEMMA RestOfText ==
    ASSUME NEW b, b \in Seq(Ascii), NEW n \in 1 .. Len(b)
    PROVE  /\ SubSeq(b, n, Len(b)) # <<>> /\ Head(SubSeq(b, n, Len(b))) = b[n]
           /\ Tail(SubSeq(b, n, Len(b)))
                  = IF n = Len(b) THEN <<>> ELSE SubSeq(b, n + 1, Len(b))
<1> DEFINE L == Len(b)
<1>1. L \in Nat /\ n \in Nat /\ n <= L /\ n \in 1 .. L /\ L \in n .. L
    BY LenProperties
<1>2. Head(SubSeq(b, n, L)) = b[n] /\ Tail(SubSeq(b, n, L)) = SubSeq(b, n + 1, L)
    BY <1>1, HeadTailOfSubSeq
<1>3. n = L => SubSeq(b, n + 1, L) = <<>>
    <2>1. n = L => n + 1 \in Int /\ L \in Int /\ L < n + 1
        BY <1>1
    <2>2. QED
        BY <2>1, SubSeqEmpty
<1>4. SubSeq(b, n, L) # <<>>
    <2>1. /\ \A i \in n .. L : b[i] \in Ascii
          /\ n \in Int /\ L \in Int
        BY <1>1
    <2>2. Len(SubSeq(b, n, L)) = IF n <= L THEN L - n + 1 ELSE 0
        BY <2>1, SubSeqProperties
    <2> DEFINE r == SubSeq(b, n, L)
    <2>3. Len(r) = L - n + 1
        BY <1>1, <2>2
    <2> HIDE DEF r
    <2>4. Len(r) # 0
        BY <1>1, <2>3
    <2>5. QED
        BY <2>4, EmptySeq DEF r
<1>5. QED
    BY <1>2, <1>3, <1>4

\* A step gives the console a text, or shows a character on the screen.
LEMMA ConsoleStep == ConsoleInv /\ [Next]_vars => ConsoleInv' /\ Moves
<1> SUFFICES ASSUME ConsoleInv, [Next]_vars
             PROVE  ConsoleInv' /\ Moves
    OBVIOUS
<1>1. /\ Sane(con) /\ 2 * Position(con.cursor) = con.pos
      /\ buf \in Seq(Ascii) /\ next \in 0 .. Len(buf) /\ Len(buf) \in Nat
    BY DEF ConsoleInv, ConInv, TextInv
<1>2. ASSUME NEW ch \in Ascii, console_write(ch)
      PROVE  ConInv' /\ (IF ch = ASCII_NUL THEN con' = con ELSE Shows(con, ch, con'))
    <2>1. CASE ch = ASCII_NUL
        <3>1. con' = con
            BY <1>2, <2>1 DEF console_write
        <3>2. QED
            BY <1>1, <2>1, <3>1 DEF ConInv
    <2>2. CASE ch # ASCII_NUL
        <3>1. con' = set_cursor(Written(con, ch))
            BY <1>2, <2>2 DEF console_write
        <3>2. Sane(con') /\ 2 * Position(con'.cursor) = con'.pos /\ Shows(con, ch, con')
            BY <1>1, <3>1, CharacterWritten
        <3>3. QED
            BY <2>2, <3>2 DEF ConInv
    <2>3. QED
        BY <2>1, <2>2
<1>3. ASSUME con' = con, next = 0, buf' \in Seq(Ascii),
             next' = IF buf' = <<>> THEN 0 ELSE 1
      PROVE  ConsoleInv' /\ Moves
    <2> DEFINE b == buf'
    <2>1. b \in Seq(Ascii) /\ next' = IF b = <<>> THEN 0 ELSE 1
        BY <1>3
    <2>2. Rest = <<>> /\ Rest' = IF next' = 0 THEN <<>> ELSE SubSeq(b, next', Len(b))
        BY <1>3 DEF Rest
    <2>3. ConInv'
        BY <1>1, <1>3 DEF ConInv
    <2> HIDE DEF b
    <2>4. Len(b) \in Nat /\ (b # <<>> => Len(b) >= 1)
        BY <2>1, EmptySeq
    <2>5. next' \in 0 .. Len(b)
        BY <2>1, <2>4
    <2>6. SubSeq(b, 1, Len(b)) = b
        BY <2>1, SubSeqFull
    <2>7. Rest' \in Seq(Ascii)
        BY <2>1, <2>2, <2>6
    <2>8. TextInv'
        BY <2>1, <2>5 DEF TextInv, b
    <2>9. QED
        BY <1>3, <2>2, <2>3, <2>7, <2>8 DEF ConsoleInv, Moves, TextGiven
<1>4. ASSUME NEW call \in Calls, printk(call)
      PROVE  ConsoleInv' /\ Moves
    <2>1. /\ con' = con /\ next = 0 /\ buf' = Output(call)
          /\ next' = IF buf' = <<>> THEN 0 ELSE 1
        BY <1>4 DEF printk
    <2>2. buf' \in Seq(Ascii)
        BY <2>1, TextAssumption
    <2>3. QED
        BY <1>3, <2>1, <2>2
<1>5. ASSUME WriteNext
      PROVE  ConsoleInv' /\ Moves
    <2> DEFINE ch == buf[next]
               last == next = Len(buf) \/ ch = ASCII_NUL
    <2>1. /\ next # 0 /\ console_write(ch)
          /\ next' = IF last THEN 0 ELSE next + 1
          /\ buf' = IF last THEN <<>> ELSE buf
        BY <1>5 DEF WriteNext
    <2>2. next \in 1 .. Len(buf)
        BY <1>1, <2>1
    <2>3. ch \in Ascii
        BY <1>1, <2>2, ElementOf, Zenon
    <2>4. ConInv' /\ (IF ch = ASCII_NUL THEN con' = con ELSE Shows(con, ch, con'))
        BY <1>2, <2>1, <2>3
    <2>5. /\ Rest = SubSeq(buf, next, Len(buf))
          /\ Rest' = IF last THEN <<>> ELSE SubSeq(buf, next + 1, Len(buf))
        <3>1. Rest = SubSeq(buf, next, Len(buf))
            BY <2>1 DEF Rest
        <3>2. Rest' = IF next' = 0 THEN <<>> ELSE SubSeq(buf', next', Len(buf'))
            BY DEF Rest
        <3>3. CASE last
            BY <2>1, <3>1, <3>2, <3>3
        <3>4. CASE ~last
            <4>1. next' = next + 1 /\ next + 1 # 0 /\ buf' = buf
                BY <2>1, <2>2, <3>4
            <4>2. QED
                BY <3>1, <3>2, <3>4, <4>1
        <3>5. QED
            BY <3>3, <3>4
    <2>6. /\ Rest # <<>> /\ Head(Rest) = ch
          /\ Tail(Rest) = IF next = Len(buf) THEN <<>> ELSE SubSeq(buf, next + 1, Len(buf))
        BY <1>1, <2>2, <2>5, RestOfText
    <2>7. Rest' = IF ch = ASCII_NUL THEN <<>> ELSE Tail(Rest)
        BY <2>5, <2>6
    <2>8. buf' \in Seq(Ascii) /\ next' \in 0 .. Len(buf')
        <3>1. CASE last
            <4>1. buf' = <<>> /\ next' = 0
                BY <2>1, <3>1
            <4>2. QED
                BY <4>1, EmptySeq
        <3>2. CASE ~last
            <4>1. buf' = buf /\ next' = next + 1 /\ next # Len(buf)
                BY <2>1, <3>2
            <4>2. QED
                BY <1>1, <2>2, <4>1
        <3>3. QED
            BY <3>1, <3>2
    <2> HIDE DEF ch, last
    <2>9. QED
        BY <2>3, <2>4, <2>6, <2>7, <2>8
            DEF ConsoleInv, TextInv, Moves, CharacterShown
<1>6. ASSUME NEW ch \in Chars, PrintCharacter(ch)
      PROVE  ConsoleInv' /\ Moves
    <2>1. con' = con /\ next = 0 /\ buf' = <<ch>> /\ next' = 1 /\ ch \in Ascii
        BY <1>6, TextAssumption DEF PrintCharacter
    <2>2. <<ch>> \in Seq(Ascii) /\ <<ch>> # <<>>
        BY <2>1
    <2>3. QED
        BY <1>3, <2>1, <2>2
<1>7. ASSUME UNCHANGED vars
      PROVE  ConsoleInv' /\ Moves
    BY <1>1, <1>7 DEF vars, ConsoleInv, ConInv, TextInv, Moves, Rest
<1>8. QED
    BY <1>4, <1>5, <1>6, <1>7 DEF Next

\* The four variables of the console, the memory and the text agree at every step.
THEOREM ConsoleInvariance == Spec => []ConsoleInv
<1>1. Init => ConsoleInv
    BY InitConsole
<1>2. ConsoleInv /\ [Next]_vars => ConsoleInv'
    BY ConsoleStep
<1>3. QED
    BY <1>1, <1>2, PTL DEF Spec

\* The row, the column, pos and the registers of the controller say the same, after every
\* character and every scrolling, and the cursor is on the screen (console_write).
THEOREM CursorIsRight == Spec => []CursorAgrees
<1>1. ConsoleInv => CursorAgrees
    <2> SUFFICES ASSUME ConsoleInv PROVE CursorAgrees
        OBVIOUS
    <2>1. /\ con \in [screen : {0, ROW_SIZE}, pos : Nat, x : 0 .. WIDTH - 1, y : 0 .. HEIGHT - 1,
                      mem : Video, start : Registers, cursor : Registers]
          /\ con.pos = con.screen + con.y * ROW_SIZE + 2 * con.x
          /\ 2 * Position(con.start) = con.screen /\ 2 * Position(con.cursor) = con.pos
        BY DEF ConsoleInv, ConInv, Sane
    <2>2. con.x \in 0 .. WIDTH - 1 /\ con.y \in 0 .. HEIGHT - 1
        BY <2>1
    <2>3. QED
        BY <2>1, <2>2 DEF CursorAgrees
<1>2. QED
    BY <1>1, ConsoleInvariance, PTL

\* No byte outside of the video memory is written, and there is always room for the row
\* that scroll_up clears (scroll_up, command_put).
THEOREM StaysInVideoMemory == Spec => []VideoInBounds
<1>1. ConsoleInv => VideoInBounds
    <2> SUFFICES ASSUME ConsoleInv PROVE VideoInBounds
        OBVIOUS
    <2>1. Sane(con)
        BY DEF ConsoleInv, ConInv
    <2>2. con.screen \in Nat /\ con.screen + SCR_SIZE + ROW_SIZE < MEM_END /\ con.mem \in Video
        BY <2>1, PosInScreen
    <2>3. QED
        BY <2>2, Sizes DEF VideoInBounds, Video
<1>2. QED
    BY <1>1, ConsoleInvariance, PTL

(***************************************************************************)
(* The console is a terminal                                               *)
(***************************************************************************)

\* The registers show the cells from screen on, and the cursor in its place.
LEMMA RegistersShow ==
    ASSUME NEW c, Sane(c), 2 * Position(c.cursor) = c.pos
    PROVE  /\ Position(c.cursor) - Position(c.start) = CellNo(c)
           /\ \A i \in Places : 2 * (Position(c.start) + i) = c.screen + 2 * i
<1>1. c.pos = c.screen + 2 * CellNo(c) /\ 2 * Position(c.start) = c.screen
    BY PlaceOnScreen DEF Sane
<1>2. CellNo(c) \in Int /\ c.cursor \in Registers /\ c.start \in Registers /\ c.screen \in Nat
    BY PlaceOnScreen, PosInScreen, Sizes DEF Sane, Places
<1>3. Position(c.cursor) \in Int /\ Position(c.start) \in Int
    <2>1. Byte \in Nat
        BY ConsoleAssumption
    <2>2. \A r \in Registers : Position(r) \in Int
        BY <2>1 DEF Registers, Position
    <2>3. QED
        BY <1>2, <2>2
<1>4. Position(c.cursor) - Position(c.start) = CellNo(c)
    BY <1>1, <1>2, <1>3
<1>5. \A i \in Places : 2 * (Position(c.start) + i) = c.screen + 2 * i
    <2>1. \A i \in Places : i \in Int
        BY Sizes DEF Places
    <2>2. QED
        BY <1>1, <1>3, <2>1
<1>6. QED
    BY <1>4, <1>5

\* What the controller shows are the cells of the screen.
LEMMA ShownIsScreen ==
    ConInv => /\ Shown = [i \in Places |-> Cell(con, i)]
              /\ Pointed = CellNo(con)
<1> SUFFICES ASSUME ConInv
             PROVE  /\ Shown = [i \in Places |-> Cell(con, i)]
                    /\ Pointed = CellNo(con)
    OBVIOUS
<1>1. /\ Position(con.cursor) - Position(con.start) = CellNo(con)
      /\ \A i \in Places : 2 * (Position(con.start) + i) = con.screen + 2 * i
    BY RegistersShow DEF ConInv
<1>2. \A i \in Places : Glyph(i) = Cell(con, i)
    BY <1>1 DEF Glyph, Cell
<1>3. QED
    BY <1>1, <1>2 DEF Shown, Pointed, Places

\* The same after a step.
LEMMA NextShown ==
    ConInv' => /\ Shown' = [i \in Places |-> Cell(con', i)]
               /\ Pointed' = CellNo(con')
<1> SUFFICES ASSUME ConInv'
             PROVE  /\ Shown' = [i \in Places |-> Cell(con', i)]
                    /\ Pointed' = CellNo(con')
    OBVIOUS
<1>1. /\ Position(con'.cursor) - Position(con'.start) = CellNo(con')
      /\ \A i \in Places : 2 * (Position(con'.start) + i) = con'.screen + 2 * i
    BY RegistersShow DEF ConInv
<1>2. \A i \in Places : Glyph(i)' = Cell(con', i)
    BY <1>1 DEF Glyph, Cell
<1>3. QED
    BY <1>1, <1>2 DEF Shown, Pointed, Places

\* The cleared console is a cleared terminal.
LEMMA InitTerminal == Init => Abstract!Init
<1> SUFFICES ASSUME Init PROVE Abstract!Init
    OBVIOUS
<1>1. con = console_clear /\ ConInv
    BY InitConsole DEF Init, console_init, ConsoleInv
<1>2. Shown = [i \in Places |-> Cell(con, i)] /\ Pointed = CellNo(con)
    BY <1>1, ShownIsScreen
<1>3. Shown = [i \in Places |-> Blank] /\ Pointed = 0
    BY <1>1, <1>2, Cleared
<1>4. Rest = <<>>
    BY DEF Init, Rest
<1>5. QED
    BY <1>3, <1>4 DEF Abstract!Init, Abstract!Cells, Abstract!Last, Places

\* What a character does to the screen, it does to that of the terminal.
LEMMA ScreenStep ==
    ASSUME ConInv, ConInv', NEW ch \in Ascii, ch # ASCII_NUL, Shows(con, ch, con')
    PROVE  Abstract!Shown(ch)
<1> DEFINE N == WIDTH * HEIGHT
           p == CellNo(con)
           q == CellNo(con')
           Before(i, g) ==
               \/ i < Pointed /\ g = Shown[i]
               \/ i = Pointed /\ g = IF ch = SPACE THEN Blank ELSE ch
               \/ i > Pointed /\ g \in {Shown[i], Blank}
<1>1. /\ Shown = [i \in Places |-> Cell(con, i)] /\ Pointed = p
      /\ Shown' = [i \in Places |-> Cell(con', i)] /\ Pointed' = q
    BY ShownIsScreen, NextShown
<1>2. Sane(con) /\ Sane(con')
    BY DEF ConInv
<1>3. /\ p \in Places /\ q \in Places /\ p % WIDTH = con.x /\ p \div WIDTH = con.y
      /\ (con.y = HEIGHT - 1 <=> p >= N - WIDTH)
    BY <1>2, PlaceOnScreen
<1>4. /\ WIDTH \in Nat \ {0, 1} /\ HEIGHT \in Nat \ {0} /\ N \in Nat /\ Places = 0 .. N - 1
      /\ con.x \in 0 .. WIDTH - 1 /\ con.y \in 0 .. HEIGHT - 1
    BY <1>2, PosInScreen, Sizes DEF Places
<1>5. /\ Abstract!Cells = Places /\ Abstract!Last = N - 1
      /\ Abstract!RowOf(Pointed) = con.y /\ Pointed % WIDTH = con.x
    BY <1>1, <1>3 DEF Abstract!Cells, Abstract!Last, Abstract!RowOf, Places
<1>6. Abstract!Below(Pointed) = IF con.y = HEIGHT - 1 THEN p ELSE p + WIDTH
    BY <1>1, <1>5 DEF Abstract!Below
<1>7. \A i \in Places : Shown[i] = Cell(con, i) /\ Shown'[i] = Cell(con', i)
    BY <1>1
<1> HIDE DEF p, q, N, Before
<1> USE DEF Nothing, Controls, ASCII_ENQ, ASCII_ESC, ASCII_BEL, ASCII_HT, ASCII_VT, ASCII_BS,
            ASCII_LF, ASCII_FF, ASCII_CR, ASCII_DEL, Abstract!Ignored, Abstract!NUL,
            Abstract!BS, Abstract!LF, Abstract!FF, Abstract!CR, Abstract!DEL
<1>8. CASE /\ ch \in Nothing \/ (ch = ASCII_BS /\ con.x = 0)
           /\ q = p /\ \A i \in Places : Cell(con', i) = Cell(con, i)
    <2>1. Shown' = Shown /\ Pointed' = Pointed
        BY <1>1, <1>8
    <2>2. UNCHANGED Abstract!screen
        BY <2>1 DEF Abstract!screen
    <2>3. CASE ch \in Nothing
        BY <2>2, <2>3 DEF Abstract!Shown
    <2>4. CASE ch = ASCII_BS /\ con.x = 0
        <3>1. Abstract!Backspace
            BY <1>5, <2>2, <2>4 DEF Abstract!Backspace
        <3>2. QED
            BY <2>4, <3>1 DEF Abstract!Shown
    <2>5. QED
        BY <1>8, <2>3, <2>4
<1>9. CASE ch \notin Controls /\ ch # ASCII_NUL /\ PutShows(con, ch, con')
    <2>1. Abstract!Put(ch)
        <3>0. ASSUME NEW i \in Places, NEW g, PutLeaves(con, ch, i, g)
              PROVE  Before(i, g)
            BY <1>1, <1>7, <3>0 DEF PutLeaves, Before, p
        <3>1. CASE con.x = WIDTH - 1 /\ con.y = HEIGHT - 1
            <4>1. /\ q = p - (WIDTH - 1)
                  /\ \A i \in Places : i >= WIDTH => PutLeaves(con, ch, i, Cell(con', i - WIDTH))
                  /\ \A i \in Places : i >= N - WIDTH => Cell(con', i) = Blank
                BY <1>9, <3>1 DEF PutShows, p, q, N
            <4>2. ASSUME NEW i \in Places, i >= WIDTH
                  PROVE  Before(i, Shown'[i - WIDTH])
                <5>1. i - WIDTH \in Places
                    BY <1>4, <4>2
                <5>2. Shown'[i - WIDTH] = Cell(con', i - WIDTH)
                    BY <1>7, <5>1
                <5>3. QED
                    BY <3>0, <4>1, <4>2, <5>2
            <4>3. ASSUME NEW i \in Places, i > Abstract!Last - WIDTH
                  PROVE  Shown'[i] = Blank
                <5>1. i >= N - WIDTH
                    BY <1>4, <1>5, <4>3
                <5>2. QED
                    BY <1>7, <4>1, <5>1
            <4>4. Pointed' = Abstract!Below(Pointed) - (WIDTH - 1)
                BY <1>1, <1>6, <3>1, <4>1
            <4>5. Abstract!RowOf(Pointed) = HEIGHT - 1 /\ Pointed % WIDTH = WIDTH - 1
                BY <1>5, <3>1
            <4>6. QED
                BY <1>5, <4>2, <4>3, <4>4, <4>5 DEF Abstract!Put, Abstract!Shifted, Abstract!SPACE, Before, SPACE
        <3>2. CASE ~(con.x = WIDTH - 1 /\ con.y = HEIGHT - 1)
            <4>1. q = p + 1 /\ \A i \in Places : PutLeaves(con, ch, i, Cell(con', i))
                BY <1>9, <3>2 DEF PutShows, p, q
            <4>2. \A i \in Places : Before(i, Shown'[i])
                BY <1>7, <3>0, <4>1
            <4>3. ~(Pointed % WIDTH = WIDTH - 1 /\ Abstract!RowOf(Pointed) = HEIGHT - 1)
                BY <1>5, <3>2
            <4>4. Pointed' = IF Pointed % WIDTH = WIDTH - 1
                             THEN Abstract!Below(Pointed) - (WIDTH - 1) ELSE Pointed + 1
                <5>1. p \in Int /\ WIDTH \in Int
                    BY <1>3, <1>4
                <5>2. (p + WIDTH) - (WIDTH - 1) = p + 1
                    BY <5>1
                <5>3. QED
                    BY <1>1, <1>5, <1>6, <3>2, <4>1, <5>2
            <4>5. QED
                BY <1>5, <4>2, <4>3, <4>4 DEF Abstract!Put, Abstract!Shifted, Abstract!SPACE, Before, SPACE
        <3>3. QED
            BY <3>1, <3>2
    <2>2. QED
        BY <1>9, <2>1 DEF Abstract!Shown, ASCII_NUL
<1>10. CASE FeedShows(con, ch, con')
    <2>1. PICK e : /\ Sane(e) /\ Fed(con, e)
                   /\ \/ ch = ASCII_LF /\ q = CellNo(e) - con.x
                      \/ ch = ASCII_FF /\ q = CellNo(e)
                   /\ \A i \in Places : Cell(con', i) = Cell(e, i)
        BY <1>10 DEF FeedShows, q
    <2> DEFINE column == IF ch = ASCII_LF THEN 0 ELSE con.x
    <2>2. Abstract!LineFeed(column)
        <3>1. CellNo(e) = Abstract!Below(Pointed) /\ CellNo(e) \in Int /\ con.x \in Int
            <4>1. CellNo(e) \in Places
                BY <2>1, PlaceOnScreen
            <4>2. QED
                BY <1>4, <1>6, <2>1, <4>1 DEF Fed, p
        <3>2. Pointed' = Abstract!Below(Pointed) - (Pointed % WIDTH) + column
            <4>1. q = CellNo(e) - con.x + column
                BY <2>1, <3>1
            <4>2. QED
                BY <1>1, <1>5, <3>1, <4>1
        <3> HIDE DEF column
        <3>3. CASE con.y = HEIGHT - 1
            <4>1. RowsUp(con, e)
                BY <2>1, <3>3 DEF Fed
            <4>2. ASSUME NEW i \in Places, i >= WIDTH
                  PROVE  Shown'[i - WIDTH] = Shown[i]
                <5> DEFINE j == i - WIDTH
                <5>1. j \in Places /\ j < N - WIDTH /\ j + WIDTH = i
                    BY <1>4, <4>2
                <5> HIDE DEF j
                <5>2. Cell(e, j) = Cell(con, i)
                    BY <4>1, <5>1 DEF RowsUp, N
                <5>3. Shown'[j] = Shown[i]
                    BY <1>7, <2>1, <5>1, <5>2
                <5>4. QED
                    BY <5>3 DEF j
            <4>3. ASSUME NEW i \in Places, i > Abstract!Last - WIDTH
                  PROVE  Shown'[i] = Blank
                <5>1. ~(i < N - WIDTH)
                    BY <1>4, <1>5, <4>3
                <5>2. Cell(e, i) = Blank
                    BY <4>1, <5>1 DEF RowsUp, N
                <5>3. QED
                    BY <1>7, <2>1, <5>2
            <4>4. Abstract!RowOf(Pointed) = HEIGHT - 1
                BY <1>5, <3>3
            <4>5. QED
                BY <1>5, <3>2, <4>2, <4>3, <4>4 DEF Abstract!LineFeed, Abstract!Shifted
        <3>4. CASE con.y # HEIGHT - 1
            <4>1. \A i \in Places : Shown'[i] = Shown[i]
                BY <1>7, <2>1, <3>4 DEF Fed
            <4>2. Abstract!RowOf(Pointed) # HEIGHT - 1
                BY <1>5, <3>4
            <4>3. QED
                BY <1>5, <3>2, <4>1, <4>2 DEF Abstract!LineFeed, Abstract!Shifted
        <3>5. QED
            BY <3>3, <3>4
    <2>3. CASE ch = ASCII_LF
        <3>1. Abstract!LineFeed(0)
            BY <2>2, <2>3
        <3>2. QED
            BY <2>3, <3>1 DEF Abstract!Shown
    <2>4. CASE ch = ASCII_FF
        <3>1. column = Pointed % WIDTH
            BY <1>5, <2>4
        <3> HIDE DEF column
        <3>2. Abstract!LineFeed(Pointed % WIDTH)
            BY <2>2, <3>1
        <3>3. QED
            BY <2>4, <3>2 DEF Abstract!Shown
    <2>5. QED
        BY <2>1, <2>3, <2>4
<1>11. CASE ch = ASCII_CR /\ q = p - con.x /\ \A i \in Places : Cell(con', i) = Cell(con, i)
    <2>1. Abstract!Return
        BY <1>1, <1>5, <1>11 DEF Abstract!Return
    <2>2. QED
        BY <1>11, <2>1 DEF Abstract!Shown
<1>12. CASE /\ \/ ch = ASCII_DEL /\ q = p
               \/ ch = ASCII_BS /\ con.x # 0 /\ q = p - 1
            /\ \A i \in Places : Cell(con', i) = IF i = q THEN Blank ELSE Cell(con, i)
    <2>1. Shown' = [Shown EXCEPT ![q] = Blank]
        BY <1>1, <1>12
    <2>2. CASE ch = ASCII_DEL /\ q = p
        <3>1. Abstract!Erase(Pointed)
            BY <1>1, <2>1, <2>2 DEF Abstract!Erase
        <3>2. QED
            BY <2>2, <3>1 DEF Abstract!Shown
    <2>3. CASE ch = ASCII_BS /\ con.x # 0 /\ q = p - 1
        <3>1. Abstract!Erase(Pointed - 1)
            BY <1>1, <2>1, <2>3 DEF Abstract!Erase
        <3>2. Pointed % WIDTH # 0
            BY <1>5, <2>3
        <3>3. Abstract!Backspace
            BY <3>1, <3>2 DEF Abstract!Backspace
        <3>4. QED
            BY <2>3, <3>3 DEF Abstract!Shown
    <2>4. QED
        BY <1>12, <2>2, <2>3
<1>13. \/ /\ ch \in Nothing \/ (ch = ASCII_BS /\ con.x = 0)
          /\ q = p /\ \A i \in Places : Cell(con', i) = Cell(con, i)
       \/ ch \notin Controls /\ PutShows(con, ch, con')
       \/ FeedShows(con, ch, con')
       \/ ch = ASCII_CR /\ q = p - con.x /\ \A i \in Places : Cell(con', i) = Cell(con, i)
       \/ /\ \/ ch = ASCII_DEL /\ q = p
             \/ ch = ASCII_BS /\ con.x # 0 /\ q = p - 1
          /\ \A i \in Places : Cell(con', i) = IF i = q THEN Blank ELSE Cell(con, i)
    BY Zenon DEF Shows, p, q
<1>14. ch # ASCII_NUL
    OBVIOUS
<1>15. QED
    BY <1>8, <1>9, <1>10, <1>11, <1>12, <1>13, <1>14, Zenon

\* What a step does to the console, it does to the terminal.
TerminalMoves == Abstract!Next \/ UNCHANGED <<Shown, Pointed, Rest>>

\* A text that is given to the console is one that is given to the terminal, and a
\* character does to the screen what it does to that of the terminal.
LEMMA TerminalStep ==
    ASSUME ConInv, ConInv', Moves
    PROVE  TerminalMoves
<1>1. ASSUME con' = con
      PROVE  Shown' = Shown /\ Pointed' = Pointed
    BY <1>1, ShownIsScreen, NextShown
<1>2. CASE TextGiven
    <2>1. Abstract!Send
        BY <1>1, <1>2 DEF TextGiven, Abstract!Send, Abstract!screen
    <2>2. QED
        BY <2>1 DEF TerminalMoves, Abstract!Next
<1>3. CASE CharacterShown
    <2> DEFINE ch == Head(Rest)
    <2>1. /\ Rest # <<>> /\ ch \in Ascii
          /\ IF ch = ASCII_NUL THEN con' = con ELSE Shows(con, ch, con')
          /\ Rest' = IF ch = ASCII_NUL THEN <<>> ELSE Tail(Rest)
        BY <1>3 DEF CharacterShown
    <2>2. Abstract!Shown(ch)
        <3> HIDE DEF ch
        <3>1. CASE ch = ASCII_NUL
            <4>1. UNCHANGED Abstract!screen
                BY <1>1, <2>1, <3>1 DEF Abstract!screen
            <4>2. QED
                BY <3>1, <4>1 DEF Abstract!Shown, Abstract!Ignored, Abstract!NUL, Abstract!BS,
                    Abstract!LF, Abstract!FF, Abstract!CR, Abstract!DEL, ASCII_NUL
        <3>2. CASE ch # ASCII_NUL
            BY <2>1, <3>2, ScreenStep
        <3>3. QED
            BY <3>1, <3>2
    <2>3. Abstract!Type
        BY <2>1, <2>2, Zenon DEF Abstract!Type, Abstract!NUL, ASCII_NUL
    <2>4. QED
        BY <2>3 DEF TerminalMoves, Abstract!Next
<1>4. CASE con' = con /\ Rest' = Rest
    BY <1>1, <1>4 DEF TerminalMoves
<1>5. QED
    BY <1>2, <1>3, <1>4 DEF Moves

\* What the console does to the screen is what a terminal does with the characters of the
\* text, one after the other: each of them appears at the cursor or moves it as Terminal
\* says for that character, and the four variables, the copying down of the video memory
\* and the registers of the controller amount to a screen that loses its first row when
\* it is full (console_write, scroll_up).
THEOREM ConsoleIsTerminal == Spec => ScreenAsTerminal
<1>1. Init => Abstract!Init
    BY InitTerminal
<1>2. ConsoleInv /\ ConsoleInv' /\ [Next]_vars => TerminalMoves
    BY ConsoleStep, TerminalStep DEF ConsoleInv
<1>3. TerminalMoves => [Abstract!Next]_<<Shown, Pointed, Rest>>
    BY DEF TerminalMoves
<1>4. QED
    BY <1>1, <1>2, <1>3, ConsoleInvariance, PTL DEF Spec, ScreenAsTerminal, Abstract!Spec

(***************************************************************************)
(* Digits                                                                  *)
(***************************************************************************)

\* The bases of the conversions.
Bases == {2, 8, 10, 16}

\* The characters of a field that are not digits.
Signs == {SPACE, PLUS, MINUS, POINT, COLON}

\* A character stands for one digit only, and for no sign.
LEMMA DigitCharIs ==
    ASSUME NEW base \in Bases, NEW d \in 0 .. base - 1, NEW flags
    PROVE  /\ DigitChar(d, flags) \in Nat \ Signs
           /\ DigitChar(d, flags) = ZERO <=> d = 0
           /\ (CHOOSE e \in 0 .. base - 1 :
                  DigitChar(d, flags) \in {DigitChar(e, {}), DigitChar(e, {"SMALL"})}) = d
<1>1. d \in 0 .. 15 /\ \A e \in 0 .. base - 1 : e \in 0 .. 15
    BY DEF Bases
<1>2. \A e \in 0 .. 15 :
        /\ DigitChar(e, {}) = IF e < 10 THEN 48 + e ELSE 55 + e
        /\ DigitChar(e, {"SMALL"}) = IF e < 10 THEN 48 + e ELSE 87 + e
    BY DEF DigitChar, ZERO
<1>3. DigitChar(d, flags) \in {DigitChar(d, {}), DigitChar(d, {"SMALL"})}
    BY <1>1 DEF DigitChar, ZERO
<1>4. \A e \in 0 .. base - 1 :
        DigitChar(d, flags) \in {DigitChar(e, {}), DigitChar(e, {"SMALL"})} => e = d
    BY <1>1, <1>2, <1>3
<1>5. (CHOOSE e \in 0 .. base - 1 :
          DigitChar(d, flags) \in {DigitChar(e, {}), DigitChar(e, {"SMALL"})}) = d
    BY <1>3, <1>4
<1>6. QED
    BY <1>1, <1>2, <1>3, <1>5 DEF Signs, SPACE, PLUS, MINUS, POINT, COLON, ZERO

\* One turn of the loop of number.
LEMMA Quotient ==
    ASSUME NEW base \in Bases, NEW q \in Nat
    PROVE  /\ q \div base \in Nat /\ q % base \in 0 .. base - 1
           /\ q = (q \div base) * base + (q % base)
           /\ q # 0 => q \div base < q
<1>1. base \in Nat \ {0, 1}
    BY DEF Bases
<1>2. /\ q \div base \in Nat /\ q % base \in 0 .. base - 1
      /\ q = (q \div base) * base + (q % base)
    <2>1. q \in Int
        OBVIOUS
    <2>2. /\ q \div base \in Int /\ q % base \in 0 .. base - 1
          /\ q = (q \div base) * base + (q % base)
          /\ q \in Nat => q \div base \in Nat
        BY <1>1, <2>1, Division
    <2>3. QED
        BY <2>2
<1>3. CASE base = 2
    BY <1>2, <1>3
<1>4. CASE base = 8
    BY <1>2, <1>4
<1>5. CASE base = 10
    BY <1>2, <1>5
<1>6. CASE base = 16
    BY <1>2, <1>6
<1>7. QED
    BY <1>3, <1>4, <1>5, <1>6 DEF Bases

\* A function that is defined by recursion satisfies its definition.
HasRecursion(S, b, n, g) ==
    \E f \in [0 .. n -> S] : f = [i \in 0 .. n |-> IF i = 0 THEN b ELSE g[<<f[i - 1], i>>]]

\* Recursion over the numbers up to n, in the form in which TLA+ writes it.
LEMMA RecursiveRun ==
    ASSUME NEW S, NEW b, NEW n, NEW g, b \in S, n \in Nat, StepsIn(S, n, g)
    PROVE  HasRecursion(S, b, n, g)
<1>1. PICK f \in [0 .. n -> S] :
          f[0] = b /\ \A i \in 1 .. n : f[i] = g[<<f[i - 1], i>>]
    <2>1. HasRun(S, b, n, g)
        BY Recursion
    <2>2. QED
        BY <2>1 DEF HasRun
<1>2. \A i \in 0 .. n : f[i] = IF i = 0 THEN b ELSE g[<<f[i - 1], i>>]
    <2>1. \A i \in 0 .. n : i = 0 \/ i \in 1 .. n
        OBVIOUS
    <2>2. QED
        BY <1>1, <2>1
<1>3. f = [i \in 0 .. n |-> IF i = 0 THEN b ELSE g[<<f[i - 1], i>>]]
    BY <1>2
<1>4. QED
    BY <1>3 DEF HasRecursion

\* What is left of a number after i turns.
LeftOf(num, base) == CHOOSE left :
    left = [i \in 0 .. num + 1 |-> IF i = 0 THEN num ELSE left[i - 1] \div base]

\* The loop of number divides what is left by the base in each turn.
LEMMA LeftSteps ==
    ASSUME NEW num \in Nat, NEW base \in Bases
    PROVE  /\ LeftOf(num, base) \in [0 .. num + 1 -> Nat]
           /\ LeftOf(num, base)[0] = num
           /\ \A i \in 1 .. num + 1 : LeftOf(num, base)[i] = LeftOf(num, base)[i - 1] \div base
<1> DEFINE n == num + 1
           g == [p \in Nat \X (1 .. n) |-> p[1] \div base]
           Is(f) == f = [i \in 0 .. n |-> IF i = 0 THEN num ELSE f[i - 1] \div base]
<1>1. \A q \in Nat, i \in 1 .. n : g[<<q, i>>] = q \div base /\ g[<<q, i>>] \in Nat
    BY Quotient
<1>2. n \in Nat
    OBVIOUS
<1> HIDE DEF n, g
<1>3. PICK f \in [0 .. n -> Nat] :
          f = [i \in 0 .. n |-> IF i = 0 THEN num ELSE g[<<f[i - 1], i>>]]
    <2>1. StepsIn(Nat, n, g)
        BY <1>1 DEF StepsIn
    <2>2. HasRecursion(Nat, num, n, g)
        BY <1>2, <2>1, RecursiveRun
    <2>3. QED
        BY <2>2 DEF HasRecursion
<1>4. \A i \in 0 .. n : f[i] = IF i = 0 THEN num ELSE f[i - 1] \div base
    <2>1. ASSUME NEW i \in 0 .. n, i # 0 PROVE f[i] = f[i - 1] \div base
        <3>1. i \in 1 .. n /\ i - 1 \in 0 .. n
            BY <1>2, <2>1
        <3>2. f[i] = g[<<f[i - 1], i>>] /\ f[i - 1] \in Nat
            BY <1>3, <2>1, <3>1
        <3>3. QED
            BY <1>1, <3>1, <3>2
    <2>2. 0 \in 0 .. n /\ f[0] = num
        BY <1>2, <1>3
    <2>3. QED
        BY <2>1, <2>2
<1>5. Is(f)
    BY <1>3, <1>4
<1>6. Is(LeftOf(num, base))
    <2>1. LeftOf(num, base) = CHOOSE left : Is(left)
        BY DEF LeftOf, n
    <2> HIDE DEF Is
    <2>2. QED
        BY <1>5, <2>1
<1>7. ASSUME NEW h, Is(h)
      PROVE  h \in [0 .. n -> Nat] /\ h[0] = num /\ \A i \in 1 .. n : h[i] = h[i - 1] \div base
    <2> DEFINE T == {i \in Nat : i <= n => h[i] \in Nat}
    <2>1. \A i \in 0 .. n : h[i] = IF i = 0 THEN num ELSE h[i - 1] \div base
        BY <1>7
    <2>2. 0 \in T
        BY <1>2, <2>1
    <2>3. ASSUME NEW i \in Nat, i \in T PROVE i + 1 \in T
        <3>1. i + 1 <= n => i + 1 \in 0 .. n /\ i + 1 # 0 /\ i + 1 - 1 = i /\ i <= n
            BY <1>2
        <3>2. ASSUME i + 1 <= n PROVE h[i + 1] \in Nat
            <4>1. h[i] \in Nat /\ h[i + 1] = h[i] \div base
                BY <2>1, <2>3, <3>1, <3>2
            <4>2. QED
                BY <4>1, Quotient
        <3>3. QED
            BY <3>2
    <2> HIDE DEF T
    <2>4. \A i \in Nat : i \in T
        BY <2>2, <2>3, SetInduction
    <2>5. \A i \in 0 .. n : h[i] \in Nat
        BY <1>2, <2>4 DEF T
    <2>6. \A i \in 1 .. n : i \in 0 .. n /\ i # 0
        BY <1>2
    <2>7. h \in [0 .. n -> Nat]
        BY <1>7, <2>5
    <2>8. 0 \in 0 .. n
        BY <1>2
    <2>9. QED
        BY <2>1, <2>6, <2>7, <2>8
<1>8. QED
    <2> HIDE DEF Is
    <2>1. QED
        BY <1>6, <1>7 DEF n

\* The digits d, read from the left through the values v, spell a number.
Spelling(text, num, base, flags, v, d) ==
    /\ v \in [0 .. Len(text) -> Nat] /\ d \in [1 .. Len(text) -> 0 .. base - 1]
    /\ v[0] = 0 /\ v[Len(text)] = num
    /\ \A i \in 1 .. Len(text) :
          v[i] = v[i - 1] * base + d[i] /\ text[i] = DigitChar(d[i], flags)

Spells(text, num, base, flags) ==
    text \in Seq(Int) /\ \E v, d : Spelling(text, num, base, flags, v, d)

\* Nothing but a zero by itself starts with one.
Proper(text) == text # <<>> /\ (text[1] = ZERO => Len(text) = 1)

\* A function on the numbers from 1 on is a text.
LEMMA FunctionIsText ==
    ASSUME NEW S, NEW n \in Nat, NEW f \in [1 .. n -> S]
    PROVE  f \in Seq(S) /\ Len(f) = n
OBVIOUS

\* The loop ends, and the first time that nothing is left.
LEMMA LeftEnds ==
    ASSUME NEW num \in Nat, NEW base \in Bases
    PROVE  \E n \in 1 .. num + 1 :
              LeftOf(num, base)[n] = 0 /\ \A j \in 1 .. n - 1 : LeftOf(num, base)[j] # 0
<1> DEFINE left == LeftOf(num, base)
           T == {i \in Nat : i <= num + 1 => left[i] = 0 \/ left[i] + i <= num}
           Z == {i \in 1 .. num + 1 : left[i] = 0}
<1>1. /\ left \in [0 .. num + 1 -> Nat] /\ left[0] = num
      /\ \A i \in 1 .. num + 1 : left[i] = left[i - 1] \div base
    BY LeftSteps
<1> HIDE DEF left
<1>2. 0 \in T
    BY <1>1
<1>3. ASSUME NEW i \in Nat, i \in T PROVE i + 1 \in T
    <2>1. SUFFICES ASSUME i + 1 <= num + 1 PROVE left[i + 1] = 0 \/ left[i + 1] + (i + 1) <= num
        OBVIOUS
    <2>2. i \in 0 .. num + 1 /\ i + 1 \in 1 .. num + 1 /\ i + 1 - 1 = i
        BY <2>1
    <2>3. left[i] \in Nat /\ left[i + 1] = left[i] \div base /\ (left[i] = 0 \/ left[i] + i <= num)
        BY <1>1, <1>3, <2>2
    <2>4. left[i] # 0 => left[i + 1] \in Nat /\ left[i + 1] < left[i]
        BY <2>3, Quotient
    <2>5. left[i] = 0 => left[i + 1] = 0
        BY <2>3 DEF Bases
    <2>6. QED
        BY <2>3, <2>4, <2>5
<1>4. num + 1 \in T
    <2> HIDE DEF T
    <2>1. \A i \in Nat : i \in T
        BY <1>2, <1>3, SetInduction
    <2>2. QED
        BY <2>1
<1>5. left[num + 1] \in Nat
    BY <1>1
<1>6. Z \subseteq Nat /\ num + 1 \in Z
    BY <1>4, <1>5
<1>7. Min(Z) \in Z /\ \A y \in Z : Min(Z) <= y
    BY <1>6, MinOfNats
<1>8. PICK n \in Z : \A y \in Z : n <= y
    BY <1>7
<1>9. \A j \in 1 .. n - 1 : left[j] # 0
    BY <1>8
<1>10. QED
    BY <1>8, <1>9 DEF left

\* The digits that the loop of number writes spell the number, without a leading
\* zero.
LEMMA DigitsSpell ==
    ASSUME NEW num \in Nat, NEW base \in Bases, NEW flags
    PROVE  /\ Spells(Digits(num, base, flags), num, base, flags)
           /\ Proper(Digits(num, base, flags))
<1> DEFINE left == LeftOf(num, base)
           First(i) == i \in 1 .. num + 1 /\ left[i] = 0 /\ \A j \in 1 .. i - 1 : left[j] # 0
           n == CHOOSE i \in 1 .. num + 1 : left[i] = 0 /\ \A j \in 1 .. i - 1 : left[j] # 0
           text == Digits(num, base, flags)
           v == [k \in 0 .. n |-> left[n - k]]
           d == [k \in 1 .. n |-> left[n - k] % base]
<1>1. /\ left \in [0 .. num + 1 -> Nat] /\ left[0] = num
      /\ \A i \in 1 .. num + 1 : left[i] = left[i - 1] \div base
    BY LeftSteps
<1>2. text = [i \in 1 .. n |-> DigitChar(left[n - i] % base, flags)]
    BY DEF Digits, LeftOf
<1>3. First(n)
    BY LeftEnds
<1>4. base \in Nat \ {0, 1}
    BY DEF Bases
<1> HIDE DEF left, n, text
<1>5. n \in Nat /\ n >= 1 /\ n <= num + 1
    BY <1>3
<1>6. ASSUME NEW k \in 0 .. n PROVE left[n - k] \in Nat
    BY <1>1, <1>5
<1>7. v \in [0 .. n -> Nat] /\ v[0] = 0 /\ v[n] = num
    <2>1. n - n = 0 /\ n - 0 = n /\ n \in 0 .. n /\ 0 \in 0 .. n
        BY <1>5
    <2>2. QED
        BY <1>1, <1>3, <1>6, <2>1
<1>8. ASSUME NEW k \in 1 .. n
      PROVE  /\ left[n - k] % base \in 0 .. base - 1
             /\ v[k] = v[k - 1] * base + d[k] /\ v[k - 1] = v[k] \div base
             /\ text[k] = DigitChar(d[k], flags)
             /\ text[k] \in Int
             /\ text[k] = ZERO <=> d[k] = 0
    <2>1. k \in 0 .. n /\ k - 1 \in 0 .. n /\ n - (k - 1) = (n - k) + 1 /\ n - k \in Nat
          /\ (n - k) + 1 \in 1 .. num + 1 /\ (n - k) + 1 - 1 = n - k
        BY <1>5
    <2>2. left[n - k] \in Nat /\ left[n - (k - 1)] = left[n - k] \div base
        BY <1>1, <1>6, <2>1
    <2>3. /\ left[n - k] % base \in 0 .. base - 1
          /\ left[n - k] = (left[n - k] \div base) * base + (left[n - k] % base)
        BY <2>2, Quotient
    <2>4. v[k] = left[n - k] /\ v[k - 1] = left[n - (k - 1)] /\ d[k] = left[n - k] % base
        BY <2>1
    <2>5. text[k] = DigitChar(d[k], flags)
        BY <1>2, <2>4
    <2>6. DigitChar(d[k], flags) \in Int /\ (DigitChar(d[k], flags) = ZERO <=> d[k] = 0)
        BY <2>3, <2>4, DigitCharIs
    <2>7. QED
        BY <2>2, <2>3, <2>4, <2>5, <2>6
<1>9. d \in [1 .. n -> 0 .. base - 1]
    BY <1>8
<1>10. text \in Seq(Int) /\ Len(text) = n /\ text # <<>>
    <2>1. text = [i \in 1 .. n |-> text[i]]
        BY <1>2
    <2>2. QED
        <3>1. text \in [1 .. n -> Int]
            BY <1>8, <2>1
        <3>2. text \in Seq(Int) /\ Len(text) = n
            BY <1>5, <3>1, FunctionIsText
        <3>3. QED
            BY <1>5, <3>2
<1>11. Spelling(text, num, base, flags, v, d)
    <2> HIDE DEF v, d
    <2>1. QED
        BY <1>7, <1>8, <1>9, <1>10 DEF Spelling
<1>12. text[1] = ZERO => n = 1
    <2>1. SUFFICES ASSUME text[1] = ZERO, n # 1 PROVE FALSE
        OBVIOUS
    <2>2. 1 \in 1 .. n /\ n - 1 \in 1 .. n - 1 /\ 1 - 1 = 0 /\ 1 \in 0 .. n
        BY <1>5, <2>1
    <2>3. left[n - 1] # 0 /\ v[1] = left[n - 1]
        BY <1>3, <2>2
    <2>4. d[1] = 0 /\ v[1] = v[0] * base + d[1] /\ v[0] = 0
        BY <1>7, <1>8, <2>1, <2>2
    <2>5. 0 * base = 0
        BY <1>4
    <2>6. QED
        BY <2>3, <2>4, <2>5
<1>13. QED
    BY <1>10, <1>11, <1>12 DEF Spells, Proper, text

\* The padding with zeros.
Zeros(n) == [i \in 1 .. n |-> ZERO]

\* Two runs of the same recursion agree.
Agree(f, h, n) == \A i \in 0 .. n : f[i] = h[i]
Follows(f, h, n) == f[0] = h[0] /\ \A i \in 1 .. n : f[i - 1] = h[i - 1] => f[i] = h[i]

\* What follows a recursion from its start on agrees with it.
LEMMA SameRun ==
    ASSUME NEW n, NEW f, NEW h, n \in Nat, Follows(f, h, n)
    PROVE  Agree(f, h, n)
<1> DEFINE T == {i \in Nat : i <= n => f[i] = h[i]}
<1>1. 0 \in T
    BY DEF Follows
<1>2. ASSUME NEW i \in Nat, i \in T PROVE i + 1 \in T
    <2>1. i + 1 <= n => i + 1 \in 1 .. n /\ i + 1 - 1 = i /\ i <= n
        OBVIOUS
    <2>2. QED
        BY <1>2, <2>1 DEF Follows
<1> HIDE DEF T
<1>3. \A i \in Nat : i \in T
    BY <1>1, <1>2, SetInduction
<1>4. QED
    BY <1>3 DEF T, Agree

\* The digits of a number are neither signs nor separators.
LEMMA SpelledCharacters ==
    ASSUME NEW num, NEW base \in Bases, NEW flags, NEW text, Spells(text, num, base, flags)
    PROVE  text \in Seq(Int) /\ num \in Nat /\ \A i \in 1 .. Len(text) : text[i] \notin Signs
<1>1. PICK v, d : Spelling(text, num, base, flags, v, d)
    BY DEF Spells
<1>2. text \in Seq(Int) /\ Len(text) \in 0 .. Len(text)
    BY DEF Spells
<1>3. num \in Nat
    BY <1>1, <1>2 DEF Spelling
<1>4. ASSUME NEW i \in 1 .. Len(text) PROVE text[i] \notin Signs
    <2>1. d[i] \in 0 .. base - 1 /\ text[i] = DigitChar(d[i], flags)
        BY <1>1 DEF Spelling
    <2>2. QED
        BY <2>1, DigitCharIs
<1>5. QED
    BY <1>2, <1>3, <1>4

\* What is spelled is what is read.
LEMMA ReadSpelled ==
    ASSUME NEW num, NEW base \in Bases, NEW flags, NEW text, Spells(text, num, base, flags)
    PROVE  Read(text, base) = num
<1> DEFINE n == Len(text)
           Value(ch) == CHOOSE e \in 0 .. base - 1 :
                            ch \in {DigitChar(e, {}), DigitChar(e, {"SMALL"})}
           Is(f) == f = [i \in 0 .. n |-> IF i = 0 THEN 0 ELSE f[i - 1] * base + Value(text[i])]
           read == CHOOSE f : Is(f)
<1>1. PICK v, d : Spelling(text, num, base, flags, v, d)
    BY DEF Spells
<1>2. n \in Nat
    BY DEF Spells
<1>3. ASSUME NEW i \in 1 .. n PROVE Value(text[i]) = d[i]
    <2>1. d[i] \in 0 .. base - 1 /\ text[i] = DigitChar(d[i], flags)
        BY <1>1 DEF Spelling
    <2>2. QED
        BY <2>1, DigitCharIs
<1>4. Read(text, base) = read[n]
    BY DEF Read
<1> HIDE DEF n, Value
<1>5. v = [i \in 0 .. n |-> v[i]] /\ v[0] = 0 /\ v[n] = num
      /\ \A i \in 1 .. n : v[i] = v[i - 1] * base + d[i]
    BY <1>1 DEF Spelling, n
<1>6. Is(v)
    <2>1. \A i \in 0 .. n : v[i] = IF i = 0 THEN 0 ELSE v[i - 1] * base + Value(text[i])
        <3>1. \A i \in 0 .. n : i = 0 \/ i \in 1 .. n
            BY <1>2
        <3>2. \A i \in 1 .. n : v[i] = v[i - 1] * base + Value(text[i])
            BY <1>3, <1>5
        <3>3. QED
            BY <1>5, <3>1, <3>2
    <2>2. QED
        BY <1>5, <2>1
<1>7. Is(read)
    <2> HIDE DEF Is
    <2>1. QED
        BY <1>6
<1> HIDE DEF read
<1>8. \A i \in 0 .. n : read[i] = v[i]
    <2>1. \A i \in 0 .. n : read[i] = IF i = 0 THEN 0 ELSE read[i - 1] * base + Value(text[i])
        BY <1>7
    <2>2. read[0] = v[0]
        BY <1>2, <1>5, <2>1
    <2>3. ASSUME NEW i \in 1 .. n, read[i - 1] = v[i - 1] PROVE read[i] = v[i]
        <3>1. i \in 0 .. n /\ i # 0
            BY <1>2
        <3>2. read[i] = read[i - 1] * base + Value(text[i])
            BY <2>1, <3>1
        <3>3. QED
            BY <1>3, <1>5, <2>3, <3>2
    <2>4. Follows(read, v, n)
        BY <2>2, <2>3 DEF Follows
    <2>5. Agree(read, v, n)
        BY <1>2, <2>4, SameRun
    <2>6. QED
        BY <2>5 DEF Agree
<1>9. QED
    BY <1>2, <1>4, <1>5, <1>8

\* Zeros in front do not change what is spelled.
LEMMA ZerosSpell ==
    ASSUME NEW num, NEW base \in Bases, NEW flags, NEW text, Spells(text, num, base, flags),
           NEW k \in Nat
    PROVE  Spells(Zeros(k) \o text, num, base, flags)
<1> DEFINE n == Len(text)
           s == Zeros(k) \o text
           w(v) == [i \in 0 .. k + n |-> IF i <= k THEN 0 ELSE v[i - k]]
           e(d) == [i \in 1 .. k + n |-> IF i <= k THEN 0 ELSE d[i - k]]
<1>1. PICK v, d : Spelling(text, num, base, flags, v, d)
    BY DEF Spells
<1>2. text \in Seq(Int) /\ n \in Nat /\ base \in Nat \ {0, 1}
    BY DEF Spells, Bases
<1>3. Zeros(k) \in Seq(Int) /\ Len(Zeros(k)) = k
    BY DEF Zeros, ZERO
<1>4. s \in Seq(Int) /\ Len(s) = k + n
      /\ \A i \in 1 .. k + n : s[i] = IF i <= k THEN ZERO ELSE text[i - k]
    <2>1. s \in Seq(Int) /\ Len(s) = k + n
        BY <1>2, <1>3
    <2>2. \A i \in 1 .. k + n : s[i] = IF i <= k THEN Zeros(k)[i] ELSE text[i - k]
        BY <1>2, <1>3
    <2>3. ASSUME NEW i \in 1 .. k + n PROVE s[i] = IF i <= k THEN ZERO ELSE text[i - k]
        <3>1. i <= k => i \in 1 .. k
            BY <1>2
        <3>2. i <= k => Zeros(k)[i] = ZERO
            BY <3>1 DEF Zeros
        <3>3. QED
            BY <2>2, <3>2
    <2>4. QED
        BY <2>1, <2>3
<1> HIDE DEF s, n
<1>5. /\ v \in [0 .. n -> Nat] /\ d \in [1 .. n -> 0 .. base - 1]
      /\ v[0] = 0 /\ v[n] = num
      /\ \A i \in 1 .. n : v[i] = v[i - 1] * base + d[i] /\ text[i] = DigitChar(d[i], flags)
    BY <1>1 DEF Spelling, n
<1>6. w(v) \in [0 .. k + n -> Nat] /\ w(v)[0] = 0 /\ w(v)[k + n] = num
    <2>1. ASSUME NEW i \in 0 .. k + n PROVE IF i <= k THEN TRUE ELSE v[i - k] \in Nat
        BY <1>2, <1>5
    <2>2. w(v) \in [0 .. k + n -> Nat]
        BY <2>1
    <2>3. w(v)[k + n] = num
        BY <1>2, <1>5
    <2>4. 0 \in 0 .. k + n /\ w(v)[0] = 0
        BY <1>2
    <2>5. QED
        BY <2>2, <2>3, <2>4
<1>7. e(d) \in [1 .. k + n -> 0 .. base - 1]
    <2>1. ASSUME NEW i \in 1 .. k + n PROVE (IF i <= k THEN 0 ELSE d[i - k]) \in 0 .. base - 1
        BY <1>2, <1>5
    <2>2. QED
        BY <2>1
<1>8. ASSUME NEW i \in 1 .. k + n
      PROVE  w(v)[i] = w(v)[i - 1] * base + e(d)[i] /\ s[i] = DigitChar(e(d)[i], flags)
    <2>1. i \in 0 .. k + n /\ i - 1 \in 0 .. k + n
        BY <1>2
    <2>2. CASE i <= k
        <3>1. w(v)[i] = 0 /\ w(v)[i - 1] = 0 /\ e(d)[i] = 0 /\ s[i] = ZERO
            BY <1>4, <2>1, <2>2
        <3>2. 0 * base = 0 /\ DigitChar(0, flags) = ZERO
            BY <1>2 DEF DigitChar, ZERO
        <3>3. QED
            BY <3>1, <3>2
    <2>3. CASE i > k
        <3>1. i - k \in 1 .. n /\ (i - k) - 1 = (i - 1) - k
            BY <1>2, <2>3
        <3>2. w(v)[i - 1] = v[(i - k) - 1]
            BY <1>5, <2>1, <2>3, <3>1
        <3>3. w(v)[i] = v[i - k] /\ e(d)[i] = d[i - k] /\ s[i] = text[i - k]
            BY <1>4, <2>1, <2>3
        <3>4. QED
            BY <1>5, <3>1, <3>2, <3>3
    <2>4. QED
        BY <2>2, <2>3
<1>9. Spelling(s, num, base, flags, w(v), e(d))
    <2> HIDE DEF w, e
    <2>1. QED
        BY <1>4, <1>6, <1>7, <1>8 DEF Spelling
<1>10. QED
    BY <1>4, <1>9 DEF Spells, s

(***************************************************************************)
(* Powers of ten                                                           *)
(***************************************************************************)

\* The function in TenTo.
PowerOf(n) == CHOOSE power : power = [i \in 0 .. n |-> IF i = 0 THEN 1 ELSE 10 * power[i - 1]]

\* Its values are what the recursion says.
LEMMA PowerSteps ==
    ASSUME NEW n \in Nat
    PROVE  /\ PowerOf(n)[0] = 1
           /\ \A i \in 1 .. n : PowerOf(n)[i] = 10 * PowerOf(n)[i - 1]
           /\ \A i \in 0 .. n : PowerOf(n)[i] \in Nat \ {0}
<1> DEFINE g == [p \in (Nat \ {0}) \X (1 .. n) |-> 10 * p[1]]
           Is(f) == f = [i \in 0 .. n |-> IF i = 0 THEN 1 ELSE 10 * f[i - 1]]
<1>1. \A q \in Nat \ {0}, i \in 1 .. n : g[<<q, i>>] = 10 * q /\ g[<<q, i>>] \in Nat \ {0}
    OBVIOUS
<1> HIDE DEF g
<1>2. PICK f \in [0 .. n -> Nat \ {0}] :
          f = [i \in 0 .. n |-> IF i = 0 THEN 1 ELSE g[<<f[i - 1], i>>]]
    <2>1. StepsIn(Nat \ {0}, n, g)
        BY <1>1 DEF StepsIn
    <2>2. HasRecursion(Nat \ {0}, 1, n, g)
        BY <2>1, RecursiveRun
    <2>3. QED
        BY <2>2 DEF HasRecursion
<1>3. \A i \in 0 .. n : f[i] = IF i = 0 THEN 1 ELSE 10 * f[i - 1]
    <2>1. ASSUME NEW i \in 0 .. n, i # 0 PROVE f[i] = 10 * f[i - 1]
        <3>1. i \in 1 .. n /\ i - 1 \in 0 .. n
            BY <2>1
        <3>2. f[i] = g[<<f[i - 1], i>>] /\ f[i - 1] \in Nat \ {0}
            BY <1>2, <2>1, <3>1
        <3>3. QED
            BY <1>1, <3>1, <3>2
    <2>2. 0 \in 0 .. n /\ f[0] = 1
        BY <1>2
    <2>3. QED
        BY <2>1, <2>2
<1>4. Is(f)
    BY <1>2, <1>3
<1>5. Is(PowerOf(n))
    <2>1. PowerOf(n) = CHOOSE h : Is(h)
        BY DEF PowerOf
    <2> HIDE DEF Is
    <2>2. QED
        BY <1>4, <2>1
<1>6. \A i \in 0 .. n : PowerOf(n)[i] = IF i = 0 THEN 1 ELSE 10 * PowerOf(n)[i - 1]
    BY <1>5
<1>7. PowerOf(n)[0] = 1 /\ \A i \in 1 .. n : PowerOf(n)[i] = 10 * PowerOf(n)[i - 1]
    <2>1. 0 \in 0 .. n /\ \A i \in 1 .. n : i \in 0 .. n /\ i # 0
        OBVIOUS
    <2>2. QED
        BY <1>6, <2>1
<1>8. PICK h : /\ h[0] = 1 /\ \A i \in 1 .. n : h[i] = 10 * h[i - 1]
               /\ \A i \in 0 .. n : h[i] \in Nat \ {0}
    <2>1. f[0] = 1 /\ \A i \in 1 .. n : f[i] = 10 * f[i - 1]
        <3>1. \A i \in 1 .. n : i \in 0 .. n /\ i # 0
            OBVIOUS
        <3>2. QED
            BY <1>3, <3>1
    <2>2. QED
        BY <1>2, <2>1
<1>9. \A i \in 0 .. n : PowerOf(n)[i] = h[i]
    <2>1. Follows(PowerOf(n), h, n)
        BY <1>7, <1>8 DEF Follows
    <2>2. Agree(PowerOf(n), h, n)
        BY <2>1, SameRun
    <2>3. QED
        BY <2>2 DEF Agree
<1>10. QED
    BY <1>7, <1>8, <1>9

\* TenTo(n) is the power of ten, for every n.
LEMMA TenToSteps ==
    /\ TenTo(0) = 1
    /\ \A n \in Nat : TenTo(n) \in Nat \ {0} /\ TenTo(n + 1) = 10 * TenTo(n)
<1>1. ASSUME NEW n \in Nat PROVE TenTo(n) = PowerOf(n)[n]
    BY DEF TenTo, PowerOf
<1>2. TenTo(0) = 1
    BY <1>1, PowerSteps
<1>3. ASSUME NEW n \in Nat PROVE TenTo(n) \in Nat \ {0} /\ TenTo(n + 1) = 10 * TenTo(n)
    <2>1. TenTo(n) \in Nat \ {0}
        BY <1>1, PowerSteps
    <2>2. PowerOf(n + 1)[n] = PowerOf(n)[n]
        <3>1. PowerOf(n)[0] = 1 /\ \A i \in 1 .. n : PowerOf(n)[i] = 10 * PowerOf(n)[i - 1]
            BY PowerSteps
        <3>2. PowerOf(n + 1)[0] = 1
              /\ \A i \in 1 .. n + 1 : PowerOf(n + 1)[i] = 10 * PowerOf(n + 1)[i - 1]
            BY PowerSteps
        <3>3. Follows(PowerOf(n), PowerOf(n + 1), n)
            BY <3>1, <3>2 DEF Follows
        <3>4. Agree(PowerOf(n), PowerOf(n + 1), n)
            BY <3>3, SameRun
        <3>5. QED
            BY <3>4 DEF Agree
    <2>3. PowerOf(n + 1)[n + 1] = 10 * PowerOf(n + 1)[n]
        <3>1. n + 1 \in 1 .. n + 1 /\ n + 1 - 1 = n
            OBVIOUS
        <3>2. QED
            BY <3>1, PowerSteps
    <2>4. QED
        BY <1>1, <2>1, <2>2, <2>3
<1>4. QED
    BY <1>2, <1>3

\* The powers of ten are apart.
LEMMA TenToGrows ==
    ASSUME NEW m \in Nat, NEW n \in Nat, m < n
    PROVE  10 * TenTo(m) <= TenTo(n)
<1> DEFINE T == {i \in Nat : i > m => 10 * TenTo(m) <= TenTo(i)}
<1>1. TenTo(m) \in Nat \ {0}
    BY TenToSteps
<1>2. 0 \in T
    OBVIOUS
<1>3. ASSUME NEW i \in Nat, i \in T PROVE i + 1 \in T
    <2>1. TenTo(i) \in Nat \ {0} /\ TenTo(i + 1) = 10 * TenTo(i)
        BY TenToSteps
    <2>2. CASE i > m
        BY <1>1, <1>3, <2>1, <2>2
    <2>3. CASE i = m
        BY <2>1, <2>3
    <2>4. CASE i < m
        BY <2>4
    <2>5. QED
        BY <2>2, <2>3, <2>4
<1> HIDE DEF T
<1>4. \A i \in Nat : i \in T
    BY <1>2, <1>3, SetInduction
<1>5. QED
    BY <1>4 DEF T

\* A number without leading zeros lies between two powers of ten.
LEMMA DecimalLength ==
    ASSUME NEW num, NEW flags, NEW text, Spells(text, num, 10, flags), Proper(text), num # 0
    PROVE  Len(text) \in Nat \ {0} /\ TenTo(Len(text) - 1) <= num /\ num < TenTo(Len(text))
<1> DEFINE n == Len(text)
<1>1. PICK v, d : Spelling(text, num, 10, flags, v, d)
    BY DEF Spells
<1>2. n \in Nat \ {0} /\ (text[1] = ZERO => n = 1)
    BY DEF Spells, Proper
<1> HIDE DEF n
<1>3. /\ v \in [0 .. n -> Nat] /\ d \in [1 .. n -> 0 .. 9]
      /\ v[0] = 0 /\ v[n] = num
      /\ \A i \in 1 .. n : v[i] = v[i - 1] * 10 + d[i] /\ text[i] = DigitChar(d[i], flags)
    BY <1>1 DEF Spelling, n
<1>4. v[1] = d[1] /\ d[1] \in 1 .. 9
    <2>1. 1 \in 1 .. n /\ 1 - 1 = 0
        BY <1>2
    <2>2. v[1] = d[1] /\ d[1] \in 0 .. 9 /\ text[1] = DigitChar(d[1], flags)
        <3>1. v[1] = v[1 - 1] * 10 + d[1] /\ v[0] = 0
            BY <1>3, <2>1
        <3>2. d[1] \in 0 .. 9 /\ text[1] = DigitChar(d[1], flags)
            BY <1>3, <2>1
        <3>3. QED
            BY <2>1, <3>1, <3>2
    <2>3. ASSUME d[1] = 0 PROVE FALSE
        <3>1. text[1] = ZERO
            BY <2>2, <2>3 DEF DigitChar, ZERO
        <3>2. QED
            BY <1>2, <1>3, <2>2, <2>3, <3>1
    <2>4. QED
        BY <2>2, <2>3
<1> DEFINE T == {i \in Nat : i + 1 <= n => TenTo(i) <= v[i + 1] /\ v[i + 1] < TenTo(i + 1)}
<1>5. 0 \in T
    <2>1. TenTo(0) = 1 /\ TenTo(0 + 1) = 10
        BY TenToSteps
    <2>2. QED
        BY <1>4, <2>1
<1>6. ASSUME NEW i \in Nat, i \in T PROVE i + 1 \in T
    <2>1. SUFFICES ASSUME (i + 1) + 1 <= n
                   PROVE  TenTo(i + 1) <= v[(i + 1) + 1] /\ v[(i + 1) + 1] < TenTo((i + 1) + 1)
        OBVIOUS
    <2>2. (i + 1) + 1 \in 1 .. n /\ i + 1 \in 0 .. n /\ (i + 1) + 1 - 1 = i + 1 /\ i + 1 <= n
        BY <1>2, <2>1
    <2>3. v[(i + 1) + 1] = v[i + 1] * 10 + d[(i + 1) + 1]
          /\ d[(i + 1) + 1] \in 0 .. 9 /\ v[i + 1] \in Nat
        BY <1>3, <2>2, SMTT(30)
    <2>4. TenTo(i) <= v[i + 1] /\ v[i + 1] < TenTo(i + 1)
        BY <1>6, <2>2
    <2>5. TenTo(i) \in Nat /\ TenTo(i + 1) = 10 * TenTo(i) /\ TenTo((i + 1) + 1) = 10 * TenTo(i + 1)
        BY TenToSteps
    <2>6. QED
        BY <2>3, <2>4, <2>5
<1> HIDE DEF T
<1>7. \A i \in Nat : i \in T
    BY <1>5, <1>6, SetInduction
<1>8. n - 1 \in T /\ (n - 1) + 1 = n
    BY <1>2, <1>7
<1>9. QED
    BY <1>2, <1>3, <1>8 DEF T, n

(***************************************************************************)
(* Padding                                                                 *)
(***************************************************************************)

\* The characters that number does not use for padding and signs.
Ink == Int \ {SPACE, PLUS, MINUS}
\* The padding with spaces, which is none for a negative size.
Spaces(n) == [i \in 1 .. n |-> SPACE]
Over(n) == IF n > 0 THEN n ELSE 0

\* Each padding of number is one of the two.
LEMMA RepeatIs ==
    ASSUME NEW n \in Int
    PROVE  /\ Over(n) \in Nat
           /\ Repeat(SPACE, n) = Spaces(Over(n)) /\ Repeat(ZERO, n) = Zeros(Over(n))
<1>1. CASE n > 0
    BY <1>1 DEF Over, Repeat, Spaces, Zeros
<1>2. CASE n <= 0
    BY <1>2 DEF Over, Repeat, Spaces, Zeros
<1>3. QED
    BY <1>1, <1>2

\* The zeros, one by one.
LEMMA ZerosAre ==
    ASSUME NEW n \in Nat
    PROVE  /\ Zeros(n) \in Seq(Ink) /\ Zeros(n) \in Seq(Int) /\ Len(Zeros(n)) = n
           /\ \A i \in 1 .. n : Zeros(n)[i] = ZERO
BY DEF Zeros, Ink, ZERO, SPACE, PLUS, MINUS

\* The spaces, one by one.
LEMMA SpacesAre ==
    ASSUME NEW n \in Nat
    PROVE  /\ Spaces(n) \in Seq(Int) /\ Len(Spaces(n)) = n
           /\ \A i \in 1 .. n : Spaces(n)[i] = SPACE
BY DEF Spaces, SPACE

\* Two texts, one after the other.
IsJoin(r, s, t, S) ==
    /\ Len(s) \in Nat /\ Len(t) \in Nat
    /\ r \in Seq(S) /\ Len(r) = Len(s) + Len(t)
    /\ \A i \in 1 .. Len(s) + Len(t) : r[i] = IF i <= Len(s) THEN s[i] ELSE t[i - Len(s)]

\* The characters of a text that is written after another.
LEMMA Joined ==
    ASSUME NEW S, NEW s, NEW t, s \in Seq(S), t \in Seq(S)
    PROVE  IsJoin(s \o t, s, t, S)
BY ConcatProperties, LenProperties DEF IsJoin

\* Of a text, the n characters after the first m.
IsPart(p, text, m, n, S) ==
    p \in Seq(S) /\ Len(p) = n /\ \A i \in 1 .. n : p[i] = text[m + i]

\* A part of a text.
LEMMA PartOf ==
    ASSUME NEW S, NEW text, NEW m, NEW n, NEW last,
           text \in Seq(S), m \in Nat, n \in Nat, last = m + n, last <= Len(text)
    PROVE  IsPart(SubSeq(text, m + 1, last), text, m, n, S)
<1>1. \A i \in m + 1 .. last : text[i] \in S
    OBVIOUS
<1>2. /\ m + 1 \in Int /\ last \in Int /\ last - (m + 1) + 1 = n
      /\ (IF m + 1 <= last THEN last - (m + 1) + 1 ELSE 0) = n
      /\ \A i \in 1 .. n : m + 1 + i - 1 = m + i
    OBVIOUS
<1> DEFINE p == SubSeq(text, m + 1, last)
<1>3. /\ p \in Seq(S)
      /\ Len(p) = IF m + 1 <= last THEN last - (m + 1) + 1 ELSE 0
      /\ \A i \in 1 .. last - (m + 1) + 1 : p[i] = text[m + 1 + i - 1]
    BY <1>1, <1>2, SubSeqProperties
<1> HIDE DEF p
<1>4. \A i \in 1 .. n : p[i] = text[m + i]
    BY <1>2, <1>3
<1>5. QED
    BY <1>2, <1>3, <1>4 DEF IsPart, p

\* Zeros after zeros.
LEMMA ZerosAdd ==
    ASSUME NEW m \in Nat, NEW n \in Nat
    PROVE  Zeros(m) \o Zeros(n) = Zeros(m + n)
<1>1. /\ Zeros(m) \in Seq(Int) /\ Len(Zeros(m)) = m /\ \A i \in 1 .. m : Zeros(m)[i] = ZERO
      /\ Zeros(n) \in Seq(Int) /\ Len(Zeros(n)) = n /\ \A i \in 1 .. n : Zeros(n)[i] = ZERO
      /\ Zeros(m + n) \in Seq(Int) /\ Len(Zeros(m + n)) = m + n
      /\ \A i \in 1 .. m + n : Zeros(m + n)[i] = ZERO
    BY ZerosAre
<1>2. /\ Zeros(m) \o Zeros(n) \in Seq(Int) /\ Len(Zeros(m) \o Zeros(n)) = m + n
      /\ \A i \in 1 .. m + n : (Zeros(m) \o Zeros(n))[i]
                                   = IF i <= m THEN Zeros(m)[i] ELSE Zeros(n)[i - m]
    <2>1. IsJoin(Zeros(m) \o Zeros(n), Zeros(m), Zeros(n), Int)
        BY <1>1, Joined
    <2>2. QED
        BY <1>1, <2>1 DEF IsJoin
<1>3. ASSUME NEW i \in 1 .. m + n PROVE (Zeros(m) \o Zeros(n))[i] = Zeros(m + n)[i]
    <2>1. CASE i <= m
        <3>1. (Zeros(m) \o Zeros(n))[i] = Zeros(m)[i]
            BY <1>2, <2>1
        <3>2. Zeros(m)[i] = ZERO /\ Zeros(m + n)[i] = ZERO
            BY <1>1, <2>1
        <3>3. QED
            BY <3>1, <3>2
    <2>2. CASE i > m
        <3>1. i - m \in 1 .. n
            BY <2>2
        <3>2. (Zeros(m) \o Zeros(n))[i] = Zeros(n)[i - m]
            BY <1>2, <2>2
        <3>3. Zeros(n)[i - m] = ZERO
            BY <1>1, <3>1
        <3>4. Zeros(m + n)[i] = ZERO
            BY <1>1
        <3>5. QED
            BY <3>2, <3>3, <3>4
    <2>3. i <= m \/ i > m
        OBVIOUS
    <2>4. QED
        BY <2>1, <2>2, <2>3, Zenon
<1>4. QED
    BY <1>1, <1>2, <1>3, SeqEqual

\* A space after spaces.
LEMMA SpacesAdd ==
    ASSUME NEW m \in Nat
    PROVE  Spaces(m) \o <<SPACE>> = Spaces(m + 1)
<1>1. /\ Spaces(m) \in Seq(Int) /\ Len(Spaces(m)) = m /\ \A i \in 1 .. m : Spaces(m)[i] = SPACE
      /\ Spaces(m + 1) \in Seq(Int) /\ Len(Spaces(m + 1)) = m + 1
      /\ \A i \in 1 .. m + 1 : Spaces(m + 1)[i] = SPACE
    BY SpacesAre
<1>2. <<SPACE>> \in Seq(Int) /\ Len(<<SPACE>>) = 1 /\ <<SPACE>>[1] = SPACE
    BY DEF SPACE
<1>3. /\ Spaces(m) \o <<SPACE>> \in Seq(Int) /\ Len(Spaces(m) \o <<SPACE>>) = m + 1
      /\ \A i \in 1 .. m + 1 : (Spaces(m) \o <<SPACE>>)[i]
                                   = IF i <= m THEN Spaces(m)[i] ELSE <<SPACE>>[i - m]
    BY <1>1, <1>2
<1>4. ASSUME NEW i \in 1 .. m + 1 PROVE (Spaces(m) \o <<SPACE>>)[i] = Spaces(m + 1)[i]
    <2>1. CASE i <= m
        BY <1>1, <1>3, <2>1
    <2>2. CASE i > m
        <3>1. i - m = 1
            BY <2>2
        <3>2. (Spaces(m) \o <<SPACE>>)[i] = <<SPACE>>[i - m]
            BY <1>3, <2>2
        <3>3. QED
            BY <1>1, <1>2, <3>1, <3>2
    <2>3. i <= m \/ i > m
        OBVIOUS
    <2>4. QED
        BY <2>1, <2>2, <2>3, Zenon
<1>5. QED
    BY <1>1, <1>3, <1>4, SeqEqual

\* The two parts of a text.
LEMMA Split ==
    ASSUME NEW S, NEW s \in Seq(S), NEW t \in Seq(S)
    PROVE  /\ SubSeq(s \o t, 1, Len(s)) = s
           /\ SubSeq(s \o t, Len(s) + 1, Len(s \o t)) = t
<1> DEFINE r == s \o t
           p == SubSeq(r, 1, Len(s))
           q == SubSeq(r, Len(s) + 1, Len(r))
<1>1. /\ r \in Seq(S) /\ Len(r) = Len(s) + Len(t) /\ Len(s) \in Nat /\ Len(t) \in Nat
      /\ \A i \in 1 .. Len(s) + Len(t) : r[i] = IF i <= Len(s) THEN s[i] ELSE t[i - Len(s)]
    BY ConcatProperties, LenProperties
<1> HIDE DEF r
<1>2. /\ p \in Seq(S) /\ Len(p) = Len(s) /\ \A i \in 1 .. Len(s) : p[i] = s[i]
    <2>1. p \in Seq(S) /\ Len(p) = Len(s) /\ \A i \in 1 .. Len(s) : p[i] = r[i]
        BY <1>1
    <2>2. \A i \in 1 .. Len(s) : r[i] = s[i]
        BY <1>1
    <2>3. QED
        BY <2>1, <2>2
<1>3. /\ q \in Seq(S) /\ Len(q) = Len(t) /\ \A i \in 1 .. Len(t) : q[i] = t[i]
    <2>1. q \in Seq(S) /\ Len(q) = Len(t) /\ \A i \in 1 .. Len(t) : q[i] = r[Len(s) + i]
        BY <1>1
    <2>2. ASSUME NEW i \in 1 .. Len(t) PROVE r[Len(s) + i] = t[i]
        <3>1. Len(s) + i \in 1 .. Len(s) + Len(t) /\ ~ (Len(s) + i <= Len(s))
              /\ (Len(s) + i) - Len(s) = i
            BY <1>1
        <3>2. QED
            BY <1>1, <3>1
    <2>3. QED
        BY <2>1, <2>2
<1> HIDE DEF p, q
<1>4. p = s /\ q = t
    BY <1>2, <1>3, SeqEqual
<1>5. QED
    BY <1>4 DEF p, q, r

\* The padding before a text that starts with something else.
LEMMA PadLeftIs ==
    ASSUME NEW text \in Seq(Int), NEW a \in Nat, a < Len(text),
           \A i \in 1 .. a : text[i] = SPACE, text[a + 1] # SPACE
    PROVE  PadLeft(text) = a
<1> DEFINE Is(n) == /\ \A i \in 1 .. n : text[i] = SPACE
                    /\ n < Len(text) => text[n + 1] # SPACE
<1>1. PadLeft(text) = CHOOSE n \in 0 .. Len(text) : Is(n)
    BY DEF PadLeft
<1>2. a \in 0 .. Len(text) /\ Is(a)
    OBVIOUS
<1>3. ASSUME NEW n \in 0 .. Len(text), Is(n) PROVE n = a
    <2>1. CASE n < a
        <3>1. n + 1 \in 1 .. a /\ n < Len(text)
            BY <2>1
        <3>2. QED
            BY <1>3, <3>1
    <2>2. CASE n > a
        <3>1. a + 1 \in 1 .. n
            BY <2>2
        <3>2. QED
            BY <1>3, <3>1
    <2>3. QED
        BY <2>1, <2>2
<1> HIDE DEF Is
<1>4. QED
    BY <1>1, <1>2, <1>3

\* Between spaces, a core that neither starts nor ends with one.
LEMMA StripSpaces ==
    ASSUME NEW a \in Nat, NEW b \in Nat, NEW core \in Seq(Int), core # <<>>,
           core[1] # SPACE, core[Len(core)] # SPACE
    PROVE  LET text == (Spaces(a) \o core) \o Spaces(b)
           IN  /\ text \in Seq(Int) /\ Len(text) = a + Len(core) + b
               /\ PadLeft(text) = a /\ PadRight(text) = b /\ Stripped(text) = core
<1> DEFINE left == Spaces(a) \o core
           text == left \o Spaces(b)
           n == Len(core)
           L == a + n + b
<1>1. n \in Nat \ {0}
    OBVIOUS
<1>2. left \in Seq(Int) /\ Len(left) = a + n
      /\ \A i \in 1 .. a + n : left[i] = IF i <= a THEN SPACE ELSE core[i - a]
    <2>1. Spaces(a) \in Seq(Int) /\ Len(Spaces(a)) = a /\ \A i \in 1 .. a : Spaces(a)[i] = SPACE
        BY SpacesAre
    <2>2. left \in Seq(Int) /\ Len(left) = a + n
          /\ \A i \in 1 .. a + n : left[i] = IF i <= a THEN Spaces(a)[i] ELSE core[i - a]
        <3>1. IsJoin(left, Spaces(a), core, Int)
            BY <2>1, Joined
        <3> HIDE DEF left
        <3>2. QED
            BY <2>1, <3>1 DEF IsJoin
    <2>3. QED
        BY <1>1, <2>1, <2>2
<1> HIDE DEF left, n
<1>3. text \in Seq(Int) /\ Len(text) = L
      /\ \A i \in 1 .. L : text[i] = IF i <= a THEN SPACE
                                     ELSE IF i <= a + n THEN core[i - a] ELSE SPACE
    <2>1. Spaces(b) \in Seq(Int) /\ Len(Spaces(b)) = b /\ \A i \in 1 .. b : Spaces(b)[i] = SPACE
        BY SpacesAre
    <2>2. text \in Seq(Int) /\ Len(text) = L
          /\ \A i \in 1 .. L : text[i] = IF i <= a + n THEN left[i] ELSE Spaces(b)[i - (a + n)]
        <3>1. IsJoin(text, left, Spaces(b), Int)
            BY <1>2, <2>1, Joined
        <3> HIDE DEF text
        <3>2. QED
            BY <1>2, <2>1, <3>1 DEF IsJoin
    <2> HIDE DEF text
    <2>3. ASSUME NEW i \in 1 .. L
          PROVE  text[i] = IF i <= a THEN SPACE ELSE IF i <= a + n THEN core[i - a] ELSE SPACE
        <3>1. CASE i <= a + n
            <4>1. text[i] = left[i]
                BY <2>2, <3>1
            <4>2. i \in 1 .. a + n
                BY <1>1, <3>1
            <4>3. left[i] = IF i <= a THEN SPACE ELSE core[i - a]
                BY <1>2, <4>2
            <4>4. QED
                BY <3>1, <4>1, <4>3
        <3>2. CASE i > a + n
            <4>1. i - (a + n) \in 1 .. b
                BY <1>1, <3>2
            <4>2. text[i] = Spaces(b)[i - (a + n)]
                BY <1>1, <2>2, <3>2
            <4>3. Spaces(b)[i - (a + n)] = SPACE
                BY <2>1, <4>1
            <4>4. ~(i <= a)
                BY <1>1, <3>2
            <4>5. QED
                BY <1>1, <3>2, <4>2, <4>3, <4>4
        <3>3. i <= a + n \/ i > a + n
            BY <1>1
        <3>4. QED
            BY <3>1, <3>2, <3>3, Zenon
    <2>4. QED
        BY <2>2, <2>3
<1> HIDE DEF text
<1>4. PadLeft(text) = a
    <2>1. a < Len(text) /\ a + 1 \in 1 .. L /\ (a + 1) - a = 1 /\ a + 1 <= a + n
        BY <1>1, <1>3
    <2>2. text[a + 1] # SPACE
        BY <1>3, <2>1
    <2>3. \A i \in 1 .. a : text[i] = SPACE
        BY <1>1, <1>3
    <2>4. QED
        BY <1>3, <2>1, <2>2, <2>3, PadLeftIs
<1>5. PadRight(text) = b
    <2> DEFINE back == Reverse(text)
    <2>1. back \in Seq(Int) /\ Len(back) = L
          /\ \A i \in 1 .. L : back[i] = text[(L - i) + 1]
        <3>1. back = [i \in 1 .. L |-> text[(L - i) + 1]] /\ L \in Nat
            BY <1>1, <1>3 DEF Reverse
        <3>2. \A i \in 1 .. L : (L - i) + 1 \in 1 .. L /\ text[(L - i) + 1] \in Int
            BY <1>1, <1>3
        <3>3. back \in [1 .. L -> Int]
            BY <3>1, <3>2
        <3>4. back \in Seq(Int) /\ Len(back) = L
            BY <3>1, <3>3, FunctionIsText
        <3>5. QED
            BY <3>1, <3>4
    <2> HIDE DEF back
    <2>2. b < Len(back) /\ b + 1 \in 1 .. L /\ (L - (b + 1)) + 1 = a + n /\ a + n \in 1 .. L
          /\ (a + n) - a = n /\ ~ (a + n <= a)
        BY <1>1, <2>1
    <2>3. text[a + n] = core[n]
        <3>1. a + n <= a + n
            BY <1>1
        <3>2. text[a + n] = core[(a + n) - a]
            BY <1>3, <2>2, <3>1
        <3>3. QED
            BY <2>2, <3>2
    <2>4. back[b + 1] # SPACE
        BY <2>1, <2>2, <2>3 DEF n
    <2>5. ASSUME NEW i \in 1 .. b PROVE back[i] = SPACE
        <3>1. i \in 1 .. L /\ (L - i) + 1 \in 1 .. L
              /\ ~ ((L - i) + 1 <= a) /\ ~ ((L - i) + 1 <= a + n)
            BY <1>1
        <3>2. QED
            BY <1>3, <2>1, <3>1
    <2>6. PadLeft(back) = b
        BY <2>1, <2>2, <2>4, <2>5, PadLeftIs
    <2>7. QED
        BY <2>6 DEF PadRight, back
<1>6. Stripped(text) = core
    <2> DEFINE p == SubSeq(text, a + 1, L - b)
    <2>1. Stripped(text) = p
        BY <1>3, <1>4, <1>5 DEF Stripped
    <2>2. L - b = a + n
        BY <1>1
    <2>3. p \in Seq(Int) /\ Len(p) = n /\ \A i \in 1 .. n : p[i] = text[a + i]
        <3>1. IsPart(p, text, a, n, Int)
            <4>1. L - b <= Len(text)
                BY <1>1, <1>3
            <4>2. text \in Seq(Int) /\ a \in Nat /\ n \in Nat
                BY <1>1, <1>3
            <4> HIDE DEF L
            <4>3. QED
                BY <2>2, <4>1, <4>2, PartOf
        <3> HIDE DEF p
        <3>2. QED
            BY <3>1 DEF IsPart
    <2>4. ASSUME NEW i \in 1 .. n PROVE p[i] = core[i]
        <3>1. a + i \in 1 .. L /\ ~ (a + i <= a) /\ a + i <= a + n /\ (a + i) - a = i
            BY <1>1
        <3>2. QED
            BY <1>3, <2>3, <3>1
    <2> HIDE DEF p
    <2>5. p = core
        BY <2>3, <2>4, SeqEqual DEF n
    <2>6. QED
        BY <2>1, <2>5
<1>7. QED
    BY <1>3, <1>4, <1>5, <1>6 DEF text, left, n

(***************************************************************************)
(* Fields of numbers                                                       *)
(***************************************************************************)

\* A field as number writes it.
Field(a, sign, prefix, k, digits, b) ==
    (Spaces(a) \o (sign \o (prefix \o (Zeros(k) \o digits)))) \o Spaces(b)

\* The space of a sign is counted as padding.
Extra(flags) == IF "SPACE" \in flags THEN 1 ELSE 0

\* What number makes of the digits, in a field of a size.
Laid(text, size, precision, flags, negative, prefix, digits, a, sign, k, b) ==
    /\ a \in Nat /\ k \in Nat /\ b \in Nat
    /\ sign \in {<<>>, <<PLUS>>, <<MINUS>>}
    /\ text = Field(a, sign, prefix, k, digits, b)
    /\ sign = <<MINUS>> <=> negative
    /\ "PLUS" \in flags => sign # <<>>
    /\ k + Len(digits) >= precision
    /\ a + Len(sign) + Len(prefix) + k + Len(digits) + b >= size
    /\ a + Len(sign) + Len(prefix) + k + Len(digits) + b > size
           => b = 0 /\ a <= Extra(flags) /\ (k + Len(digits) > precision => k = 0)
    /\ "LEFT" \in flags => a <= Extra(flags)
    /\ "LEFT" \notin flags => b = 0

\* The order in which texts are joined does not matter.
Associated(s, t, u) == (s \o t) \o u = s \o (t \o u)

\* The order in which three texts are joined does not matter.
LEMMA Associates ==
    ASSUME NEW S, NEW s, NEW t, NEW u, s \in Seq(S), t \in Seq(S), u \in Seq(S)
    PROVE  Associated(s, t, u)
BY ConcatAssociative DEF Associated

\* The same for five texts.
Reassociated(s1, s2, s3, s4, s5) ==
    (((s1 \o s2) \o s3) \o s4) \o s5 = s1 \o (s2 \o (s3 \o (s4 \o s5)))

\* The order in which five texts are joined does not matter.
LEMMA Reassociate ==
    ASSUME NEW S, NEW s1, NEW s2, NEW s3, NEW s4, NEW s5,
           s1 \in Seq(S), s2 \in Seq(S), s3 \in Seq(S), s4 \in Seq(S), s5 \in Seq(S)
    PROVE  Reassociated(s1, s2, s3, s4, s5)
<1>1. s1 \o s2 \in Seq(S) /\ (s1 \o s2) \o s3 \in Seq(S)
      /\ s4 \o s5 \in Seq(S) /\ s3 \o (s4 \o s5) \in Seq(S)
    BY ConcatProperties
<1>2. (((s1 \o s2) \o s3) \o s4) \o s5 = ((s1 \o s2) \o s3) \o (s4 \o s5)
    <2>1. Associated((s1 \o s2) \o s3, s4, s5)
        BY <1>1, Associates
    <2>2. QED
        BY <2>1 DEF Associated
<1>3. ((s1 \o s2) \o s3) \o (s4 \o s5) = (s1 \o s2) \o (s3 \o (s4 \o s5))
    <2>1. Associated(s1 \o s2, s3, s4 \o s5)
        BY <1>1, Associates
    <2>2. QED
        BY <2>1 DEF Associated
<1>4. (s1 \o s2) \o (s3 \o (s4 \o s5)) = s1 \o (s2 \o (s3 \o (s4 \o s5)))
    <2>1. Associated(s1, s2, s3 \o (s4 \o s5))
        BY <1>1, Associates
    <2>2. QED
        BY <2>1 DEF Associated
<1>5. QED
    BY <1>2, <1>3, <1>4, Zenon DEF Reassociated

\* The sign of number is one character at most, and what the number is and the flags
\* ask for.
LEMMA SignIs ==
    ASSUME NEW num, NEW flags
    PROVE  /\ SignOf(num, flags) \in {<<>>, <<PLUS>>, <<MINUS>>, <<SPACE>>}
           /\ SignOf(num, flags) = <<MINUS>> <=> Negative(num, flags)
           /\ "PLUS" \in flags => SignOf(num, flags) \in {<<PLUS>>, <<MINUS>>}
           /\ SignOf(num, flags) = <<SPACE>> => "SPACE" \in flags
<1>1. <<PLUS>> # <<MINUS>> /\ <<PLUS>> # <<SPACE>> /\ <<MINUS>> # <<SPACE>>
      /\ <<PLUS>> # <<>> /\ <<MINUS>> # <<>> /\ <<SPACE>> # <<>>
    BY DEF PLUS, MINUS, SPACE
<1> DEFINE negative == Negative(num, flags)
<1> HIDE DEF negative
<1>2. SignOf(num, flags) = CASE negative -> <<MINUS>>
                             [] "PLUS" \in flags /\ ~negative -> <<PLUS>>
                             [] {"PLUS", "SPACE"} \cap flags = {"SPACE"} /\ ~negative -> <<SPACE>>
                             [] OTHER -> <<>>
    BY DEF SignOf, negative
<1>3. CASE negative
    <2>1. SignOf(num, flags) = <<MINUS>>
        BY <1>2, <1>3
    <2>2. QED
        BY <1>1, <1>3, <2>1 DEF negative
<1>4. CASE ~negative
    <2>1. CASE "PLUS" \in flags
        <3>1. SignOf(num, flags) = <<PLUS>>
            BY <1>2, <1>4, <2>1
        <3>2. QED
            BY <1>1, <1>4, <2>1, <3>1 DEF negative
    <2>2. CASE "PLUS" \notin flags /\ "SPACE" \in flags
        <3>1. {"PLUS", "SPACE"} \cap flags = {"SPACE"}
            BY <2>2
        <3>2. SignOf(num, flags) = <<SPACE>>
            BY <1>2, <1>4, <2>2, <3>1
        <3>3. QED
            BY <1>1, <1>4, <2>2, <3>2 DEF negative
    <2>3. CASE "PLUS" \notin flags /\ "SPACE" \notin flags
        <3>1. {"PLUS", "SPACE"} \cap flags # {"SPACE"}
            BY <2>3
        <3>2. SignOf(num, flags) = <<>>
            BY <1>2, <1>4, <2>3, <3>1
        <3>3. QED
            BY <1>1, <1>4, <2>3, <3>2 DEF negative
    <2>4. QED
        BY <2>1, <2>2, <2>3
<1>5. QED
    BY <1>3, <1>4

\* The prefix of number is no padding.
LEMMA PrefixIs ==
    ASSUME NEW base, NEW flags
    PROVE  PrefixOf(base, flags) \in Seq(Ink) /\ PrefixOf(base, flags) \in Seq(Int)
           /\ Len(PrefixOf(base, flags)) \in Nat
<1>1. PrefixOf(base, flags) \in {<<>>, <<ZERO>>, <<ZERO, 88>>, <<ZERO, 120>>}
    BY DEF PrefixOf, LETTER_X
<1>2. ZERO \in Ink /\ 88 \in Ink /\ 120 \in Ink /\ Ink \subseteq Int
    BY DEF Ink, ZERO, SPACE, PLUS, MINUS
<1>3. <<>> \in Seq(Ink) /\ <<ZERO>> \in Seq(Ink) /\ <<ZERO, 88>> \in Seq(Ink)
      /\ <<ZERO, 120>> \in Seq(Ink)
    BY <1>2
<1>4. PrefixOf(base, flags) \in Seq(Ink)
    BY <1>1, <1>3, ZenonT(40)
<1>5. QED
    BY <1>2, <1>4, SeqMonotonic, LenProperties

\* number lays out a field: padding with spaces before and after, and between the
\* prefix and the digits with zeros, as much as the size and the precision ask for.
LEMMA NumberLaid ==
    ASSUME NEW num, NEW base, NEW size \in Int, NEW precision \in Int, NEW flags,
           DigitsOf(num, base, flags) \in Seq(Ink)
    PROVE  \E a, sign, k, b :
              Laid(number(num, base, size, precision, flags), size, precision, flags,
                   Negative(num, flags), PrefixOf(base, flags), DigitsOf(num, base, flags),
                   a, sign, k, b)
<1> DEFINE old == SignOf(num, flags)
           prefix == PrefixOf(base, flags)
           digits == DigitsOf(num, base, flags)
           text == number(num, base, size, precision, flags)
           negative == Negative(num, flags)
           n == Len(digits)
           z == Over(precision - n)
           rest == size - Len(old) - Len(prefix) - z - n
           left == "LEFT" \in flags
           padded == "ZEROPAD" \in flags /\ ~left
           p == IF left \/ padded THEN 0 ELSE Over(rest)
           q == IF padded THEN Over(rest) ELSE 0
           b == IF left THEN Over(rest) ELSE 0
           a == IF old = <<SPACE>> THEN p + 1 ELSE p
           sign == IF old = <<SPACE>> THEN <<>> ELSE old
           k == q + z
<1>1. digits \in Seq(Int) /\ n \in Nat
    <2>1. Ink \subseteq Int
        BY DEF Ink
    <2>2. QED
        BY <2>1, SeqMonotonic, LenProperties
<1>2. prefix \in Seq(Int) /\ Len(prefix) \in Nat
    BY PrefixIs
<1>3. /\ old \in {<<>>, <<PLUS>>, <<MINUS>>, <<SPACE>>}
      /\ old = <<MINUS>> <=> negative
      /\ "PLUS" \in flags => old \in {<<PLUS>>, <<MINUS>>}
      /\ old = <<SPACE>> => "SPACE" \in flags
    BY SignIs
<1>4. old \in Seq(Int) /\ Len(old) \in Nat /\ Len(<<SPACE>>) = 1 /\ Len(<<>>) = 0
      /\ <<PLUS>> # <<SPACE>> /\ <<MINUS>> # <<SPACE>> /\ <<PLUS>> # <<>> /\ <<MINUS>> # <<>>
    <2>1. <<>> \in Seq(Int) /\ <<PLUS>> \in Seq(Int) /\ <<MINUS>> \in Seq(Int)
          /\ <<SPACE>> \in Seq(Int)
        BY DEF PLUS, MINUS, SPACE
    <2>2. Len(<<SPACE>>) = 1 /\ Len(<<>>) = 0 /\ <<PLUS>> # <<>> /\ <<MINUS>> # <<>>
        OBVIOUS
    <2>3. <<PLUS>> # <<SPACE>> /\ <<MINUS>> # <<SPACE>>
        BY DEF PLUS, MINUS, SPACE
    <2> HIDE DEF old
    <2>4. old \in Seq(Int)
        BY <1>3, <2>1
    <2>5. QED
        BY <2>2, <2>3, <2>4, LenProperties
<1> HIDE DEF old, prefix, digits, n, negative
<1>5. precision - n \in Int /\ z \in Nat /\ (precision - n > 0 => z = precision - n)
      /\ (precision - n <= 0 => z = 0)
    BY <1>1 DEF Over
<1> HIDE DEF z
<1>6. rest \in Int
    BY <1>1, <1>2, <1>4, <1>5
<1> DEFINE r == Over(rest)
<1>7. r \in Nat /\ (rest > 0 => r = rest) /\ (rest <= 0 => r = 0)
    BY <1>6 DEF Over
<1>8. text = (((((Spaces(p) \o old) \o prefix) \o Zeros(q)) \o Zeros(z)) \o digits) \o Spaces(b)
    <2>1. Repeat(ZERO, precision - n) = Zeros(z)
        BY <1>5, RepeatIs DEF z
    <2>2. Len(Zeros(z)) = z
        BY <1>5, ZerosAre
    <2>3. text = (((((Repeat(SPACE, IF left \/ padded THEN 0 ELSE rest) \o old) \o prefix)
                        \o Repeat(ZERO, IF padded THEN rest ELSE 0)) \o Zeros(z)) \o digits)
                     \o Repeat(SPACE, IF left THEN rest ELSE 0)
        BY <2>1, <2>2, Zenon DEF number, old, prefix, digits, n
    <2> HIDE DEF rest
    <2>4. Over(0) = 0
        BY DEF Over
    <2>5. Repeat(SPACE, IF left \/ padded THEN 0 ELSE rest) = Spaces(p)
        <3>1. Repeat(SPACE, 0) = Spaces(0)
            BY <2>4, RepeatIs
        <3>2. Repeat(SPACE, rest) = Spaces(Over(rest))
            BY <1>6, RepeatIs
        <3>3. QED
            BY <3>1, <3>2
    <2>6. Repeat(ZERO, IF padded THEN rest ELSE 0) = Zeros(q)
        <3>1. Repeat(ZERO, 0) = Zeros(0)
            BY <2>4, RepeatIs
        <3>2. Repeat(ZERO, rest) = Zeros(Over(rest))
            BY <1>6, RepeatIs
        <3>3. QED
            BY <3>1, <3>2
    <2>7. Repeat(SPACE, IF left THEN rest ELSE 0) = Spaces(b)
        <3>1. Repeat(SPACE, 0) = Spaces(0)
            BY <2>4, RepeatIs
        <3>2. Repeat(SPACE, rest) = Spaces(Over(rest))
            BY <1>6, RepeatIs
        <3>3. QED
            BY <3>1, <3>2
    <2> HIDE DEF p, q, b, text
    <2>8. QED
        BY <2>3, <2>5, <2>6, <2>7
<1> HIDE DEF rest, text
<1>9. p \in Nat /\ q \in Nat /\ b \in Nat /\ a \in Nat /\ k \in Nat
    BY <1>5, <1>7
<1>10. /\ sign \in {<<>>, <<PLUS>>, <<MINUS>>} /\ sign \in Seq(Int)
       /\ sign = <<MINUS>> <=> negative
       /\ "PLUS" \in flags => sign # <<>>
    <2>1. CASE old = <<SPACE>>
        <3>1. sign = <<>>
            BY <2>1
        <3>2. old # <<PLUS>> /\ old # <<MINUS>> /\ sign # <<MINUS>>
            BY <1>4, <2>1, <3>1
        <3>3. sign \in Seq(Int)
            BY <3>1, EmptySeq
        <3>4. QED
            BY <1>3, <3>1, <3>2, <3>3
    <2>2. CASE old # <<SPACE>>
        <3>1. sign = old
            BY <2>2
        <3>2. QED
            BY <1>3, <1>4, <2>2, <3>1, Zenon
    <2>3. QED
        BY <2>1, <2>2
<1>11. a + Len(sign) = p + Len(old) /\ a <= p + Extra(flags)
    <2>1. CASE old = <<SPACE>>
        BY <1>3, <1>4, <1>9, <2>1 DEF Extra
    <2>2. CASE old # <<SPACE>>
        BY <1>9, <2>2 DEF Extra
    <2>3. QED
        BY <2>1, <2>2
<1>12. Spaces(p) \o old = Spaces(a) \o sign
    <2>1. CASE old = <<SPACE>>
        <3>1. Spaces(p) \o <<SPACE>> = Spaces(p + 1)
            BY <1>9, SpacesAdd
        <3>2. Spaces(p + 1) \in Seq(Int)
            BY <1>9, SpacesAre
        <3>3. Spaces(p + 1) \o <<>> = Spaces(p + 1)
            BY <3>2, ConcatEmptySeq
        <3> HIDE DEF p
        <3>4. QED
            BY <2>1, <3>1, <3>3
    <2>2. CASE old # <<SPACE>>
        BY <2>2
    <2>3. QED
        BY <2>1, <2>2
<1> HIDE DEF a, sign, q, p, b
<1>13. text = Field(a, sign, prefix, k, digits, b)
    <2>1. Spaces(a) \in Seq(Int) /\ Zeros(q) \in Seq(Int) /\ Zeros(z) \in Seq(Int)
          /\ Zeros(k) \in Seq(Int)
        BY <1>5, <1>9, SpacesAre, ZerosAre
    <2>2. (Spaces(a) \o sign) \o prefix \in Seq(Int)
        BY <1>2, <1>10, <2>1, ConcatProperties
    <2>3. (((Spaces(a) \o sign) \o prefix) \o Zeros(q)) \o Zeros(z)
              = ((Spaces(a) \o sign) \o prefix) \o (Zeros(q) \o Zeros(z))
        <3>1. Associated((Spaces(a) \o sign) \o prefix, Zeros(q), Zeros(z))
            BY <2>1, <2>2, Associates
        <3>2. QED
            BY <3>1 DEF Associated
    <2>4. Zeros(q) \o Zeros(z) = Zeros(k)
        BY <1>5, <1>9, ZerosAdd
    <2> HIDE DEF k
    <2>5. (((Spaces(a) \o sign) \o prefix) \o Zeros(k)) \o digits
              = Spaces(a) \o (sign \o (prefix \o (Zeros(k) \o digits)))
        <3>1. Reassociated(Spaces(a), sign, prefix, Zeros(k), digits)
            BY <1>1, <1>2, <1>10, <2>1, Reassociate
        <3>2. QED
            BY <3>1 DEF Reassociated
    <2>6. QED
        BY <1>8, <1>12, <2>3, <2>4, <2>5, Zenon DEF Field
<1>14. k + n >= precision
    BY <1>1, <1>5, <1>9
<1> DEFINE L == a + Len(sign) + Len(prefix) + k + n + b
<1>15. L = p + Len(old) + Len(prefix) + k + n + b /\ L = p + q + b + size - rest /\ Len(sign) \in Nat
    <2>1. Len(sign) \in Nat
        BY <1>10, LenProperties
    <2>2. L = p + Len(old) + Len(prefix) + k + n + b
        BY <1>1, <1>2, <1>4, <1>9, <1>11, <2>1
    <2>3. L = p + q + b + size - rest
        <3>1. rest = size - Len(old) - Len(prefix) - z - n /\ k = q + z
            BY DEF rest
        <3>2. q \in Nat /\ k \in Nat
            BY <1>9
        <3> HIDE DEF k, L
        <3>3. QED
            BY <1>1, <1>2, <1>4, <1>5, <1>9, <2>2, <3>1, <3>2
    <2>4. QED
        BY <2>1, <2>2, <2>3
<1> HIDE DEF r
<1>16. p + q + b = r
    BY <1>7, <1>9 DEF p, q, b, r
<1>17. L >= size /\ (L > size => r = 0)
    BY <1>6, <1>7, <1>9, <1>15, <1>16
<1>18. L > size => b = 0 /\ a <= Extra(flags) /\ (k + n > precision => k = 0)
    <2>1. SUFFICES ASSUME L > size PROVE b = 0 /\ a <= Extra(flags) /\ (k + n > precision => k = 0)
        OBVIOUS
    <2>2. p = 0 /\ q = 0 /\ b = 0
        BY <1>9, <1>16, <1>17, <2>1
    <2>3. k = z /\ (k + n > precision => k = 0)
        BY <1>1, <1>5, <2>2
    <2>4. Extra(flags) \in Nat
        BY DEF Extra
    <2>5. QED
        BY <1>9, <1>11, <2>2, <2>3, <2>4
<1>19. ("LEFT" \in flags => a <= Extra(flags)) /\ ("LEFT" \notin flags => b = 0)
    <2>1. left => p = 0
        BY DEF p
    <2>2. ~left => b = 0
        BY DEF b
    <2>3. Extra(flags) \in Nat
        BY DEF Extra
    <2>4. QED
        BY <1>9, <1>11, <2>1, <2>2, <2>3
<1>20. Laid(text, size, precision, flags, negative, prefix, digits, a, sign, k, b)
    BY <1>9, <1>10, <1>13, <1>14, <1>17, <1>18, <1>19 DEF Laid, n
<1>21. QED
    BY <1>20 DEF text, negative, prefix, digits

\* What the properties see of a field.
Seen(text, base, flags, prefix, digits, a, sign, k, b) ==
    /\ text \in Seq(Int)
    /\ Len(text) = a + Len(sign) + Len(prefix) + k + Len(digits) + b
    /\ PadLeft(text) = a /\ PadRight(text) = b
    /\ Len(Stripped(text)) = Len(sign) + Len(prefix) + k + Len(digits)
    /\ Head(Stripped(text)) = MINUS <=> sign = <<MINUS>>
    /\ sign # <<>> => Head(Stripped(text)) \in {PLUS, MINUS}
    /\ DigitsIn(text, base, flags) = Zeros(k) \o digits

\* In every field the properties see its parts: the padding is what was added, the
\* digits are the zeros and the digits.
LEMMA FieldSeen ==
    ASSUME NEW a, NEW sign, NEW prefix, NEW k, NEW digits, NEW b, NEW base, NEW flags,
           a \in Nat, k \in Nat, b \in Nat, sign \in {<<>>, <<PLUS>>, <<MINUS>>},
           prefix \in Seq(Ink), digits \in Seq(Ink), digits # <<>>,
           Len(prefix) = Len(PrefixOf(base, flags))
    PROVE  Seen(Field(a, sign, prefix, k, digits, b), base, flags, prefix, digits, a, sign, k, b)
<1> DEFINE numeral == Zeros(k) \o digits
           rest == prefix \o numeral
           core == sign \o rest
           text == (Spaces(a) \o core) \o Spaces(b)
<1>1. Ink \subseteq Int /\ SPACE \notin Ink /\ PLUS \notin Ink /\ MINUS \notin Ink
      /\ PLUS \in Int \ {SPACE} /\ MINUS \in Int \ {SPACE} /\ PLUS # MINUS
    BY DEF Ink, SPACE, PLUS, MINUS
<1>2. Len(digits) \in Nat \ {0} /\ Len(prefix) \in Nat
    BY EmptySeq, LenProperties
<1>3. numeral \in Seq(Ink) /\ Len(numeral) = k + Len(digits)
    <2>1. Zeros(k) \in Seq(Ink) /\ Len(Zeros(k)) = k
        BY ZerosAre
    <2>2. IsJoin(numeral, Zeros(k), digits, Ink)
        BY <2>1, Joined
    <2>3. QED
        BY <2>1, <2>2 DEF IsJoin
<1>4. rest \in Seq(Ink) /\ Len(rest) = Len(prefix) + k + Len(digits)
    <2>1. IsJoin(rest, prefix, numeral, Ink)
        BY <1>3, Joined
    <2> HIDE DEF rest
    <2>2. QED
        BY <1>2, <1>3, <2>1 DEF IsJoin
<1>5. sign \in Seq(Int) /\ Len(sign) \in {0, 1} /\ (Len(sign) = 0 <=> sign = <<>>)
      /\ (sign # <<>> => Len(sign) = 1 /\ sign[1] \in {PLUS, MINUS})
      /\ (sign # <<>> => (sign[1] = MINUS <=> sign = <<MINUS>>)) /\ <<MINUS>> # <<>>
    <2>1. CASE sign = <<>>
        BY <2>1, EmptySeq
    <2>2. CASE sign = <<PLUS>>
        <3>1. sign \in Seq(Int) /\ Len(sign) = 1 /\ sign[1] = PLUS
            BY <1>1, <2>2
        <3>2. sign # <<>> /\ sign # <<MINUS>>
            BY <1>1, <2>2
        <3>3. QED
            BY <1>1, <3>1, <3>2
    <2>3. CASE sign = <<MINUS>>
        <3>1. sign \in Seq(Int) /\ Len(sign) = 1 /\ sign[1] = MINUS
            BY <1>1, <2>3
        <3>2. sign # <<>>
            BY <2>3
        <3>3. QED
            BY <2>3, <3>1, <3>2
    <2>4. QED
        BY <2>1, <2>2, <2>3
<1>6. rest \in Seq(Int) /\ numeral \in Seq(Int) /\ prefix \in Seq(Int)
    BY <1>1, <1>3, <1>4, SeqMonotonic
<1> HIDE DEF numeral, rest
<1>7. /\ core \in Seq(Int) /\ Len(core) = Len(sign) + Len(rest)
      /\ \A i \in 1 .. Len(sign) + Len(rest) :
            core[i] = IF i <= Len(sign) THEN sign[i] ELSE rest[i - Len(sign)]
    <2>1. IsJoin(core, sign, rest, Int)
        BY <1>5, <1>6, Joined
    <2> HIDE DEF core
    <2>2. QED
        BY <2>1 DEF IsJoin
<1> HIDE DEF core
<1>8. core # <<>> /\ Len(core) \in Nat \ {0} /\ Len(rest) \in Nat \ {0}
    <2>1. Len(core) \in Nat \ {0} /\ Len(rest) \in Nat \ {0}
        <3>1. Len(sign) \in {0, 1} /\ Len(core) = Len(sign) + Len(rest)
            BY <1>5, <1>7, Zenon
        <3>2. Len(rest) = Len(prefix) + k + Len(digits)
            BY <1>4
        <3>3. QED
            BY <1>2, <3>1, <3>2
    <2>2. QED
        BY <2>1, EmptySeq
<1>9. \A i \in 1 .. Len(rest) : rest[i] \in Ink
    BY <1>4
<1>10. Head(core) = core[1]
    BY <1>7, <1>8
<1>11. ASSUME sign = <<>>
       PROVE  core[1] # SPACE /\ core[Len(core)] # SPACE /\ Unsigned(core) = rest
          /\ (Head(core) = MINUS <=> sign = <<MINUS>>)
          /\ (sign # <<>> => Head(core) \in {PLUS, MINUS})
    <2>1. core[1] = rest[1] /\ rest[1] \in Ink /\ core[Len(core)] = rest[Len(rest)]
        BY <1>5, <1>7, <1>8, <1>9, <1>11
    <2>2. rest[Len(rest)] \in Ink
        BY <1>8, <1>9
    <2>3. core = rest
        BY <1>6, <1>11, ConcatEmptySeq DEF core
    <2>4. Unsigned(core) = rest
        BY <1>1, <1>10, <2>1, <2>3 DEF Unsigned
    <2>5. QED
        BY <1>1, <1>5, <1>10, <1>11, <2>1, <2>2, <2>4
<1>12. ASSUME sign # <<>>
       PROVE  core[1] # SPACE /\ core[Len(core)] # SPACE /\ Unsigned(core) = rest
          /\ (Head(core) = MINUS <=> sign = <<MINUS>>)
          /\ (sign # <<>> => Head(core) \in {PLUS, MINUS})
    <2>1. core[1] = sign[1]
        BY <1>5, <1>7, <1>8, <1>12
    <2>2. core[Len(core)] = rest[Len(rest)]
        <3>1. Len(sign) = 1 /\ Len(core) = 1 + Len(rest)
            BY <1>5, <1>7, <1>12
        <3>2. Len(core) \in 1 .. Len(sign) + Len(rest) /\ ~ (Len(core) <= Len(sign))
              /\ Len(core) - Len(sign) = Len(rest)
            BY <1>8, <3>1
        <3>3. core[Len(core)] = rest[Len(core) - Len(sign)]
            BY <1>7, <3>2
        <3>4. QED
            BY <3>2, <3>3
    <2>3. rest[Len(rest)] \in Ink
        BY <1>8, <1>9
    <2>4. Unsigned(core) = rest
        <3>1. Unsigned(core) = Tail(core)
            BY <1>5, <1>10, <1>12, <2>1 DEF Unsigned
        <3>2. Tail(core) = SubSeq(core, 2, Len(core))
            BY <1>7, <1>8, TailIsSubSeq
        <3>3. SubSeq(core, Len(sign) + 1, Len(core)) = rest
            BY <1>5, <1>6, Split DEF core
        <3>4. QED
            <4>1. Len(sign) + 1 = 2
                <5>1. Len(sign) = 1
                    BY <1>5, <1>12, Zenon
                <5>2. QED
                    BY <5>1
            <4>2. QED
                BY <3>1, <3>2, <3>3, <4>1
    <2>5. QED
        BY <1>1, <1>5, <1>10, <1>12, <2>1, <2>2, <2>3, <2>4
<1>13. /\ core[1] # SPACE /\ core[Len(core)] # SPACE /\ Unsigned(core) = rest
       /\ Head(core) = MINUS <=> sign = <<MINUS>>
       /\ sign # <<>> => Head(core) \in {PLUS, MINUS}
    BY <1>11, <1>12
<1>14. /\ text \in Seq(Int) /\ Len(text) = a + Len(core) + b
       /\ PadLeft(text) = a /\ PadRight(text) = b /\ Stripped(text) = core
    BY <1>7, <1>8, <1>13, StripSpaces
<1>15. text = Field(a, sign, prefix, k, digits, b)
    BY DEF Field, core, rest, numeral
<1>16. DigitsIn(text, base, flags) = numeral
    <2>1. SubSeq(rest, Len(prefix) + 1, Len(rest)) = numeral
        BY <1>6, Split DEF rest
    <2>2. QED
        BY <1>13, <1>14, <2>1 DEF DigitsIn
<1> HIDE DEF text
<1>17. Len(text) = a + Len(sign) + Len(prefix) + k + Len(digits) + b
       /\ Len(Stripped(text)) = Len(sign) + Len(prefix) + k + Len(digits)
    BY <1>2, <1>4, <1>5, <1>7, <1>14
<1>18. Seen(text, base, flags, prefix, digits, a, sign, k, b)
    BY <1>13, <1>14, <1>16, <1>17 DEF Seen, numeral
<1>19. QED
    BY <1>15, <1>18

(***************************************************************************)
(* Integers                                                                *)
(***************************************************************************)

\* The digits of a number are ink.
LEMMA SpelledInk ==
    ASSUME NEW num, NEW base, NEW flags, NEW text, base \in Bases, Spells(text, num, base, flags)
    PROVE  text \in Seq(Ink)
<1>1. text \in Seq(Int) /\ \A i \in 1 .. Len(text) : text[i] \notin Signs
    BY SpelledCharacters
<1>2. \A i \in 1 .. Len(text) : text[i] \in Ink
    BY <1>1 DEF Ink, Signs
<1>3. text \in [1 .. Len(text) -> Ink] /\ Len(text) \in Nat
    BY <1>1, <1>2
<1>4. QED
    BY <1>3, FunctionIsText

\* The negative of a word, which for the least number is itself, is the absolute value
\* of the number that the word stands for.
LEMMA WordNegated ==
    ASSUME NEW num \in 0 .. Words - 1
    PROVE  /\ S32(num) \in Int
           /\ S32(num) < 0 => (-num) % Words \in Nat /\ -((-num) % Words) = S32(num)
           /\ S32(num) >= 0 => S32(num) = num
<1>1. Words \in Nat \ {0, 1}
    BY FormatAssumption
<1>2. Words \div 2 \in Nat \ {0}
    BY <1>1
<1>3. CASE num >= Words \div 2
    <2>1. S32(num) = num - Words /\ num # 0
        BY <1>2, <1>3 DEF S32
    <2>2. Words - num \in 0 .. Words - 1 /\ -num \in Int /\ -1 \in Int
          /\ -num = (-1) * Words + (Words - num)
        BY <1>1, <2>1
    <2>3. (-num) % Words = Words - num
        BY <1>1, <2>2, DivisionUnique
    <2>4. QED
        BY <1>1, <2>1, <2>2, <2>3
<1>4. CASE num < Words \div 2
    <2>1. S32(num) = num
        BY <1>2, <1>4 DEF S32
    <2>2. QED
        BY <2>1
<1>5. QED
    BY <1>2, <1>3, <1>4

\* vsprintf makes numbers of width and precision, and adds no flag but LEFT.
LEMMA WidthTypes ==
    ASSUME NEW it, it \in Items
    PROVE  /\ FieldWidth(it) \in Int /\ Precision(it) \in Int
           /\ FlagsOf(it) \subseteq FlagNames
           /\ \A flag : flag # "LEFT" => (flag \in FlagsOf(it) <=> flag \in it.flags)
<1>1. it.width \in Int \cup {None} /\ it.precision \in Int \cup {None} /\ it.flags \subseteq FlagNames
    BY DEF Items
<1>2. QED
    BY <1>1 DEF FieldWidth, Precision, FlagsOf, FlagNames

\* The letter of a prefix changes with a flag, its length does not.
LEMMA PrefixLength ==
    ASSUME NEW base, NEW flags, NEW others, "SPECIAL" \in flags <=> "SPECIAL" \in others
    PROVE  Len(PrefixOf(base, flags)) = Len(PrefixOf(base, others))
<1>1. CASE "SPECIAL" \in flags /\ base = 8
    BY <1>1 DEF PrefixOf
<1>2. CASE "SPECIAL" \in flags /\ base = 16
    <2>1. Len(PrefixOf(base, flags)) = 2 /\ Len(PrefixOf(base, others)) = 2
        BY <1>2 DEF PrefixOf
    <2>2. QED
        BY <2>1
<1>3. CASE ~("SPECIAL" \in flags /\ base \in {8, 16})
    BY <1>3 DEF PrefixOf
<1>4. QED
    BY <1>1, <1>2, <1>3

\* A number in its field, and what the properties see of it.
LEMMA NumberSeen ==
    ASSUME NEW num, NEW base, NEW size \in Int, NEW precision \in Int, NEW flags, NEW others,
           "SPECIAL" \in flags <=> "SPECIAL" \in others,
           DigitsOf(num, base, flags) \in Seq(Ink), DigitsOf(num, base, flags) # <<>>
    PROVE  \E a, sign, k, b :
              /\ Laid(number(num, base, size, precision, flags), size, precision, flags,
                      Negative(num, flags), PrefixOf(base, flags), DigitsOf(num, base, flags),
                      a, sign, k, b)
              /\ Seen(number(num, base, size, precision, flags), base, others,
                      PrefixOf(base, flags), DigitsOf(num, base, flags), a, sign, k, b)
<1> DEFINE text == number(num, base, size, precision, flags)
           prefix == PrefixOf(base, flags)
           digits == DigitsOf(num, base, flags)
           negative == Negative(num, flags)
<1>1. PICK a, sign, k, b :
          Laid(text, size, precision, flags, negative, prefix, digits, a, sign, k, b)
    BY NumberLaid
<1>2. prefix \in Seq(Ink) /\ Len(prefix) = Len(PrefixOf(base, others))
    BY PrefixIs, PrefixLength
<1> HIDE DEF text, prefix, digits, negative
<1>3. Seen(text, base, others, prefix, digits, a, sign, k, b)
    <2>1. text = Field(a, sign, prefix, k, digits, b)
        BY <1>1 DEF Laid
    <2>2. a \in Nat /\ k \in Nat /\ b \in Nat /\ sign \in {<<>>, <<PLUS>>, <<MINUS>>}
        BY <1>1 DEF Laid
    <2>3. digits \in Seq(Ink) /\ digits # <<>>
        BY DEF digits
    <2>4. Seen(Field(a, sign, prefix, k, digits, b), base, others, prefix, digits, a, sign, k, b)
        BY <1>2, <2>2, <2>3, FieldSeen
    <2>5. QED
        BY <2>1, <2>4
<1>4. QED
    BY <1>1, <1>3 DEF text, prefix, digits, negative

\* Every conversion of an integer is right, whatever its flags, width and precision are.
LEMMA IntegerRight ==
    ASSUME NEW it, Parsed(it), it.conv \in IntegerConvs
    PROVE  Integer(it) \in Seq(Int) /\ IntegerFits(it, Integer(it))
<1> DEFINE bare == it.conv = "p" /\ FieldWidth(it) = -1
           own == CASE it.conv = "x" -> {"SMALL"}
                    [] it.conv \in {"d", "i"} -> {"SIGN"}
                    [] it.conv = "f" -> {"SIGN", "DOUBLE"}
                    [] bare -> {"ZEROPAD"}
                    [] OTHER -> {}
           F == FlagsOf(it) \cup own
           num == it.arg[1]
           base == Base(it.conv)
           size == IF bare THEN 8 ELSE FieldWidth(it)
           precision == Precision(it)
           negative == Negative(num, F)
           magnitude == IF negative THEN (-num) % Words ELSE num
           digits == DigitsOf(num, base, F)
           prefix == PrefixOf(base, F)
           text == Integer(it)
           signed == it.conv \in {"d", "i"}
<1>1. it \in Items /\ num \in 0 .. Words - 1 /\ it.conv # "f"
    BY DEF Parsed, IntegerConvs
<1>2. base \in Bases
    BY DEF Base, Bases
<1>3. /\ size \in Int /\ precision \in Int
      /\ FlagsOf(it) \subseteq FlagNames
      /\ \A flag : flag # "LEFT" => (flag \in FlagsOf(it) <=> flag \in it.flags)
    BY <1>1, WidthTypes
<1>4. own \in {{"SMALL"}, {"SIGN"}, {"ZEROPAD"}, {}} /\ ("SIGN" \in own <=> signed)
    <2>1. CASE it.conv = "x"
        <3>1. own = {"SMALL"}
            BY <2>1
        <3>2. QED
            BY <2>1, <3>1
    <2>2. CASE signed
        <3>1. own = {"SIGN"}
            BY <2>2
        <3>2. QED
            BY <2>2, <3>1
    <2>3. CASE it.conv # "x" /\ ~signed /\ bare
        <3>1. own = {"ZEROPAD"}
            BY <1>1, <2>3
        <3>2. QED
            BY <2>3, <3>1
    <2>4. CASE it.conv # "x" /\ ~signed /\ ~bare
        <3>1. own = {}
            BY <1>1, <2>4
        <3>2. QED
            BY <2>4, <3>1
    <2>5. QED
        BY <2>1, <2>2, <2>3, <2>4
<1>5. text = number(num, base, size, precision, F)
    BY <1>1, Zenon DEF Integer
<1> HIDE DEF own, size
<1>6. /\ "DOUBLE" \notin F
      /\ "SIGN" \in F <=> signed
      /\ "SPECIAL" \in F <=> "SPECIAL" \in it.flags
      /\ "SPACE" \in F <=> "SPACE" \in it.flags
      /\ "PLUS" \in F <=> "PLUS" \in it.flags
      /\ "LEFT" \in F <=> "LEFT" \in FlagsOf(it)
    BY <1>3, <1>4 DEF FlagNames
<1> HIDE DEF F, num, base, precision
<1>7. negative <=> signed /\ S32(num) < 0
    BY <1>6 DEF Negative
<1>8. /\ magnitude \in Nat
      /\ (IF negative THEN -magnitude ELSE magnitude) = (IF signed THEN S32(num) ELSE num)
    <2>1. /\ S32(num) \in Int
          /\ S32(num) < 0 => (-num) % Words \in Nat /\ -((-num) % Words) = S32(num)
          /\ S32(num) >= 0 => S32(num) = num
        BY <1>1, WordNegated
    <2>2. num \in Nat
        BY <1>1
    <2> HIDE DEF negative
    <2>3. QED
        BY <1>7, <2>1, <2>2
<1>9. digits = Digits(magnitude, base, F)
    BY <1>6 DEF DigitsOf
<1> HIDE DEF magnitude, negative
<1>10. Spells(digits, magnitude, base, F) /\ Proper(digits)
    BY <1>2, <1>8, <1>9, DigitsSpell
<1>11. digits \in Seq(Ink) /\ digits # <<>> /\ Len(digits) \in Nat
    <2>1. digits \in Seq(Ink)
        BY <1>2, <1>10, SpelledInk
    <2>2. QED
        BY <1>10, <2>1, LenProperties DEF Proper
<1>12. PICK a, sign, k, b :
           /\ Laid(text, size, precision, F, negative, prefix, digits, a, sign, k, b)
           /\ Seen(text, base, it.flags, prefix, digits, a, sign, k, b)
    BY <1>3, <1>5, <1>6, <1>11, NumberSeen DEF negative
<1>13. Len(prefix) \in Nat
    BY PrefixIs
<1> HIDE DEF digits, prefix, text
<1>14. Seen(text, base, it.flags, prefix, digits, a, sign, k, b)
    BY <1>12
<1> DEFINE found == DigitsIn(text, base, it.flags)
           body == Stripped(text)
           L == a + Len(sign) + Len(prefix) + k + Len(digits) + b
<1>15. /\ found = Zeros(k) \o digits /\ k \in Nat /\ a \in Nat /\ b \in Nat
    BY <1>12, <1>14 DEF Laid, Seen
<1>16. Len(found) = k + Len(digits) /\ (k = 0 => found = digits)
    <2>1. Zeros(k) \in Seq(Ink) /\ Len(Zeros(k)) = k
        BY <1>15, ZerosAre
    <2>2. IsJoin(Zeros(k) \o digits, Zeros(k), digits, Ink)
        BY <1>11, <2>1, Joined
    <2>3. k = 0 => Zeros(k) = <<>>
        BY <2>1, EmptySeq
    <2>4. k = 0 => Zeros(k) \o digits = digits
        BY <1>11, <2>3, ConcatEmptySeq
    <2>5. Len(Zeros(k) \o digits) = k + Len(digits)
        BY <2>1, <2>2 DEF IsJoin
    <2>6. QED
        BY <1>15, <2>4, <2>5
<1>17. Read(found, base) = magnitude
    <2>1. Spells(Zeros(k) \o digits, magnitude, base, F)
        BY <1>2, <1>10, <1>15, ZerosSpell
    <2>2. QED
        BY <1>2, <1>15, <2>1, ReadSpelled
<1>18. /\ Len(text) = L /\ PadLeft(text) = a /\ PadRight(text) = b
       /\ Len(body) = Len(sign) + Len(prefix) + k + Len(digits)
       /\ Head(body) = MINUS <=> negative
       /\ "PLUS" \in it.flags => Head(body) \in {PLUS, MINUS}
    BY <1>6, <1>12, <1>14 DEF Laid, Seen
<1>19. /\ k + Len(digits) >= precision
       /\ L >= size
       /\ L > size => b = 0 /\ a <= Extra(F) /\ (k + Len(digits) > precision => k = 0)
       /\ "LEFT" \in F => a <= Extra(F)
       /\ "LEFT" \notin F => b = 0
    BY <1>12 DEF Laid
<1> DEFINE space == IF "SPACE" \in it.flags THEN 1 ELSE 0
<1>20. Extra(F) = space
    BY <1>6 DEF Extra
<1>21. Len(sign) \in Nat
    BY <1>12 DEF Laid
<1> HIDE DEF found, body, L, space
<1>22. /\ Len(found) >= precision
       /\ (IF Head(body) = MINUS THEN -Read(found, base) ELSE Read(found, base))
              = (IF signed THEN S32(num) ELSE num)
       /\ Len(text) >= size
    BY <1>8, <1>16, <1>17, <1>18, <1>19
<1>23. Len(text) > size =>
           /\ Len(body) + space >= Len(text)
           /\ Len(found) > precision => found[1] # ZERO \/ Len(found) = 1
    <2>1. SUFFICES ASSUME Len(text) > size
                   PROVE  /\ Len(body) + space >= Len(text)
                          /\ Len(found) > precision => found[1] # ZERO \/ Len(found) = 1
        OBVIOUS
    <2>2. b = 0 /\ a <= space /\ (k + Len(digits) > precision => k = 0)
        BY <1>18, <1>19, <1>20, <2>1
    <2>3. space \in {0, 1}
        BY DEF space
    <2>4. Len(body) + space >= Len(text)
        BY <1>11, <1>13, <1>15, <1>18, <1>21, <2>2, <2>3 DEF L
    <2>5. Len(found) > precision => found = digits
        BY <1>16, <2>2
    <2>6. QED
        BY <1>10, <2>4, <2>5 DEF Proper
<1>24. /\ "LEFT" \in FlagsOf(it) => PadLeft(text) <= space
       /\ "LEFT" \notin FlagsOf(it) => PadRight(text) = 0
    BY <1>6, <1>18, <1>19, <1>20
<1>25. IntegerFits(it, text)
    BY <1>18, <1>22, <1>23, <1>24, Zenon
        DEF IntegerFits, found, body, space, size, bare, precision, num, base, signed
<1>26. QED
    BY <1>14, <1>25 DEF Seen, text

(***************************************************************************)
(* Doubles                                                                 *)
(***************************************************************************)

\* The place of the first of a character.
LEMMA PlaceOfIs ==
    ASSUME NEW ch, NEW text, NEW n, text \in Seq(Int), n \in 1 .. Len(text) + 1,
           \A i \in 1 .. n - 1 : text[i] # ch, n <= Len(text) => text[n] = ch
    PROVE  PlaceOf(ch, text) = n
<1> DEFINE T == {i \in 1 .. Len(text) + 1 : i > Len(text) \/ text[i] = ch}
<1>1. Len(text) \in Nat
    OBVIOUS
<1>2. n \in T
    BY <1>1
<1>3. T \subseteq Nat /\ T # {}
    BY <1>1, <1>2
<1>4. Min(T) \in T /\ \A y \in T : Min(T) <= y
    BY <1>3, MinOfNats
<1>5. PlaceOf(ch, text) = Min(T)
    BY DEF PlaceOf
<1>6. ASSUME NEW m \in T, m <= n PROVE m = n
    <2>1. SUFFICES ASSUME m < n PROVE FALSE
        BY <1>1, <1>6
    <2>2. m \in 1 .. n - 1 /\ m <= Len(text)
        BY <1>1, <1>6, <2>1
    <2>3. QED
        BY <1>6, <2>2
<1> HIDE DEF T
<1>7. QED
    BY <1>2, <1>4, <1>5, <1>6

\* Products with the same factor are as different as their other factors.
LEMMA Cancel ==
    ASSUME NEW a \in Nat, NEW b \in Nat, NEW c \in Nat, a < b, c # 0
    PROVE  c * a # c * b
<1> DEFINE T == {i \in Nat : (i + 1) * a < (i + 1) * b}
<1>1. 0 \in T
    OBVIOUS
<1>2. ASSUME NEW i \in Nat, i \in T PROVE i + 1 \in T
    <2>1. (i + 1 + 1) * a = (i + 1) * a + a /\ (i + 1 + 1) * b = (i + 1) * b + b
        OBVIOUS
    <2>2. (i + 1) * a \in Nat /\ (i + 1) * b \in Nat
        OBVIOUS
    <2>3. QED
        BY <1>2, <2>1, <2>2
<1> HIDE DEF T
<1>3. \A i \in Nat : i \in T
    BY <1>1, <1>2, SetInduction
<1>4. c - 1 \in T /\ c - 1 + 1 = c
    BY <1>3
<1>5. c * a < c * b
    BY <1>4 DEF T
<1>6. c * a \in Nat /\ c * b \in Nat
    OBVIOUS
<1>7. QED
    BY <1>5, <1>6

\* A fraction reads back if none of its digits after the point was left out.
LEMMA FractionReads ==
    ASSUME NEW fraction \in 0 .. Micro - 1, NEW flags, NEW text,
           Spells(text, fraction, 10, flags), Proper(text)
    PROVE  (fraction * Micro = fraction * TenTo(Len(text)))
               <=> (fraction = 0 \/ fraction * 10 >= Micro)
<1>1. PICK m \in 0 .. 9 : Micro = TenTo(m)
    BY FormatAssumption
<1>2. Micro \in Nat \ {0}
    BY <1>1, TenToSteps
<1>3. Len(text) \in Nat
    BY DEF Spells
<1>4. TenTo(Len(text)) \in Nat \ {0}
    BY <1>3, TenToSteps
<1>5. CASE fraction = 0
    BY <1>2, <1>4, <1>5
<1>6. CASE fraction # 0
    <2> DEFINE n == Len(text)
    <2>1. n \in Nat \ {0} /\ TenTo(n - 1) <= fraction /\ fraction < TenTo(n)
        BY <1>6, DecimalLength
    <2> HIDE DEF n
    <2>2. TenTo(n) = 10 * TenTo(n - 1) /\ TenTo(n - 1) \in Nat
        <3>1. n - 1 \in Nat /\ (n - 1) + 1 = n
            BY <2>1
        <3>2. TenTo((n - 1) + 1) = 10 * TenTo(n - 1) /\ TenTo(n - 1) \in Nat
            BY <3>1, TenToSteps
        <3>3. QED
            BY <3>1, <3>2
    <2>3. CASE n = m
        BY <1>1, <1>2, <2>1, <2>2, <2>3 DEF n
    <2>4. CASE n < m
        <3>1. 10 * TenTo(n) <= Micro
            BY <1>1, <2>1, <2>4, TenToGrows
        <3>2. ~ (fraction * 10 >= Micro)
            BY <1>2, <1>4, <2>1, <3>1 DEF n
        <3>3. TenTo(n) \in Nat /\ Micro \in Nat /\ TenTo(n) < Micro /\ fraction \in Nat
            BY <1>2, <1>4, <3>1 DEF n
        <3>4. fraction * TenTo(n) # fraction * Micro
            BY <1>6, <3>3, Cancel
        <3>5. QED
            BY <1>6, <3>2, <3>4 DEF n
    <2>5. CASE n > m
        <3>1. Micro <= TenTo(n - 1)
            <4>1. CASE m = n - 1
                BY <1>1, <1>2, <4>1
            <4>2. CASE m < n - 1
                <5>1. m \in Nat /\ n - 1 \in Nat
                    BY <2>1
                <5>2. 10 * TenTo(m) <= TenTo(n - 1)
                    BY <4>2, <5>1, TenToGrows
                <5>3. QED
                    BY <1>1, <1>2, <2>2, <5>2
            <4>3. QED
                BY <2>1, <2>5, <4>1, <4>2
        <3>2. QED
            BY <1>2, <2>1, <2>2, <3>1
    <2>6. QED
        BY <2>1, <2>3, <2>4, <2>5
<1>7. QED
    BY <1>5, <1>6

\* Every conversion of a double is right: it reads back unless its fraction has lost
\* the zeros right after the point.
LEMMA DoubleRight ==
    ASSUME NEW it, Parsed(it), it.conv = "f"
    PROVE  Integer(it) \in Seq(Int) /\ DoubleFits(it, Integer(it))
<1> DEFINE F == FlagsOf(it) \cup {"SIGN", "DOUBLE"}
           num == it.arg
           size == FieldWidth(it)
           precision == Precision(it)
           negative == Negative(num, F)
           whole == Digits(num[2], 10, F)
           fraction == Digits(num[3], 10, F)
           digits == DigitsOf(num, 10, F)
           prefix == PrefixOf(10, F)
           text == Integer(it)
<1>1. it \in Items /\ num[2] \in Nat /\ num[3] \in 0 .. Micro - 1
    BY DEF Parsed
<1>2. 10 \in Bases /\ Base(it.conv) = 10
    BY DEF Base, Bases
<1>3. size \in Int /\ precision \in Int
    BY <1>1, WidthTypes
<1>4. text = number(num, 10, size, precision, F)
    BY <1>2 DEF Integer
<1>5. negative <=> num[1] = 1
    BY DEF Negative
<1>6. digits = (whole \o <<POINT>>) \o fraction
    BY DEF DigitsOf, DoubleDigits
<1> HIDE DEF F, num, size, precision, negative, whole, fraction, digits, prefix, text
<1>7. num[3] \in Nat
    BY <1>1
<1>8. /\ Spells(whole, num[2], 10, F) /\ Spells(fraction, num[3], 10, F)
      /\ Proper(fraction)
    BY <1>1, <1>2, <1>7, DigitsSpell DEF whole, fraction
<1>9. whole \in Seq(Ink) /\ fraction \in Seq(Ink) /\ <<POINT>> \in Seq(Ink)
      /\ Len(<<POINT>>) = 1 /\ <<POINT>>[1] = POINT
    <2>1. whole \in Seq(Ink) /\ fraction \in Seq(Ink)
        BY <1>2, <1>8, SpelledInk
    <2>2. POINT \in Ink
        BY DEF Ink, POINT, SPACE, PLUS, MINUS
    <2>3. QED
        BY <2>1, <2>2
<1>10. digits \in Seq(Ink) /\ digits # <<>>
    <2>1. whole \o <<POINT>> \in Seq(Ink)
        BY <1>9, ConcatProperties
    <2>2. IsJoin(digits, whole \o <<POINT>>, fraction, Ink)
        BY <1>6, <1>9, <2>1, Joined
    <2>3. IsJoin(whole \o <<POINT>>, whole, <<POINT>>, Ink)
        BY <1>9, Joined
    <2>4. digits \in Seq(Ink) /\ Len(digits) = (Len(whole) + 1) + Len(fraction)
          /\ Len(whole) \in Nat /\ Len(fraction) \in Nat
        BY <1>9, <2>2, <2>3 DEF IsJoin
    <2>5. QED
        BY <2>4, EmptySeq
<1>11. "SPECIAL" \in F <=> "SPECIAL" \in it.flags
    BY <1>1, WidthTypes DEF F
<1>12. PICK a, sign, k, b :
           /\ Laid(text, size, precision, F, negative, prefix, digits, a, sign, k, b)
           /\ Seen(text, 10, it.flags, prefix, digits, a, sign, k, b)
    BY <1>3, <1>4, <1>10, <1>11, NumberSeen DEF negative, digits, prefix
<1>13. /\ Laid(text, size, precision, F, negative, prefix, digits, a, sign, k, b)
       /\ Seen(text, 10, it.flags, prefix, digits, a, sign, k, b)
    BY <1>12
<1> DEFINE found == DigitsIn(text, 10, it.flags)
           P == Zeros(k) \o whole
           Q == P \o <<POINT>>
           point == PlaceOf(POINT, found)
<1>14. k \in Nat /\ Zeros(k) \in Seq(Ink) /\ Ink \subseteq Int
    BY <1>13, ZerosAre DEF Laid, Ink
<1>15. P \in Seq(Ink) /\ Q \in Seq(Ink) /\ Len(Q) = Len(P) + 1 /\ Len(P) \in Nat
    <2>1. P \in Seq(Ink)
        BY <1>9, <1>14, ConcatProperties
    <2> HIDE DEF P
    <2>2. IsJoin(Q, P, <<POINT>>, Ink)
        BY <1>9, <2>1, Joined
    <2>3. QED
        BY <1>9, <2>1, <2>2 DEF IsJoin
<1>16. found = Q \o fraction
    <2>1. found = Zeros(k) \o ((whole \o <<POINT>>) \o fraction)
        BY <1>6, <1>13 DEF Seen
    <2>2. Associated(Zeros(k), whole \o <<POINT>>, fraction)
        <3>1. whole \o <<POINT>> \in Seq(Ink)
            BY <1>9, ConcatProperties
        <3>2. QED
            BY <1>9, <1>14, <3>1, Associates
    <2>3. Associated(Zeros(k), whole, <<POINT>>)
        BY <1>9, <1>14, Associates
    <2>4. QED
        BY <2>1, <2>2, <2>3, Zenon DEF Associated
<1>17. found = P \o (<<POINT>> \o fraction)
    <2>1. Associated(P, <<POINT>>, fraction)
        BY <1>9, <1>15, Associates
    <2>2. QED
        BY <1>16, <2>1 DEF Associated
<1>18. Spells(P, num[2], 10, F)
    BY <1>2, <1>8, <1>14, ZerosSpell
<1> HIDE DEF found, P
<1>19. point = Len(P) + 1
    <2>1. P \in Seq(Int) /\ \A i \in 1 .. Len(P) : P[i] # POINT
        <3>1. \A i \in 1 .. Len(P) : P[i] \notin Signs
            BY <1>2, <1>18, SpelledCharacters
        <3>2. QED
            BY <1>14, <1>15, <3>1, SeqMonotonic DEF Signs
    <2>2. IsJoin(found, Q, fraction, Ink) /\ IsJoin(Q, P, <<POINT>>, Ink)
        BY <1>9, <1>15, <1>16, Joined
    <2> HIDE DEF Q
    <2>3. /\ found \in Seq(Ink) /\ Len(found) = Len(Q) + Len(fraction) /\ Len(fraction) \in Nat
          /\ \A i \in 1 .. Len(Q) : found[i] = Q[i]
        BY <2>2 DEF IsJoin
    <2>4. \A i \in 1 .. Len(Q) : Q[i] = IF i <= Len(P) THEN P[i] ELSE <<POINT>>[i - Len(P)]
        BY <1>9, <2>2 DEF IsJoin
    <2>5. found \in Seq(Int)
        BY <1>14, <2>3, SeqMonotonic
    <2>6. ASSUME NEW i \in 1 .. Len(P) PROVE found[i] # POINT
        <3>1. i \in 1 .. Len(Q) /\ i <= Len(P)
            BY <1>15
        <3>2. QED
            BY <2>1, <2>3, <2>4, <3>1
    <2>7. found[Len(P) + 1] = POINT
        <3>1. Len(P) + 1 \in 1 .. Len(Q) /\ ~ (Len(P) + 1 <= Len(P)) /\ (Len(P) + 1) - Len(P) = 1
            BY <1>15
        <3>2. Q[Len(P) + 1] = <<POINT>>[(Len(P) + 1) - Len(P)]
            BY <2>4, <3>1
        <3>3. QED
            BY <1>9, <2>3, <3>1, <3>2
    <2>8. Len(P) + 1 \in 1 .. Len(found) + 1 /\ (Len(P) + 1) - 1 = Len(P)
        BY <1>15, <2>3
    <2>9. \A i \in 1 .. (Len(P) + 1) - 1 : found[i] # POINT
        BY <2>6, <2>8
    <2> DEFINE n == Len(P) + 1
    <2>10. /\ n \in 1 .. Len(found) + 1 /\ found[n] = POINT
           /\ \A i \in 1 .. n - 1 : found[i] # POINT
        BY <2>7, <2>8, <2>9
    <2> HIDE DEF n
    <2>11. PlaceOf(POINT, found) = n
        BY <2>5, <2>10, PlaceOfIs
    <2>12. QED
        BY <2>11 DEF n
<1>20. SubSeq(found, 1, point - 1) = P
    <2>1. point - 1 = Len(P)
        BY <1>15, <1>19
    <2>2. <<POINT>> \o fraction \in Seq(Ink)
        BY <1>9, ConcatProperties
    <2> HIDE DEF point
    <2>3. SubSeq(found, 1, Len(P)) = P
        BY <1>15, <1>17, <2>2, Split
    <2>4. QED
        BY <2>1, <2>3
<1>21. SubSeq(found, point + 1, Len(found)) = fraction
    <2>1. point + 1 = Len(Q) + 1
        BY <1>15, <1>19
    <2> HIDE DEF point, Q
    <2>2. SubSeq(found, Len(Q) + 1, Len(found)) = fraction
        BY <1>9, <1>15, <1>16, Split
    <2>3. QED
        BY <2>1, <2>2
<1> HIDE DEF point
<1>22. Read(SubSeq(found, 1, point - 1), 10) = num[2]
    BY <1>2, <1>18, <1>20, ReadSpelled
<1>23. (Read(SubSeq(found, point + 1, Len(found)), 10) * Micro
            = num[3] * TenTo(Len(SubSeq(found, point + 1, Len(found)))))
           <=> (num[3] = 0 \/ num[3] * 10 >= Micro)
    <2>1. Read(fraction, 10) = num[3]
        BY <1>2, <1>8, ReadSpelled
    <2>2. (num[3] * Micro = num[3] * TenTo(Len(fraction)))
              <=> (num[3] = 0 \/ num[3] * 10 >= Micro)
        BY <1>1, <1>8, FractionReads
    <2>3. QED
        BY <1>21, <2>1, <2>2
<1>24. num[1] = 1 <=> Head(Stripped(text)) = MINUS
    BY <1>5, <1>13 DEF Laid, Seen
<1>25. Len(text) >= size
    BY <1>13 DEF Laid, Seen
<1>26. DoubleFits(it, text)
    BY <1>22, <1>23, <1>24, <1>25, Zenon DEF DoubleFits, found, point, num, size
<1>27. QED
    BY <1>13, <1>26 DEF Seen, text

(***************************************************************************)
(* Strings                                                                 *)
(***************************************************************************)

\* The place of a character is in the text, or the one after it.
LEMMA PlaceOfType ==
    ASSUME NEW ch, NEW text, text \in Seq(Int)
    PROVE  PlaceOf(ch, text) \in 1 .. Len(text) + 1
<1> DEFINE T == {i \in 1 .. Len(text) + 1 : i > Len(text) \/ text[i] = ch}
<1>1. Len(text) \in Nat
    OBVIOUS
<1>2. Len(text) + 1 \in T
    BY <1>1
<1>3. T \subseteq Nat /\ T # {}
    BY <1>1, <1>2
<1>4. Min(T) \in T
    BY <1>3, MinOfNats
<1>5. QED
    BY <1>4 DEF PlaceOf

\* A beginning of a text.
LEMMA Beginning ==
    ASSUME NEW S, NEW text, NEW n, text \in Seq(S), n \in 0 .. Len(text)
    PROVE  IsPart(SubSeq(text, 1, n), text, 0, n, S)
<1>1. n \in Nat /\ 0 \in Nat /\ n = 0 + n /\ n <= Len(text) /\ 0 + 1 = 1
    OBVIOUS
<1>2. IsPart(SubSeq(text, 0 + 1, n), text, 0, n, S)
    BY <1>1, PartOf
<1>3. QED
    BY <1>1, <1>2

\* The text of a string conversion is one.
LEMMA TextType ==
    ASSUME NEW it, it \in Items
    PROVE  Text(it) \in Seq(Int) /\ Len(Text(it)) \in Nat
<1> DEFINE s == Terminated(it.arg)
<1>1. it.arg \in Seq(Int)
    BY DEF Items
<1>2. PlaceOf(0, it.arg) - 1 \in 0 .. Len(it.arg)
    BY <1>1, PlaceOfType
<1>3. s \in Seq(Int)
    BY <1>1, <1>2, Beginning DEF IsPart, Terminated
<1> HIDE DEF s
<1>4. Text(it) = IF Precision(it) \in 0 .. Len(s) THEN SubSeq(s, 1, Precision(it)) ELSE s
    BY DEF Text, s
<1>5. CASE Precision(it) \in 0 .. Len(s)
    <2>1. SubSeq(s, 1, Precision(it)) \in Seq(Int)
        BY <1>3, <1>5, Beginning DEF IsPart
    <2>2. QED
        BY <1>4, <1>5, <2>1, LenProperties
<1>6. CASE Precision(it) \notin 0 .. Len(s)
    BY <1>3, <1>4, <1>6
<1>7. QED
    BY <1>5, <1>6

\* A text in its field.
LEMMA PaddedText ==
    ASSUME NEW it, NEW s, it \in Items, s \in Seq(Int)
    PROVE  /\ Padded(s, it) \in Seq(Int)
           /\ Len(Padded(s, it)) = (IF FieldWidth(it) > Len(s) THEN FieldWidth(it) ELSE Len(s))
           /\ LET before == IF "LEFT" \in FlagsOf(it) THEN 0 ELSE Len(Padded(s, it)) - Len(s)
              IN  \A i \in 1 .. Len(Padded(s, it)) :
                     Padded(s, it)[i] = IF i - before \in 1 .. Len(s) THEN s[i - before] ELSE SPACE
<1> DEFINE n == Over(FieldWidth(it) - Len(s))
           text == Padded(s, it)
           left == "LEFT" \in FlagsOf(it)
           before == IF left THEN 0 ELSE Len(text) - Len(s)
<1>1. FieldWidth(it) \in Int /\ Len(s) \in Nat
    BY WidthTypes, LenProperties
<1>2. n \in Nat /\ Repeat(SPACE, FieldWidth(it) - Len(s)) = Spaces(n)
    <2>1. FieldWidth(it) - Len(s) \in Int
        BY <1>1
    <2>2. QED
        BY <2>1, RepeatIs
<1>3. Len(s) + n = IF FieldWidth(it) > Len(s) THEN FieldWidth(it) ELSE Len(s)
    BY <1>1 DEF Over
<1> HIDE DEF n
<1>4. Spaces(n) \in Seq(Int) /\ Len(Spaces(n)) = n /\ \A i \in 1 .. n : Spaces(n)[i] = SPACE
    BY <1>2, SpacesAre
<1>5. text = IF left THEN s \o Spaces(n) ELSE Spaces(n) \o s
    BY <1>2 DEF Padded
<1> HIDE DEF text
<1>6. CASE left
    <2>1. IsJoin(text, s, Spaces(n), Int)
        BY <1>4, <1>5, <1>6, Joined
    <2>2. text \in Seq(Int) /\ Len(text) = Len(s) + n
          /\ \A i \in 1 .. Len(s) + n :
                text[i] = IF i <= Len(s) THEN s[i] ELSE Spaces(n)[i - Len(s)]
        BY <1>4, <2>1 DEF IsJoin
    <2>3. ASSUME NEW i \in 1 .. Len(text)
          PROVE  text[i] = IF i - before \in 1 .. Len(s) THEN s[i - before] ELSE SPACE
        <3>1. i \in 1 .. Len(s) + n /\ i - before = i
            BY <1>1, <1>2, <1>6, <2>2
        <3>2. CASE i <= Len(s)
            <4>1. i \in 1 .. Len(s)
                BY <1>1, <3>1, <3>2
            <4> HIDE DEF before
            <4>2. QED
                BY <2>2, <3>1, <3>2, <4>1
        <3>3. CASE ~ (i <= Len(s))
            <4>1. i - Len(s) \in 1 .. n /\ i \notin 1 .. Len(s)
                BY <1>1, <1>2, <3>1, <3>3
            <4>2. text[i] = SPACE
                BY <1>4, <2>2, <3>1, <3>3, <4>1
            <4> HIDE DEF before
            <4>3. QED
                BY <3>1, <4>1, <4>2
        <3>4. QED
            BY <3>2, <3>3
    <2>4. QED
        BY <1>3, <2>2, <2>3 DEF text
<1>7. CASE ~left
    <2>1. IsJoin(text, Spaces(n), s, Int)
        BY <1>4, <1>5, <1>7, Joined
    <2>2. text \in Seq(Int) /\ Len(text) = n + Len(s)
          /\ \A i \in 1 .. n + Len(s) : text[i] = IF i <= n THEN Spaces(n)[i] ELSE s[i - n]
        BY <1>4, <2>1 DEF IsJoin
    <2>3. ASSUME NEW i \in 1 .. Len(text)
          PROVE  text[i] = IF i - before \in 1 .. Len(s) THEN s[i - before] ELSE SPACE
        <3>1. i \in 1 .. n + Len(s) /\ before = n
            BY <1>1, <1>2, <1>7, <2>2
        <3> HIDE DEF before
        <3>2. CASE i <= n
            <4>1. i \in 1 .. n /\ i - n \notin 1 .. Len(s)
                BY <1>1, <1>2, <3>1, <3>2
            <4>2. text[i] = SPACE
                BY <1>4, <2>2, <3>1, <3>2, <4>1
            <4>3. QED
                BY <3>1, <4>1, <4>2
        <3>3. CASE ~ (i <= n)
            <4>1. i - n \in 1 .. Len(s)
                BY <1>1, <1>2, <3>1, <3>3
            <4>2. text[i] = s[i - n]
                BY <2>2, <3>1, <3>3
            <4>3. QED
                BY <3>1, <4>1, <4>2
        <3>4. QED
            BY <3>2, <3>3
    <2>4. n + Len(s) = Len(s) + n
        BY <1>1, <1>2
    <2>5. QED
        BY <1>3, <2>2, <2>3, <2>4 DEF text
<1>8. QED
    BY <1>6, <1>7

\* The text of a string is the longest beginning of the argument that may be shown.
LEMMA TextLongest ==
    ASSUME NEW it, it \in Items, ~(it.precision # None /\ it.precision < 0)
    PROVE  /\ Len(Text(it)) \in 0 .. Len(it.arg)
           /\ MayShow(it, Len(Text(it))) /\ ~MayShow(it, Len(Text(it)) + 1)
           /\ \A i \in 1 .. Len(Text(it)) : Text(it)[i] = it.arg[i]
<1> DEFINE arg == it.arg
           L == Len(arg)
           T == {i \in 1 .. L + 1 : i > L \/ arg[i] = 0}
           m == PlaceOf(0, arg)
           s == Terminated(arg)
           k == Precision(it)
<1>1. arg \in Seq(Int) /\ L \in Nat
    BY LenProperties DEF Items
<1>2. m \in T /\ \A i \in T : m <= i
    <2>1. L + 1 \in T
        BY <1>1
    <2>2. T \subseteq Nat /\ T # {}
        BY <1>1, <2>1
    <2>3. m = Min(T)
        BY DEF PlaceOf
    <2> HIDE DEF m, T
    <2>4. QED
        BY <2>2, <2>3, MinOfNats
<1> HIDE DEF arg, m
<1> DEFINE n == m - 1
<1>3. /\ n \in 0 .. L
      /\ \A i \in 1 .. n : arg[i] # 0
      /\ n < L => arg[n + 1] = 0
    <2>1. m \in 1 .. L + 1 /\ (m > L \/ arg[m] = 0)
        BY <1>2
    <2>2. ASSUME NEW i \in 1 .. n PROVE arg[i] # 0
        <3>1. i \in 1 .. L + 1 /\ ~(m <= i)
            BY <1>1, <2>1
        <3>2. QED
            BY <1>2, <3>1
    <2>3. n < L => arg[n + 1] = 0
        <3>1. n + 1 = m /\ (n < L => ~(m > L))
            BY <1>1, <2>1
        <3>2. QED
            BY <2>1, <3>1
    <2>4. n \in 0 .. L
        BY <1>1, <2>1
    <2>5. QED
        BY <2>2, <2>3, <2>4
<1>4. s = SubSeq(arg, 1, n)
    BY DEF Terminated, m
<1> HIDE DEF T, n, s, L
<1>5. IsPart(s, arg, 0, n, Int)
    BY <1>1, <1>3, <1>4, Beginning DEF L
<1>6. /\ s \in Seq(Int) /\ Len(s) = n /\ n \in Nat /\ L \in Nat
      /\ \A i \in 1 .. n : s[i] = arg[i]
    <2>1. /\ s \in Seq(Int) /\ Len(s) = n
          /\ \A i \in 1 .. n : s[i] = arg[0 + i]
        BY <1>5 DEF IsPart
    <2>2. n \in Nat /\ \A i \in 1 .. n : 0 + i = i
        BY <1>1, <1>3
    <2>3. QED
        BY <1>1, <2>1, <2>2
<1>7. /\ it.precision = None => k = -1
      /\ it.precision # None => k = it.precision /\ k \in Nat
    <2>1. it.precision \in Int \cup {None}
        BY DEF Items
    <2>2. QED
        BY <2>1 DEF Precision
<1>8. Text(it) = IF k \in 0 .. Len(s) THEN SubSeq(s, 1, k) ELSE s
    BY DEF Text, s, arg
<1> HIDE DEF k
<1>9. PICK r \in 0 .. n :
           /\ Len(Text(it)) = r /\ \A i \in 1 .. r : Text(it)[i] = arg[i]
           /\ it.precision # None => r <= it.precision
           /\ r < n => it.precision # None /\ r = it.precision
    <2>1. CASE k \in 0 .. Len(s)
        <3>1. k \in Nat /\ it.precision # None /\ k = it.precision /\ k <= n
            BY <1>6, <1>7, <2>1
        <3>2. IsPart(SubSeq(s, 1, k), s, 0, k, Int)
            BY <1>6, <2>1, Beginning
        <3>3. Text(it) = SubSeq(s, 1, k)
            BY <1>8, <2>1
        <3>4. Len(Text(it)) = k /\ \A i \in 1 .. k : Text(it)[i] = s[0 + i]
            BY <3>2, <3>3 DEF IsPart
        <3>5. \A i \in 1 .. k : 0 + i = i /\ i \in 1 .. n
            BY <1>6, <3>1
        <3>6. \A i \in 1 .. k : Text(it)[i] = arg[i]
            BY <1>6, <3>4, <3>5
        <3>7. k \in 0 .. n /\ k <= it.precision
            BY <1>6, <3>1
        <3>8. QED
            BY <3>1, <3>4, <3>6, <3>7
    <2>2. CASE k \notin 0 .. Len(s)
        <3>1. Text(it) = s
            BY <1>8, <2>2
        <3>2. it.precision # None => n <= it.precision
            BY <1>6, <1>7, <2>2
        <3>3. n \in 0 .. n /\ ~(n < n)
            BY <1>6
        <3>4. QED
            BY <1>6, <3>1, <3>2, <3>3
    <2>3. QED
        BY <2>1, <2>2
<1>10. r \in 0 .. L /\ \A i \in 1 .. r : i \in 1 .. n
    BY <1>3, <1>6
<1>11. MayShow(it, r)
    <2>1. r <= L /\ \A i \in 1 .. r : arg[i] # 0
        BY <1>3, <1>6, <1>10
    <2>2. QED
        BY <1>9, <2>1 DEF MayShow, arg, L
<1>12. ~MayShow(it, r + 1)
    <2>1. SUFFICES ASSUME MayShow(it, r + 1) PROVE FALSE
        OBVIOUS
    <2>2. /\ r + 1 <= L /\ \A i \in 1 .. r + 1 : arg[i] # 0
          /\ it.precision # None => r + 1 <= it.precision
        BY <2>1 DEF MayShow, arg, L
    <2>3. CASE r < n
        <3>1. it.precision # None /\ r = it.precision /\ r + 1 <= it.precision /\ r \in Int
            BY <1>6, <1>9, <2>2, <2>3
        <3>2. QED
            BY <3>1
    <2>4. CASE ~(r < n)
        <3>1. r = n /\ n + 1 \in 1 .. r + 1 /\ n < L
            BY <1>6, <2>2, <2>4
        <3>2. QED
            BY <1>3, <2>2, <3>1
    <2>5. QED
        BY <2>3, <2>4
<1>13. QED
    BY <1>9, <1>10, <1>11, <1>12 DEF arg, L

\* Every conversion of a string is right.
LEMMA TextRight ==
    ASSUME NEW it, it \in Items, ~(it.precision # None /\ it.precision < 0)
    PROVE  TextFits(it, Padded(Text(it), it))
<1> DEFINE s == Text(it)
           n == Len(s)
           text == Padded(s, it)
<1>1. s \in Seq(Int)
    BY TextType
<1>2. /\ n \in 0 .. Len(it.arg) /\ MayShow(it, n) /\ ~MayShow(it, n + 1)
      /\ \A i \in 1 .. n : s[i] = it.arg[i]
    BY TextLongest
<1> HIDE DEF s
<1>3. /\ Len(text) = (IF FieldWidth(it) > n THEN FieldWidth(it) ELSE n)
      /\ LET before == IF "LEFT" \in FlagsOf(it) THEN 0 ELSE Len(text) - n
         IN  \A i \in 1 .. Len(text) :
                text[i] = IF i - before \in 1 .. n THEN s[i - before] ELSE SPACE
    BY <1>1, PaddedText
<1> HIDE DEF n, text
<1>4. LET before == IF "LEFT" \in FlagsOf(it) THEN 0 ELSE Len(text) - n
      IN  \A i \in 1 .. Len(text) :
             text[i] = IF i - before \in 1 .. n THEN it.arg[i - before] ELSE SPACE
    BY <1>2, <1>3
<1>5. TextFits(it, text)
    BY <1>2, <1>3, <1>4 DEF TextFits
<1>6. QED
    BY <1>5 DEF text, s

(***************************************************************************)
(* Texts one after the other                                               *)
(***************************************************************************)

\* Where the parts of a text end.
Ends(e, seqs) ==
    /\ e \in [0 .. Len(seqs) -> Nat] /\ e[0] = 0
    /\ \A i \in 1 .. Len(seqs) : e[i] = e[i - 1] + Len(seqs[i])

\* The parts lie one after the other.
Flat(r, seqs, e, S) ==
    /\ r \in Seq(S) /\ Len(r) = e[Len(seqs)] /\ Ends(e, seqs)
    /\ \A i \in 1 .. Len(seqs) :
          e[i] <= Len(r) /\ \A j \in 1 .. Len(seqs[i]) : r[e[i - 1] + j] = seqs[i][j]

\* The function that FlattenSeq defines.
LEMMA FlattenRun ==
    ASSUME NEW S, NEW seqs, seqs \in Seq(Seq(S))
    PROVE  \E h \in [0 .. Len(seqs) -> Seq(S)] :
              /\ h[0] = <<>> /\ \A i \in 1 .. Len(seqs) : h[i] = h[i - 1] \o seqs[i]
              /\ FlattenSeq(seqs) = h[Len(seqs)]
<1> DEFINE n == Len(seqs)
           g == [p \in Seq(S) \X (1 .. n) |-> p[1] \o seqs[p[2]]]
           Is(f) == f = [i \in 1 .. n |-> IF i = 1 THEN seqs[i] ELSE f[i - 1] \o seqs[i]]
           flatten == CHOOSE f : Is(f)
<1>1. n \in Nat /\ \A i \in 1 .. n : seqs[i] \in Seq(S)
    OBVIOUS
<1>2. FlattenSeq(seqs) = IF n = 0 THEN seqs ELSE flatten[n]
    BY DEF FlattenSeq
<1>3. n = 0 => seqs = <<>>
    BY EmptySeq
<1> HIDE DEF n
<1>4. \A q \in Seq(S), i \in 1 .. n : g[<<q, i>>] = q \o seqs[i] /\ g[<<q, i>>] \in Seq(S)
    BY <1>1, ConcatProperties
<1> HIDE DEF g
<1>5. PICK h \in [0 .. n -> Seq(S)] :
          h = [i \in 0 .. n |-> IF i = 0 THEN <<>> ELSE g[<<h[i - 1], i>>]]
    <2>1. StepsIn(Seq(S), n, g)
        BY <1>4 DEF StepsIn
    <2>2. <<>> \in Seq(S)
        BY EmptySeq
    <2>3. HasRecursion(Seq(S), <<>>, n, g)
        BY <1>1, <2>1, <2>2, RecursiveRun
    <2>4. QED
        BY <2>3 DEF HasRecursion
<1>6. h[0] = <<>>
    <2>1. 0 \in 0 .. n
        BY <1>1
    <2>2. QED
        BY <1>5, <2>1
<1>7. ASSUME NEW i \in 1 .. n PROVE h[i] = h[i - 1] \o seqs[i]
    <2>1. i \in 0 .. n /\ i # 0 /\ i - 1 \in 0 .. n
        BY <1>1
    <2>2. h[i] = g[<<h[i - 1], i>>] /\ h[i - 1] \in Seq(S)
        BY <1>5, <2>1
    <2>3. QED
        BY <1>4, <2>2
<1>8. CASE n = 0
    BY <1>2, <1>3, <1>5, <1>6, <1>7, <1>8 DEF n
<1>9. CASE n # 0
    <2> DEFINE f0 == [i \in 1 .. n |-> h[i]]
    <2>1. ASSUME NEW i \in 1 .. n PROVE f0[i] = IF i = 1 THEN seqs[i] ELSE f0[i - 1] \o seqs[i]
        <3>1. f0[i] = h[i] /\ seqs[i] \in Seq(S)
            BY <1>1
        <3>2. CASE i = 1
            <4>1. h[i] = <<>> \o seqs[i]
                <5>1. i - 1 = 0
                    BY <3>2
                <5>2. h[i] = h[i - 1] \o seqs[i]
                    BY <1>7
                <5>3. QED
                    BY <1>6, <5>1, <5>2
            <4>2. QED
                BY <3>1, <3>2, <4>1, ConcatEmptySeq
        <3>3. CASE i # 1
            <4>1. i - 1 \in 1 .. n
                BY <1>1, <3>3
            <4>2. f0[i - 1] = h[i - 1]
                BY <4>1
            <4>3. QED
                BY <1>7, <3>1, <3>3, <4>2
        <3>4. QED
            BY <3>2, <3>3
    <2>2. Is(f0)
        BY <2>1
    <2>3. Is(flatten)
        <3> HIDE DEF Is, f0
        <3>1. QED
            BY <2>2
    <2> HIDE DEF flatten
    <2>4. \A i \in 1 .. n : flatten[i] = IF i = 1 THEN seqs[i] ELSE flatten[i - 1] \o seqs[i]
        BY <2>3
    <2> DEFINE T == {m \in Nat : m + 1 <= n => flatten[m + 1] = h[m + 1]}
    <2>5. 0 \in T
        <3>1. 1 \in 1 .. n /\ 1 - 1 = 0
            BY <1>1, <1>9
        <3>2. flatten[1] = seqs[1] /\ h[1] = <<>> \o seqs[1] /\ seqs[1] \in Seq(S)
            BY <1>1, <1>6, <1>7, <2>4, <3>1
        <3>3. <<>> \o seqs[1] = seqs[1]
            BY <3>2, ConcatEmptySeq
        <3>4. QED
            BY <3>2, <3>3
    <2>6. ASSUME NEW m \in Nat, m \in T PROVE m + 1 \in T
        <3> DEFINE i == m + 1 + 1
        <3>1. SUFFICES ASSUME i <= n PROVE flatten[i] = h[i]
            OBVIOUS
        <3>2. i \in 1 .. n /\ i # 1 /\ i - 1 = m + 1 /\ m + 1 <= n
            BY <1>1, <3>1
        <3>3. flatten[m + 1] = h[m + 1]
            BY <2>6, <3>2
        <3> HIDE DEF i
        <3>4. flatten[i] = flatten[i - 1] \o seqs[i]
            BY <2>4, <3>2
        <3>5. h[i] = h[i - 1] \o seqs[i]
            BY <1>7, <3>2
        <3>6. QED
            BY <3>2, <3>3, <3>4, <3>5
    <2> HIDE DEF T
    <2>7. n - 1 \in T /\ n - 1 + 1 = n
        <3>1. \A m \in Nat : m \in T
            BY <2>5, <2>6, SetInduction
        <3>2. QED
            BY <1>1, <1>9, <3>1
    <2>8. flatten[n] = h[n]
        BY <2>7 DEF T
    <2>9. QED
        BY <1>2, <1>5, <1>6, <1>7, <1>9, <2>8 DEF n, flatten
<1>10. QED
    BY <1>8, <1>9

\* FlattenSeq joins texts one after the other.
LEMMA FlattenIsFlat ==
    ASSUME NEW S, NEW seqs, seqs \in Seq(Seq(S))
    PROVE  \E e : Flat(FlattenSeq(seqs), seqs, e, S)
<1> DEFINE n == Len(seqs)
<1>1. PICK h \in [0 .. n -> Seq(S)] :
          /\ h[0] = <<>> /\ \A i \in 1 .. n : h[i] = h[i - 1] \o seqs[i]
          /\ FlattenSeq(seqs) = h[n]
    BY FlattenRun
<1>2. n \in Nat /\ \A i \in 1 .. n : seqs[i] \in Seq(S) /\ Len(seqs[i]) \in Nat
    BY LenProperties
<1> HIDE DEF n
<1> DEFINE e == [i \in 0 .. n |-> Len(h[i])]
           Done(i) == \A k \in 1 .. i :
                         e[k] <= e[i] /\ \A j \in 1 .. Len(seqs[k]) : h[i][e[k - 1] + j] = seqs[k][j]
           T == {i \in Nat : i <= n => Done(i)}
<1>3. e \in [0 .. n -> Nat] /\ e[0] = 0 /\ \A i \in 0 .. n : e[i] = Len(h[i]) /\ h[i] \in Seq(S)
    <2>1. \A i \in 0 .. n : Len(h[i]) \in Nat
        BY <1>1, LenProperties
    <2>2. 0 \in 0 .. n /\ Len(h[0]) = 0
        BY <1>1, <1>2, EmptySeq
    <2>3. QED
        BY <1>1, <2>1, <2>2
<1> HIDE DEF e
<1>4. ASSUME NEW i \in 1 .. n
      PROVE  /\ e[i] = e[i - 1] + Len(seqs[i]) /\ e[i] \in Nat /\ e[i - 1] \in Nat
             /\ \A j \in 1 .. e[i] : h[i][j] = IF j <= e[i - 1] THEN h[i - 1][j]
                                               ELSE seqs[i][j - e[i - 1]]
    <2>1. i \in 0 .. n /\ i - 1 \in 0 .. n
        BY <1>2
    <2>2. h[i - 1] \in Seq(S) /\ seqs[i] \in Seq(S) /\ h[i] = h[i - 1] \o seqs[i]
          /\ e[i] = Len(h[i]) /\ e[i - 1] = Len(h[i - 1])
        BY <1>1, <1>2, <1>3, <2>1
    <2>3. IsJoin(h[i], h[i - 1], seqs[i], S)
        BY <2>2, Joined
    <2>4. QED
        <3>1. /\ e[i - 1] \in Nat /\ Len(seqs[i]) \in Nat /\ Len(h[i]) = e[i - 1] + Len(seqs[i])
              /\ \A j \in 1 .. e[i - 1] + Len(seqs[i]) :
                    h[i][j] = IF j <= e[i - 1] THEN h[i - 1][j] ELSE seqs[i][j - e[i - 1]]
            BY <2>2, <2>3, Zenon DEF IsJoin
        <3>2. e[i] = e[i - 1] + Len(seqs[i])
            BY <2>2, <3>1
        <3>3. QED
            BY <3>1, <3>2
<1>5. 0 \in T
    OBVIOUS
<1>6. ASSUME NEW i \in Nat, i \in T PROVE i + 1 \in T
    <2>1. SUFFICES ASSUME i + 1 <= n PROVE Done(i + 1)
        OBVIOUS
    <2>2. i + 1 \in 1 .. n /\ i + 1 - 1 = i /\ i <= n
        BY <1>2, <2>1
    <2>3. /\ e[i + 1] = e[i] + Len(seqs[i + 1]) /\ e[i + 1] \in Nat /\ e[i] \in Nat
          /\ Len(seqs[i + 1]) \in Nat
          /\ \A j \in 1 .. e[i + 1] : h[i + 1][j] = IF j <= e[i] THEN h[i][j]
                                                    ELSE seqs[i + 1][j - e[i]]
        BY <1>2, <1>4, <2>2, SMTT(30)
    <2>4. Done(i)
        BY <1>6, <2>2
    <2>5. ASSUME NEW k \in 1 .. i + 1
          PROVE  e[k] <= e[i + 1] /\ \A j \in 1 .. Len(seqs[k]) : h[i + 1][e[k - 1] + j] = seqs[k][j]
        <3>1. CASE k = i + 1
            <4>1. ASSUME NEW j \in 1 .. Len(seqs[k]) PROVE h[i + 1][e[k - 1] + j] = seqs[k][j]
                <5>1. k - 1 = i /\ e[i] + j \in 1 .. e[i + 1] /\ ~ (e[i] + j <= e[i])
                      /\ (e[i] + j) - e[i] = j
                    BY <2>3, <3>1
                <5>2. h[i + 1][e[i] + j] = seqs[i + 1][(e[i] + j) - e[i]]
                    BY <2>3, <5>1
                <5>3. QED
                    BY <3>1, <5>1, <5>2
            <4>2. QED
                BY <2>3, <3>1, <4>1
        <3>2. CASE k # i + 1
            <4>1. k \in 1 .. i /\ k \in 1 .. n
                BY <1>2, <2>2, <3>2
            <4>2. e[k] <= e[i] /\ e[k] = e[k - 1] + Len(seqs[k]) /\ e[k - 1] \in Nat /\ e[k] \in Nat
                BY <1>4, <2>4, <4>1
            <4>3. ASSUME NEW j \in 1 .. Len(seqs[k]) PROVE h[i + 1][e[k - 1] + j] = seqs[k][j]
                <5>1. e[k - 1] + j \in 1 .. e[i + 1] /\ e[k - 1] + j <= e[i]
                    <6>1. Len(seqs[k]) \in Nat
                        BY <1>2, <4>1
                    <6>2. j >= 1 /\ j <= Len(seqs[k]) /\ j \in Nat
                        BY <6>1
                    <6>3. e[i] <= e[i + 1] /\ e[i] \in Nat /\ e[i + 1] \in Nat
                        BY <2>3
                    <6>4. e[k] \in Nat /\ e[k - 1] \in Nat /\ e[k] <= e[i]
                          /\ e[k - 1] + j <= e[k] /\ e[k - 1] + j >= 1
                        BY <4>2, <6>1, <6>2
                    <6>5. e[k - 1] + j <= e[i] /\ e[k - 1] + j <= e[i + 1]
                        BY <6>2, <6>3, <6>4, SMTT(30)
                    <6>6. QED
                        BY <6>2, <6>4, <6>5
                <5>2. h[i + 1][e[k - 1] + j] = h[i][e[k - 1] + j]
                    BY <2>3, <5>1
                <5>3. QED
                    BY <2>4, <4>1, <5>2
            <4>4. e[k] <= e[i + 1]
                <5>1. e[i] <= e[i + 1] /\ e[i] \in Nat /\ e[i + 1] \in Nat
                    BY <2>3
                <5>2. QED
                    BY <4>2, <5>1
            <4>5. QED
                BY <4>3, <4>4
        <3>3. QED
            BY <3>1, <3>2
    <2>6. QED
        BY <2>5
<1> HIDE DEF T
<1>7. Done(n)
    <2>1. \A i \in Nat : i \in T
        BY <1>5, <1>6, SetInduction
    <2>2. n \in T
        BY <1>2, <2>1
    <2> HIDE DEF Done
    <2>3. QED
        BY <1>2, <2>2 DEF T
<1>8. h[n] \in Seq(S) /\ Len(h[n]) = e[n]
    BY <1>2, <1>3
<1>9. Ends(e, seqs)
    BY <1>3, <1>4 DEF Ends, n
<1>10. Flat(FlattenSeq(seqs), seqs, e, S)
    BY <1>1, <1>7, <1>8, <1>9 DEF Flat, n
<1>11. QED
    BY <1>10

\* The parts of a longer text end where they do in its beginning.
LEMMA EndsAgree ==
    ASSUME NEW e, NEW f, NEW seqs, NEW some, Ends(e, seqs), Ends(f, some),
           Len(some) \in Nat, Len(some) <= Len(seqs), Len(seqs) \in Nat,
           \A i \in 1 .. Len(some) : some[i] = seqs[i]
    PROVE  f[Len(some)] = e[Len(some)]
<1> DEFINE n == Len(some)
<1>1. f[0] = e[0]
    BY DEF Ends
<1>2. ASSUME NEW i \in 1 .. n, f[i - 1] = e[i - 1] PROVE f[i] = e[i]
    <2>1. i \in 1 .. Len(seqs)
        OBVIOUS
    <2>2. f[i] = f[i - 1] + Len(some[i]) /\ e[i] = e[i - 1] + Len(seqs[i])
        BY <2>1 DEF Ends
    <2>3. QED
        BY <1>2, <2>2
<1>3. Follows(f, e, n)
    BY <1>1, <1>2 DEF Follows
<1>4. Agree(f, e, n)
    BY <1>3, SameRun
<1>5. QED
    BY <1>4 DEF Agree

(***************************************************************************)
(* Addresses                                                               *)
(***************************************************************************)

\* The characters that do not separate bytes.
Dotless == Int \ {POINT, COLON}

\* A field without separators that reads back as a byte.
IsByte(text, byte, base, others) ==
    text \in Seq(Dotless) /\ Read(DigitsIn(text, base, others), base) = byte

\* number makes such a field of every byte.
LEMMA ByteSeen ==
    ASSUME NEW byte \in Nat, NEW base \in Bases, NEW size \in Int, NEW precision \in Int,
           NEW flags, NEW others, "SPECIAL" \in flags <=> "SPECIAL" \in others,
           "DOUBLE" \notin flags, "SIGN" \notin flags
    PROVE  IsByte(number(byte, base, size, precision, flags), byte, base, others)
<1> DEFINE text == number(byte, base, size, precision, flags)
           digits == DigitsOf(byte, base, flags)
           prefix == PrefixOf(base, flags)
           negative == Negative(byte, flags)
<1>1. ~negative
    BY DEF Negative
<1>2. digits = Digits(byte, base, flags)
    BY <1>1 DEF DigitsOf
<1>3. Spells(digits, byte, base, flags) /\ Proper(digits)
    BY <1>2, DigitsSpell
<1> HIDE DEF negative, digits
<1>4. digits \in Seq(Ink) /\ digits # <<>>
    BY <1>3, SpelledInk DEF Proper
<1>5. PICK a, sign, k, b :
          /\ Laid(text, size, precision, flags, negative, prefix, digits, a, sign, k, b)
          /\ Seen(text, base, others, prefix, digits, a, sign, k, b)
    BY <1>4, NumberSeen DEF digits, negative
<1> HIDE DEF text, prefix
<1>6. a \in Nat /\ k \in Nat /\ b \in Nat /\ sign \in {<<>>, <<PLUS>>, <<MINUS>>}
    BY <1>5 DEF Laid
<1>7. Read(DigitsIn(text, base, others), base) = byte
    <2>1. DigitsIn(text, base, others) = Zeros(k) \o digits
        BY <1>5 DEF Seen
    <2>2. Spells(Zeros(k) \o digits, byte, base, flags)
        BY <1>3, <1>6, ZerosSpell
    <2>3. QED
        BY <2>1, <2>2, ReadSpelled
<1>8. text \in Seq(Dotless)
    <2>1. SPACE \in Dotless /\ ZERO \in Dotless /\ PLUS \in Dotless /\ MINUS \in Dotless
          /\ 88 \in Dotless /\ 120 \in Dotless
        BY DEF Dotless, SPACE, ZERO, PLUS, MINUS, POINT, COLON
    <2>2. ASSUME NEW n \in Nat PROVE Spaces(n) \in Seq(Dotless) /\ Zeros(n) \in Seq(Dotless)
        <3>1. Spaces(n) \in [1 .. n -> Dotless] /\ Zeros(n) \in [1 .. n -> Dotless]
            BY <2>1 DEF Spaces, Zeros
        <3>2. QED
            BY <3>1, FunctionIsText
    <2>3. sign \in Seq(Dotless)
        <3>1. <<>> \in Seq(Dotless) /\ <<PLUS>> \in Seq(Dotless) /\ <<MINUS>> \in Seq(Dotless)
            BY <2>1
        <3>2. QED
            BY <1>6, <3>1
    <2>4. prefix \in Seq(Dotless)
        <3>1. prefix \in {<<>>, <<ZERO>>, <<ZERO, 88>>, <<ZERO, 120>>}
            BY DEF PrefixOf, LETTER_X, prefix
        <3>2. <<>> \in Seq(Dotless) /\ <<ZERO>> \in Seq(Dotless) /\ <<ZERO, 88>> \in Seq(Dotless)
              /\ <<ZERO, 120>> \in Seq(Dotless)
            BY <2>1
        <3>3. QED
            BY <3>1, <3>2, ZenonT(40)
    <2>5. digits \in Seq(Dotless)
        <3>1. digits \in Seq(Int) /\ \A i \in 1 .. Len(digits) : digits[i] \notin Signs
            BY <1>3, SpelledCharacters
        <3>2. \A i \in 1 .. Len(digits) : digits[i] \in Dotless
            BY <3>1 DEF Dotless, Signs
        <3>3. digits \in [1 .. Len(digits) -> Dotless] /\ Len(digits) \in Nat
            BY <3>1, <3>2
        <3>4. QED
            BY <3>3, FunctionIsText
    <2>6. Zeros(k) \o digits \in Seq(Dotless)
        BY <1>6, <2>2, <2>5, ConcatProperties
    <2>7. prefix \o (Zeros(k) \o digits) \in Seq(Dotless)
        BY <2>4, <2>6, ConcatProperties
    <2>8. sign \o (prefix \o (Zeros(k) \o digits)) \in Seq(Dotless)
        BY <2>3, <2>7, ConcatProperties
    <2>9. Spaces(a) \o (sign \o (prefix \o (Zeros(k) \o digits))) \in Seq(Dotless)
        BY <1>6, <2>2, <2>8, ConcatProperties
    <2>10. Field(a, sign, prefix, k, digits, b) \in Seq(Dotless)
        BY <1>6, <2>2, <2>9, ConcatProperties DEF Field
    <2>11. QED
        BY <1>5, <2>10 DEF Laid
<1>9. QED
    BY <1>7, <1>8 DEF text, IsByte

\* The fields of bytes, each before a separator but the last.
Separated(fields, sep) == Front(FlattenSeq([i \in 1 .. Len(fields) |-> fields[i] \o <<sep>>]))

\* The places of the separators, as BytesFit finds them.
CutOf(text, sep, n) == CHOOSE cut :
    cut = [i \in 0 .. n |-> IF i = 0 THEN 0
                            ELSE cut[i - 1] + PlaceOf(sep, SubSeq(text, cut[i - 1] + 1, Len(text)))]

\* Between the separators stand the fields.
LEMMA FieldsAreCut ==
    ASSUME NEW sep \in {POINT, COLON}, NEW fields, fields \in Seq(Seq(Dotless)), fields # <<>>
    PROVE  LET text == Separated(fields, sep)
               cut == CutOf(text, sep, Len(fields))
           IN  /\ text \in Seq(Int)
               /\ cut[Len(fields)] = Len(text) + 1
               /\ \A i \in 1 .. Len(fields) : SubSeq(text, cut[i - 1] + 1, cut[i] - 1) = fields[i]
<1> DEFINE n == Len(fields)
           seqs == [i \in 1 .. n |-> fields[i] \o <<sep>>]
           all == FlattenSeq(seqs)
           text == Separated(fields, sep)
<1>1. n \in Nat \ {0}
    BY EmptySeq, LenProperties
<1>2. sep \in Int /\ sep \notin Dotless /\ Dotless \subseteq Int
    BY DEF Dotless, POINT, COLON
<1>3. ASSUME NEW i \in 1 .. n
      PROVE  /\ fields[i] \in Seq(Int) /\ Len(fields[i]) \in Nat
             /\ seqs[i] \in Seq(Int) /\ Len(seqs[i]) = Len(fields[i]) + 1
             /\ \A j \in 1 .. Len(fields[i]) : fields[i][j] # sep /\ seqs[i][j] = fields[i][j]
             /\ seqs[i][Len(fields[i]) + 1] = sep
    <2>1. fields[i] \in Seq(Dotless) /\ seqs[i] = fields[i] \o <<sep>>
        OBVIOUS
    <2>2. fields[i] \in Seq(Int) /\ Len(fields[i]) \in Nat
        BY <1>2, <2>1, SeqMonotonic, LenProperties
    <2>3. <<sep>> \in Seq(Int) /\ Len(<<sep>>) = 1 /\ <<sep>>[1] = sep
        BY <1>2
    <2>4. \A j \in 1 .. Len(fields[i]) : fields[i][j] # sep
        BY <1>2, <2>1
    <2> HIDE DEF seqs
    <2>5. IsJoin(seqs[i], fields[i], <<sep>>, Int)
        BY <2>1, <2>2, <2>3, Joined
    <2>6. /\ seqs[i] \in Seq(Int) /\ Len(seqs[i]) = Len(fields[i]) + 1
          /\ \A j \in 1 .. Len(fields[i]) + 1 :
                seqs[i][j] = IF j <= Len(fields[i]) THEN fields[i][j]
                             ELSE <<sep>>[j - Len(fields[i])]
        BY <2>3, <2>5 DEF IsJoin
    <2>7. seqs[i][Len(fields[i]) + 1] = sep
        <3>1. Len(fields[i]) + 1 \in 1 .. Len(fields[i]) + 1
              /\ ~ (Len(fields[i]) + 1 <= Len(fields[i]))
              /\ (Len(fields[i]) + 1) - Len(fields[i]) = 1
            BY <2>2
        <3>2. seqs[i][Len(fields[i]) + 1] = <<sep>>[(Len(fields[i]) + 1) - Len(fields[i])]
            BY <2>6, <3>1
        <3>3. QED
            BY <2>3, <3>1, <3>2
    <2>8. \A j \in 1 .. Len(fields[i]) : seqs[i][j] = fields[i][j]
        <3>1. \A j \in 1 .. Len(fields[i]) : j \in 1 .. Len(fields[i]) + 1 /\ j <= Len(fields[i])
            BY <2>2
        <3>2. QED
            BY <2>6, <3>1
    <2>9. QED
        BY <2>2, <2>4, <2>6, <2>7, <2>8
<1>4. seqs \in Seq(Seq(Int)) /\ Len(seqs) = n
    <2>1. seqs = [i \in 1 .. n |-> seqs[i]]
        OBVIOUS
    <2> HIDE DEF seqs
    <2>2. seqs \in [1 .. n -> Seq(Int)]
        BY <1>3, <2>1
    <2>3. QED
        BY <1>1, <2>2, FunctionIsText
<1>5. text = Front(all)
    BY DEF Separated
<1> HIDE DEF seqs, text, n
<1>6. PICK e : Flat(all, seqs, e, Int)
    BY <1>4, FlattenIsFlat
<1> HIDE DEF all
<1>7. /\ all \in Seq(Int) /\ Len(all) = e[n]
      /\ e \in [0 .. n -> Nat] /\ e[0] = 0
      /\ \A i \in 1 .. n :
            /\ e[i] = e[i - 1] + Len(seqs[i]) /\ e[i] <= Len(all)
            /\ \A j \in 1 .. Len(seqs[i]) : all[e[i - 1] + j] = seqs[i][j]
    BY <1>4, <1>6 DEF Flat, Ends
<1>8. ASSUME NEW i \in 1 .. n
      PROVE  /\ e[i - 1] \in Nat /\ e[i] \in Nat /\ e[i] <= e[n]
             /\ e[i] = e[i - 1] + Len(fields[i]) + 1
             /\ \A j \in 1 .. Len(fields[i]) : all[e[i - 1] + j] = fields[i][j]
             /\ all[e[i]] = sep
    <2>1. i \in 0 .. n /\ i - 1 \in 0 .. n
        BY <1>1
    <2>2. e[i - 1] \in Nat /\ e[i] \in Nat
        BY <1>7, <2>1
    <2>3. e[i] = e[i - 1] + Len(fields[i]) + 1 /\ e[i] <= e[n]
        BY <1>3, <1>7, <2>2
    <2>4. ASSUME NEW j \in 1 .. Len(fields[i]) PROVE all[e[i - 1] + j] = fields[i][j]
        <3>1. seqs[i][j] = fields[i][j] /\ Len(fields[i]) \in Nat
              /\ Len(seqs[i]) = Len(fields[i]) + 1
            BY <1>3, ZenonT(30)
        <3>2. j \in 1 .. Len(seqs[i])
            BY <3>1
        <3>3. QED
            BY <1>7, <3>1, <3>2
    <2>5. all[e[i]] = sep
        <3>1. Len(fields[i]) + 1 \in 1 .. Len(seqs[i]) /\ seqs[i][Len(fields[i]) + 1] = sep
            <4>1. Len(fields[i]) \in Nat /\ Len(seqs[i]) = Len(fields[i]) + 1
                  /\ seqs[i][Len(fields[i]) + 1] = sep
                BY <1>3
            <4>2. QED
                BY <4>1
        <3>2. all[e[i - 1] + (Len(fields[i]) + 1)] = sep
            BY <1>7, <3>1
        <3>3. e[i] = e[i - 1] + (Len(fields[i]) + 1)
            BY <1>3, <2>2, <2>3
        <3>4. QED
            BY <3>2, <3>3
    <2>6. QED
        BY <2>2, <2>3, <2>4, <2>5
<1>9. e[n] \in Nat /\ e[n] >= 1
    <2>1. n \in 1 .. n
        BY <1>1
    <2>2. QED
        <3>1. e[n - 1] \in Nat /\ e[n] = e[n - 1] + Len(fields[n]) + 1
            BY <1>8, <2>1
        <3>2. Len(fields[n]) \in Nat
            BY <1>3, <2>1
        <3>3. QED
            BY <3>1, <3>2
<1>10. text \in Seq(Int) /\ Len(text) = e[n] - 1 /\ \A j \in 1 .. e[n] - 1 : text[j] = all[j]
    <2>1. text = SubSeq(all, 1, Len(all) - 1)
        BY <1>5 DEF Front
    <2>2. Len(all) - 1 \in 0 .. Len(all) /\ Len(all) - 1 = e[n] - 1
        BY <1>7, <1>9
    <2>3. IsPart(text, all, 0, Len(all) - 1, Int)
        BY <1>7, <2>1, <2>2, Beginning
    <2>4. \A j \in 1 .. e[n] - 1 : 0 + j = j
        OBVIOUS
    <2>5. QED
        BY <2>2, <2>3, <2>4 DEF IsPart
<1>11. ASSUME NEW i \in 1 .. n
       PROVE  /\ e[i] = e[i - 1] + PlaceOf(sep, SubSeq(text, e[i - 1] + 1, Len(text)))
              /\ SubSeq(text, e[i - 1] + 1, e[i] - 1) = fields[i]
    <2> DEFINE m == e[i - 1]
               z == e[i]
               f == fields[i]
               l == Len(f)
               t == Len(text)
               rest == SubSeq(text, m + 1, t)
               part == SubSeq(text, m + 1, z - 1)
    <2>1. /\ m \in Nat /\ z \in Nat /\ z <= e[n] /\ z = m + l + 1
          /\ \A j \in 1 .. l : all[m + j] = f[j]
          /\ all[z] = sep
        BY <1>8
    <2>2. f \in Seq(Int) /\ l \in Nat /\ \A j \in 1 .. l : f[j] # sep
        BY <1>3
    <2>3. Len(f) = l /\ Len(text) = t
        OBVIOUS
    <2> HIDE DEF m, z, f, l, t
    <2>4. t \in Nat /\ e[n] = t + 1 /\ \A j \in 1 .. t : text[j] = all[j]
        BY <1>9, <1>10, <2>3
    <2>5. m + l <= t /\ t - m \in Nat /\ t = m + (t - m) /\ t <= t /\ z - 1 = m + l
        BY <2>1, <2>2, <2>4
    <2>6. \A j \in 1 .. l : text[m + j] = f[j]
        <3>1. \A j \in 1 .. l : m + j \in 1 .. t
            BY <2>1, <2>2, <2>5
        <3>2. QED
            BY <2>1, <2>4, <3>1
    <2>7. IsPart(rest, text, m, t - m, Int)
        BY <1>10, <2>1, <2>3, <2>4, <2>5, PartOf
    <2>8. IsPart(part, text, m, l, Int)
        BY <1>10, <2>1, <2>2, <2>3, <2>5, PartOf
    <2> HIDE DEF rest, part
    <2>9. part = f
        <3>1. part \in Seq(Int) /\ Len(part) = l /\ \A j \in 1 .. l : part[j] = text[m + j]
            BY <2>8 DEF IsPart
        <3>2. \A j \in 1 .. Len(part) : part[j] = f[j]
            BY <2>6, <3>1
        <3>3. QED
            BY <2>2, <2>3, <3>1, <3>2, SeqEqual
    <2>10. rest \in Seq(Int) /\ Len(rest) = t - m
           /\ \A j \in 1 .. t - m : rest[j] = text[m + j]
        BY <2>7 DEF IsPart
    <2> DEFINE p == l + 1
    <2>11. p \in 1 .. Len(rest) + 1
           /\ \A j \in 1 .. p - 1 : j \in 1 .. t - m /\ j \in 1 .. l
        BY <2>1, <2>2, <2>4, <2>5, <2>10
    <2>12. \A j \in 1 .. p - 1 : rest[j] # sep
        BY <2>2, <2>6, <2>10, <2>11
    <2>13. p <= Len(rest) => rest[p] = sep
        <3>1. SUFFICES ASSUME p <= t - m PROVE rest[p] = sep
            BY <2>10
        <3>2. p \in 1 .. t - m /\ m + p = z /\ z \in 1 .. t
            BY <2>1, <2>2, <2>4, <3>1
        <3> HIDE DEF p
        <3>3. rest[p] = text[m + p]
            BY <2>10, <3>2
        <3>4. QED
            BY <2>1, <2>4, <3>2, <3>3
    <2> HIDE DEF p
    <2>14. PlaceOf(sep, rest) = p
        BY <2>10, <2>11, <2>12, <2>13, PlaceOfIs
    <2>15. z = m + p
        BY <2>1, <2>2 DEF p
    <2>16. QED
        BY <2>9, <2>14, <2>15 DEF m, z, f, t, rest, part
<1> DEFINE Is(c) == c = [i \in 0 .. n |->
                            IF i = 0 THEN 0
                            ELSE c[i - 1] + PlaceOf(sep, SubSeq(text, c[i - 1] + 1, Len(text)))]
           cut == CutOf(text, sep, n)
<1>12. Is(e)
    <2>1. \A i \in 0 .. n : i = 0 \/ i \in 1 .. n
        BY <1>1
    <2>2. \A i \in 0 .. n :
              e[i] = IF i = 0 THEN 0
                     ELSE e[i - 1] + PlaceOf(sep, SubSeq(text, e[i - 1] + 1, Len(text)))
        BY <1>7, <1>11, <2>1
    <2>3. QED
        BY <1>7, <2>2
<1>13. Is(cut)
    <2>1. cut = CHOOSE c : Is(c)
        BY DEF CutOf
    <2> HIDE DEF Is, cut
    <2>2. QED
        BY <1>12, <2>1
<1> HIDE DEF cut
<1>14. \A i \in 0 .. n : cut[i] = e[i]
    <2>1. \A i \in 0 .. n :
              cut[i] = IF i = 0 THEN 0
                       ELSE cut[i - 1] + PlaceOf(sep, SubSeq(text, cut[i - 1] + 1, Len(text)))
        BY <1>13
    <2>2. cut[0] = e[0]
        BY <1>1, <1>7, <2>1
    <2>3. ASSUME NEW i \in 1 .. n, cut[i - 1] = e[i - 1] PROVE cut[i] = e[i]
        <3>1. i \in 0 .. n /\ i # 0
            BY <1>1
        <3>2. cut[i] = cut[i - 1] + PlaceOf(sep, SubSeq(text, cut[i - 1] + 1, Len(text)))
            BY <2>1, <3>1
        <3>3. QED
            BY <1>11, <2>3, <3>2
    <2>4. Follows(cut, e, n)
        BY <2>2, <2>3 DEF Follows
    <2>5. Agree(cut, e, n)
        BY <1>1, <2>4, SameRun
    <2>6. QED
        BY <2>5 DEF Agree
<1>15. cut[n] = Len(text) + 1
    BY <1>1, <1>9, <1>10, <1>14
<1>16. ASSUME NEW i \in 1 .. n PROVE SubSeq(text, cut[i - 1] + 1, cut[i] - 1) = fields[i]
    <2>1. i \in 0 .. n /\ i - 1 \in 0 .. n
        BY <1>1
    <2>2. cut[i] = e[i] /\ cut[i - 1] = e[i - 1]
        BY <1>14, <2>1
    <2>3. QED
        BY <1>11, <2>2
<1>17. QED
    BY <1>10, <1>15, <1>16 DEF text, cut, n

\* Every conversion of a MAC or an IP address is right.
LEMMA BytesRight ==
    ASSUME NEW it, Parsed(it), it.conv \in {"m", "r"}
    PROVE  Convert(it) \in Seq(Int) /\ BytesFit(it, Convert(it))
<1> DEFINE n == IF it.conv = "m" THEN 6 ELSE 4
           base == IF it.conv = "m" THEN 16 ELSE 10
           sep == IF it.conv = "m" THEN COLON ELSE POINT
           size == IF it.conv = "m" THEN 2 ELSE FieldWidth(it)
           flags == FlagsOf(it) \cup (IF it.conv = "m" THEN {"SMALL", "ZEROPAD"} ELSE {"SMALL"})
           fields == [i \in 1 .. n |-> number(it.arg[i], base, size, Precision(it), flags)]
           text == Separated(fields, sep)
           cut == CutOf(text, sep, n)
<1>1. it \in Items /\ (it.conv = "m" \/ it.conv = "r") /\ \A i \in 1 .. n : it.arg[i] \in Nat
    <2>1. CASE it.conv = "m"
        <3>1. \A i \in 1 .. 6 : it.arg[i] \in 0 .. 255
            BY <2>1 DEF Parsed
        <3>2. it \in Items /\ n = 6
            BY <2>1 DEF Parsed
        <3>3. \A i \in 1 .. 6 : it.arg[i] \in Nat
            <4>1. \A x \in 0 .. 255 : x \in Nat
                OBVIOUS
            <4>2. QED
                BY <3>1, <4>1, Zenon
        <3> HIDE DEF n
        <3>4. QED
            BY <2>1, <3>2, <3>3
    <2>2. CASE it.conv = "r"
        <3>1. \A i \in 1 .. 4 : it.arg[i] \in 0 .. 255
            BY <2>2 DEF Parsed
        <3>2. it \in Items /\ n = 4
            BY <2>2 DEF Parsed
        <3>3. \A i \in 1 .. 4 : it.arg[i] \in Nat
            <4>1. \A x \in 0 .. 255 : x \in Nat
                OBVIOUS
            <4>2. QED
                BY <3>1, <4>1, Zenon
        <3> HIDE DEF n
        <3>4. QED
            BY <2>2, <3>2, <3>3
    <2>3. QED
        BY <2>1, <2>2
<1>2. n \in Nat \ {0} /\ base \in Bases /\ sep \in {POINT, COLON}
    BY DEF Bases
<1>3. size \in Int /\ Precision(it) \in Int /\ FlagsOf(it) \subseteq FlagNames
      /\ \A flag : flag # "LEFT" => (flag \in FlagsOf(it) <=> flag \in it.flags)
    BY <1>1, WidthTypes
<1>4. ("SPECIAL" \in flags <=> "SPECIAL" \in it.flags) /\ "DOUBLE" \notin flags /\ "SIGN" \notin flags
    BY <1>3 DEF FlagNames
<1> HIDE DEF flags
<1>5. ASSUME NEW i \in 1 .. n
      PROVE  fields[i] \in Seq(Dotless) /\ Read(DigitsIn(fields[i], base, it.flags), base) = it.arg[i]
    <2>1. fields[i] = number(it.arg[i], base, size, Precision(it), flags) /\ it.arg[i] \in Nat
        BY <1>1
    <2> HIDE DEF fields, base, size
    <2>2. IsByte(number(it.arg[i], base, size, Precision(it), flags), it.arg[i], base, it.flags)
        BY <1>2, <1>3, <1>4, <2>1, ByteSeen
    <2>3. QED
        BY <2>1, <2>2 DEF IsByte
<1>6. fields \in Seq(Seq(Dotless)) /\ Len(fields) = n /\ fields # <<>>
    <2>1. fields = [i \in 1 .. n |-> fields[i]]
        OBVIOUS
    <2> HIDE DEF fields
    <2>2. fields \in [1 .. n -> Seq(Dotless)]
        BY <1>5, <2>1
    <2> HIDE DEF n
    <2>3. fields \in Seq(Seq(Dotless)) /\ Len(fields) = n
        BY <1>2, <2>2, FunctionIsText
    <2>4. QED
        BY <1>2, <2>3, EmptySeq
<1>7. Convert(it) = text
    <2>1. Len(fields) = n
        BY <1>6
    <2>2. text = Front(FlattenSeq([i \in 1 .. n |->
                     number(it.arg[i], base, size, Precision(it), flags) \o <<sep>>]))
        <3>1. [i \in 1 .. Len(fields) |-> fields[i] \o <<sep>>]
                  = [i \in 1 .. n |->
                        number(it.arg[i], base, size, Precision(it), flags) \o <<sep>>]
            BY <2>1
        <3> HIDE DEF fields
        <3>2. QED
            BY <3>1 DEF Separated
    <2>3. CASE it.conv = "m"
        <3>1. Convert(it) = MacAddress(it)
            BY <2>3 DEF Convert
        <3>2. n = 6 /\ base = 16 /\ size = 2 /\ sep = COLON
              /\ flags = FlagsOf(it) \cup {"SMALL", "ZEROPAD"}
            BY <2>3 DEF flags
        <3> HIDE DEF n, base, size, sep, text
        <3>3. QED
            BY <2>2, <3>1, <3>2 DEF MacAddress
    <2>4. CASE it.conv # "m"
        <3>1. Convert(it) = IpAddress(it)
            BY <1>1, <2>4 DEF Convert
        <3>2. n = 4 /\ base = 10 /\ size = FieldWidth(it) /\ sep = POINT
              /\ flags = FlagsOf(it) \cup {"SMALL"}
            BY <2>4 DEF flags
        <3> HIDE DEF n, base, size, sep, text
        <3>3. QED
            BY <2>2, <3>1, <3>2 DEF IpAddress
    <2>5. QED
        BY <2>3, <2>4
<1> HIDE DEF fields
<1>8. /\ text \in Seq(Int)
      /\ cut[n] = Len(text) + 1
      /\ \A i \in 1 .. n : SubSeq(text, cut[i - 1] + 1, cut[i] - 1) = fields[i]
    <2> HIDE DEF sep, n
    <2>1. QED
        BY <1>2, <1>6, FieldsAreCut
<1> HIDE DEF text
<1>9. \A i \in 1 .. n :
          Read(DigitsIn(SubSeq(text, cut[i - 1] + 1, cut[i] - 1), base, it.flags), base) = it.arg[i]
    <2> HIDE DEF cut, n, base
    <2>1. QED
        BY <1>5, <1>8
<1>10. BytesFit(it, text)
    BY <1>8, <1>9, Zenon DEF BytesFit, CutOf
<1>11. QED
    BY <1>7, <1>8, <1>10

\* Every conversion, for every item that the parser makes.
LEMMA ConvertRight ==
    ASSUME NEW it, Parsed(it)
    PROVE  Convert(it) \in Seq(Int) /\ Fits(it, Convert(it))
<1>1. it \in Items /\ it.conv \in Convs /\ it.arg \in Seq(Int)
    BY DEF Parsed, Items
<1>2. CASE it.conv \in IntegerConvs
    <2>1. Convert(it) = Integer(it)
        BY <1>2 DEF Convert, IntegerConvs
    <2>2. IntegerFits(it, Integer(it)) /\ Integer(it) \in Seq(Int)
        BY <1>2, IntegerRight
    <2>3. QED
        BY <1>2, <2>1, <2>2 DEF Fits, IntegerConvs
<1>3. CASE it.conv = "f"
    <2>1. Convert(it) = Integer(it)
        BY <1>3 DEF Convert
    <2>2. DoubleFits(it, Integer(it)) /\ Integer(it) \in Seq(Int)
        BY <1>3, DoubleRight
    <2>3. QED
        BY <1>3, <2>1, <2>2 DEF Fits, IntegerConvs
<1>4. CASE it.conv = "s"
    <2>1. Convert(it) = Padded(Text(it), it)
        BY <1>4 DEF Convert
    <2>2. Padded(Text(it), it) \in Seq(Int)
        BY <1>1, TextType, PaddedText
    <2>3. ~(it.precision # None /\ it.precision < 0) => TextFits(it, Padded(Text(it), it))
        BY <1>1, TextRight
    <2>4. Fits(it, Padded(Text(it), it))
        <3>1. CASE it.precision # None /\ it.precision < 0
            BY <3>1, Zenon DEF Fits
        <3>2. CASE ~(it.precision # None /\ it.precision < 0)
            BY <1>4, <2>3, <3>2 DEF Fits, IntegerConvs
        <3>3. QED
            BY <3>1, <3>2
    <2>5. QED
        BY <2>1, <2>2, <2>4
<1>5. CASE it.conv \in {"m", "r"}
    <2>1. Convert(it) \in Seq(Int) /\ BytesFit(it, Convert(it))
        BY <1>5, BytesRight
    <2>2. QED
        BY <1>5, <2>1 DEF Fits, IntegerConvs
<1>6. CASE it.conv = "c"
    <2>1. Convert(it) = Padded(it.arg, it)
        BY <1>6 DEF Convert
    <2>2. Padded(it.arg, it) \in Seq(Int)
        BY <1>1, PaddedText
    <2>3. QED
        BY <1>6, <2>1, <2>2 DEF Fits, IntegerConvs
<1>7. CASE it.conv = "lit"
    <2>1. Convert(it) = it.arg
        BY <1>7 DEF Convert
    <2>2. QED
        BY <1>1, <1>7, <2>1 DEF Fits, IntegerConvs
<1>8. QED
    BY <1>1, <1>2, <1>3, <1>4, <1>5, <1>6, <1>7 DEF Convs

(***************************************************************************)
(* Formats and calls                                                       *)
(***************************************************************************)

\* A format as the parser hands it on.
ParsedFormat(format) ==
    format \in Seq(Items) /\ \A i \in 1 .. Len(format) : Parsed(format[i])

\* What a format makes, conversion by conversion.
Conversions(format) == [i \in 1 .. Len(format) |-> Convert(format[i])]

\* How far the first conversions of a format reach.
Reach(format, i) == Len(vsprintf(SubSeq(format, 1, i)))

\* vsprintf writes the conversions one after the other.
LEMMA VsprintfFlat ==
    ASSUME NEW format, ParsedFormat(format)
    PROVE  /\ \E e : Flat(vsprintf(format), Conversions(format), e, Int)
           /\ Len(Conversions(format)) = Len(format) /\ Len(format) \in Nat
           /\ vsprintf(format) \in Seq(Int)
<1>1. Len(format) \in Nat
    BY LenProperties DEF ParsedFormat
<1>2. \A i \in 1 .. Len(format) : Convert(format[i]) \in Seq(Int)
    BY ConvertRight DEF ParsedFormat
<1>3. Conversions(format) \in [1 .. Len(format) -> Seq(Int)]
    BY <1>2 DEF Conversions
<1>4. Conversions(format) \in Seq(Seq(Int)) /\ Len(Conversions(format)) = Len(format)
    BY <1>1, <1>3, FunctionIsText
<1>5. vsprintf(format) = FlattenSeq(Conversions(format))
    BY DEF vsprintf, Conversions
<1>6. PICK e : Flat(vsprintf(format), Conversions(format), e, Int)
    BY <1>4, <1>5, FlattenIsFlat
<1>7. vsprintf(format) \in Seq(Int)
    BY <1>6 DEF Flat
<1>8. QED
    BY <1>1, <1>4, <1>6, <1>7

\* The beginning of a format is a format.
LEMMA BeginningParsed ==
    ASSUME NEW format, ParsedFormat(format), NEW n \in 0 .. Len(format)
    PROVE  LET some == SubSeq(format, 1, n)
           IN  /\ ParsedFormat(some) /\ Len(some) = n
               /\ \A i \in 1 .. n : some[i] = format[i]
<1> DEFINE some == SubSeq(format, 1, n)
<1>1. format \in Seq(Items) /\ Len(format) \in Nat
    BY LenProperties DEF ParsedFormat
<1>2. IsPart(some, format, 0, n, Items)
    BY <1>1, Beginning
<1> HIDE DEF some
<1>3. some \in Seq(Items) /\ Len(some) = n /\ \A i \in 1 .. n : some[i] = format[i]
    <2>1. \A i \in 1 .. n : 0 + i = i
        BY <1>1
    <2>2. QED
        BY <1>2, <2>1 DEF IsPart
<1>4. \A i \in 1 .. n : Parsed(format[i])
    BY <1>1 DEF ParsedFormat
<1>5. QED
    BY <1>3, <1>4 DEF ParsedFormat, some

\* Each conversion stands where the ones before it end.
InPlace(format, i) ==
    LET text == Convert(format[i])
    IN  /\ Reach(format, i - 1) \in Nat /\ Reach(format, i) \in Nat /\ Len(text) \in Nat
        /\ Reach(format, i) = Reach(format, i - 1) + Len(text)
        /\ Reach(format, i) <= Len(vsprintf(format))
        /\ \A j \in 1 .. Len(text) : vsprintf(format)[Reach(format, i - 1) + j] = text[j]

\* In what vsprintf writes, each conversion stands where the ones before it end.
LEMMA ConversionsInPlace ==
    ASSUME NEW format, ParsedFormat(format), NEW i \in 1 .. Len(format)
    PROVE  InPlace(format, i)
<1> DEFINE n == Len(format)
           seqs == Conversions(format)
           v == vsprintf(format)
<1>1. PICK e : Flat(v, seqs, e, Int)
    BY VsprintfFlat
<1>2. n \in Nat /\ Len(seqs) = n /\ seqs = [k \in 1 .. n |-> Convert(format[k])]
    BY VsprintfFlat DEF Conversions
<1> HIDE DEF n, seqs, v
<1>3. ASSUME NEW k \in 0 .. n PROVE Reach(format, k) = e[k]
    <2> DEFINE some == SubSeq(format, 1, k)
               parts == Conversions(some)
    <2>1. ParsedFormat(some) /\ Len(some) = k /\ \A m \in 1 .. k : some[m] = format[m]
        BY <1>3, BeginningParsed DEF n
    <2> HIDE DEF some
    <2>2. PICK f : Flat(vsprintf(some), parts, f, Int)
        BY <2>1, VsprintfFlat
    <2>3. Len(parts) = k /\ parts = [m \in 1 .. k |-> Convert(some[m])]
        BY <2>1, VsprintfFlat DEF Conversions
    <2>4. \A m \in 1 .. k : parts[m] = seqs[m]
        <3>1. \A m \in 1 .. k : m \in 1 .. n
            BY <1>2
        <3> HIDE DEF parts
        <3>2. QED
            BY <1>2, <2>1, <2>3, <3>1
    <2> HIDE DEF parts
    <2>5. Ends(f, parts) /\ Ends(e, seqs)
        BY <1>1, <2>2 DEF Flat
    <2>6. k \in Nat /\ k <= n
        BY <1>2
    <2>7. f[Len(parts)] = e[Len(parts)]
        <3>1. Len(parts) \in Nat /\ Len(seqs) \in Nat /\ Len(parts) <= Len(seqs)
              /\ \A m \in 1 .. Len(parts) : parts[m] = seqs[m]
            BY <1>2, <2>3, <2>4, <2>6
        <3>2. QED
            BY <2>5, <3>1, EndsAgree
    <2>8. Len(vsprintf(some)) = f[k]
        BY <2>2, <2>3 DEF Flat
    <2>9. QED
        BY <2>3, <2>7, <2>8 DEF Reach, some
<1>4. i \in 1 .. n /\ i \in 0 .. n /\ i - 1 \in 0 .. n
    BY <1>2 DEF n
<1>5. Reach(format, i) = e[i] /\ Reach(format, i - 1) = e[i - 1]
    BY <1>3, <1>4
<1>6. seqs[i] = Convert(format[i])
    BY <1>2, <1>4
<1>7. /\ e \in [0 .. n -> Nat]
      /\ e[i] = e[i - 1] + Len(seqs[i]) /\ e[i] <= Len(v)
      /\ \A j \in 1 .. Len(seqs[i]) : v[e[i - 1] + j] = seqs[i][j]
    BY <1>1, <1>2, <1>4 DEF Flat, Ends
<1>8. Convert(format[i]) \in Seq(Int)
    BY ConvertRight DEF ParsedFormat
<1>9. QED
    BY <1>4, <1>5, <1>6, <1>7, <1>8, LenProperties DEF InPlace, v

\* In a text that holds what a format makes, the conversions can be found.
LEMMA ConversionFound ==
    ASSUME NEW format, ParsedFormat(format), NEW i \in 1 .. Len(format),
           NEW text, text \in Seq(Int), NEW start \in Nat,
           start + Reach(format, i) <= Len(text),
           \A j \in 1 .. Reach(format, i) : text[start + j] = vsprintf(format)[j]
    PROVE  SubSeq(text, start + Reach(format, i - 1) + 1, start + Reach(format, i))
               = Convert(format[i])
<1> DEFINE r == Reach(format, i - 1)
           s == Reach(format, i)
           c == Convert(format[i])
           l == Len(c)
           p == SubSeq(text, start + r + 1, start + s)
<1>1. /\ r \in Nat /\ s \in Nat /\ l \in Nat /\ s = r + l
      /\ \A j \in 1 .. l : vsprintf(format)[r + j] = c[j]
    BY ConversionsInPlace DEF InPlace
<1>2. c \in Seq(Int)
    BY ConvertRight DEF ParsedFormat
<1>3. start + s <= Len(text) /\ \A j \in 1 .. s : text[start + j] = vsprintf(format)[j]
    OBVIOUS
<1>4. Len(c) = l
    OBVIOUS
<1> HIDE DEF r, s, c, l
<1>5. start + r \in Nat /\ start + s = (start + r) + l
    BY <1>1
<1>6. IsPart(p, text, start + r, l, Int)
    BY <1>1, <1>3, <1>5, PartOf
<1> HIDE DEF p
<1>7. ASSUME NEW j \in 1 .. l PROVE p[j] = c[j]
    <2>1. r + j \in 1 .. s /\ (start + r) + j = start + (r + j)
        BY <1>1
    <2>2. p[j] = text[(start + r) + j]
        BY <1>6 DEF IsPart
    <2>3. QED
        BY <1>1, <1>3, <2>1, <2>2
<1>8. p \in Seq(Int) /\ Len(p) = l
    BY <1>6 DEF IsPart
<1>9. p = c
    BY <1>2, <1>4, <1>7, <1>8, SeqEqual
<1>10. QED
    BY <1>9 DEF p, r, s, c

\* A string without width and precision is copied up to a NUL.
LEMMA PlainText ==
    ASSUME NEW v, v \in Seq(Int)
    PROVE  /\ Parsed(Plain("s", v))
           /\ Convert(Plain("s", v)) \in Seq(Int)
           /\ Len(Convert(Plain("s", v))) \in 0 .. Len(v)
           /\ \A j \in 1 .. Len(Convert(Plain("s", v))) : Convert(Plain("s", v))[j] = v[j]
<1> DEFINE it == Plain("s", v)
           s == Text(it)
           text == Padded(s, it)
<1>1. it \in Items /\ it.conv = "s" /\ it.arg = v /\ it.width = None /\ it.precision = None
      /\ it.flags = {}
    BY DEF Plain, Items, Convs, FlagNames
<1>2. Parsed(it)
    BY <1>1 DEF Parsed, IntegerConvs
<1> HIDE DEF it
<1>3. Convert(it) = text
    BY <1>1 DEF Convert
<1>4. FieldWidth(it) = -1 /\ Precision(it) = -1 /\ FlagsOf(it) = {}
    BY <1>1 DEF FieldWidth, Precision, FlagsOf
<1>5. s = SubSeq(v, 1, PlaceOf(0, v) - 1)
    <2>1. -1 \notin 0 .. Len(Terminated(v))
        OBVIOUS
    <2>2. QED
        BY <1>1, <1>4, <2>1 DEF Text, Terminated
<1> DEFINE n == PlaceOf(0, v) - 1
<1>6. n \in 0 .. Len(v) /\ Len(v) \in Nat
    BY PlaceOfType, LenProperties
<1> HIDE DEF n
<1>7. IsPart(s, v, 0, n, Int)
    BY <1>5, <1>6, Beginning DEF n
<1> HIDE DEF s
<1>8. s \in Seq(Int) /\ Len(s) = n /\ \A j \in 1 .. n : s[j] = v[j]
    <2>1. \A j \in 1 .. n : 0 + j = j
        BY <1>6
    <2>2. QED
        BY <1>7, <2>1 DEF IsPart
<1>9. /\ text \in Seq(Int)
      /\ Len(text) = (IF FieldWidth(it) > Len(s) THEN FieldWidth(it) ELSE Len(s))
      /\ LET before == IF "LEFT" \in FlagsOf(it) THEN 0 ELSE Len(text) - Len(s)
         IN  \A i \in 1 .. Len(text) :
                text[i] = IF i - before \in 1 .. Len(s) THEN s[i - before] ELSE SPACE
    BY <1>1, <1>8, PaddedText
<1> HIDE DEF text
<1>10. Len(text) = n
    BY <1>4, <1>6, <1>8, <1>9
<1>11. \A j \in 1 .. n : text[j] = v[j]
    <2>1. Len(text) - Len(s) = 0 /\ "LEFT" \notin FlagsOf(it)
        BY <1>4, <1>6, <1>8, <1>10
    <2>2. \A j \in 1 .. n : j - 0 = j
        BY <1>6
    <2>3. QED
        BY <1>8, <1>9, <1>10, <2>1, <2>2
<1>12. QED
    BY <1>2, <1>3, <1>6, <1>9, <1>10, <1>11 DEF it

\* A sequence with one more element at its end.
IsAppend(r, s, x, S) ==
    /\ r \in Seq(S) /\ Len(r) = Len(s) + 1
    /\ \A i \in 1 .. Len(s) : r[i] = s[i]
    /\ r[Len(s) + 1] = x

\* The elements of a sequence to which one is appended.
LEMMA Appended ==
    ASSUME NEW S, NEW s, NEW x, s \in Seq(S), x \in S
    PROVE  IsAppend(Append(s, x), s, x, S)
BY AppendProperties DEF IsAppend

\* The format in which debugk puts file and line before the text.
LEMMA PlaceParsed ==
    ASSUME NEW file, NEW line, NEW v, file \in Seq(Int), line \in Seq(Int),
           line[1] \in 0 .. Words - 1, v \in Seq(Int)
    PROVE  LET format == Append(Place(file, line), Plain("s", v))
           IN  /\ ParsedFormat(format) /\ Len(format) = 6 /\ format[6] = Plain("s", v)
               /\ SubSeq(format, 1, 5) = Place(file, line)
<1> DEFINE first == Literal(<<91>>)
           middle == Literal(<<93, SPACE, 91>>)
           end == Literal(<<93, SPACE>>)
           place == Place(file, line)
           name == Plain("s", file)
           numeral == Plain("d", line)
           text == Plain("s", v)
           format == Append(place, text)
<1>1. Parsed(first) /\ Parsed(middle) /\ Parsed(end)
    <2>1. <<91>> \in Seq(Int) /\ <<93, SPACE, 91>> \in Seq(Int) /\ <<93, SPACE>> \in Seq(Int)
        BY DEF SPACE
    <2>2. ASSUME NEW arg \in Seq(Int) PROVE Parsed(Literal(arg))
        BY DEF Literal, Plain, Parsed, Items, Convs, IntegerConvs, FlagNames
    <2>3. QED
        BY <2>1, <2>2
<1>2. Parsed(name) /\ Parsed(text)
    BY PlainText
<1>3. Parsed(numeral)
    BY DEF Plain, Parsed, Items, Convs, IntegerConvs, FlagNames
<1>4. place = <<first, name, middle, numeral, end>>
    BY DEF Place
<1> HIDE DEF first, middle, end, name, numeral, text, place
<1>5. \A it : Parsed(it) => it \in Items
    BY DEF Parsed
<1>6. place \in Seq(Items) /\ Len(place) = 5 /\ \A i \in 1 .. 5 : Parsed(place[i])
    <2>1. place \in Seq(Items) /\ Len(place) = 5
        BY <1>1, <1>2, <1>3, <1>4, <1>5
    <2>2. /\ place[1] = first /\ place[2] = name /\ place[3] = middle
          /\ place[4] = numeral /\ place[5] = end
        BY <1>4
    <2>3. \A i \in 1 .. 5 : i = 1 \/ i = 2 \/ i = 3 \/ i = 4 \/ i = 5
        OBVIOUS
    <2>4. QED
        BY <1>1, <1>2, <1>3, <2>1, <2>2, <2>3
<1>7. /\ format \in Seq(Items) /\ Len(format) = 6 /\ format[6] = text
      /\ \A i \in 1 .. 5 : format[i] = place[i]
    <2>1. text \in Items
        BY <1>2, <1>5
    <2>2. /\ format \in Seq(Items) /\ Len(format) = Len(place) + 1
          /\ \A i \in 1 .. Len(place) : format[i] = place[i]
          /\ format[Len(place) + 1] = text
        <3>1. IsAppend(format, place, text, Items)
            BY <1>6, <2>1, Appended
        <3> HIDE DEF format
        <3>2. QED
            BY <3>1 DEF IsAppend
    <2>3. QED
        BY <1>6, <2>2
<1> HIDE DEF format
<1>8. ParsedFormat(format)
    <2>1. \A i \in 1 .. 6 : i \in 1 .. 5 \/ i = 6
        OBVIOUS
    <2>2. QED
        BY <1>2, <1>6, <1>7, <2>1 DEF ParsedFormat
<1>9. SubSeq(format, 1, 5) = place
    <2> DEFINE p == SubSeq(format, 1, 5)
    <2>1. IsPart(p, format, 0, 5, Items)
        <3>1. 5 \in 0 .. Len(format)
            BY <1>7
        <3>2. QED
            BY <1>7, <3>1, Beginning
    <2> HIDE DEF p
    <2>2. p \in Seq(Items) /\ Len(p) = 5 /\ \A i \in 1 .. 5 : p[i] = format[0 + i]
        BY <2>1 DEF IsPart
    <2>3. \A i \in 1 .. 5 : p[i] = place[i]
        <3>1. \A i \in 1 .. 5 : 0 + i = i
            OBVIOUS
        <3>2. QED
            BY <1>7, <2>2, <3>1
    <2>4. p = place
        <3>1. Len(place) = 5 /\ place \in Seq(Items)
            BY <1>6
        <3>2. QED
            BY <2>2, <2>3, <3>1, SeqEqual
    <2>5. QED
        BY <2>4 DEF p
<1>10. QED
    BY <1>7, <1>8, <1>9 DEF format, place, text

\* The text of a call holds its conversions, after the place if there is one.
LEMMA CallRight ==
    ASSUME NEW call \in Calls
    PROVE  LET text == Output(call)
               start == IF call.file = None THEN 0
                        ELSE Len(vsprintf(Place(call.file, call.line)))
           IN  \A i \in 1 .. Len(call.format) :
                  start + Reach(call.format, i) <= Len(text) =>
                      Fits(call.format[i],
                           SubSeq(text, start + Reach(call.format, i - 1) + 1,
                                  start + Reach(call.format, i)))
<1> DEFINE format == call.format
           v == vsprintf(format)
           text == Output(call)
           start == IF call.file = None THEN 0
                    ELSE Len(vsprintf(Place(call.file, call.line)))
<1>1. ParsedFormat(format)
    BY CallAssumption DEF ParsedFormat
<1>2. v \in Seq(Int) /\ Len(v) \in Nat
    BY <1>1, VsprintfFlat, LenProperties
<1> HIDE DEF format
<1>3. ASSUME NEW i \in 1 .. Len(format)
      PROVE  Reach(format, i) \in Nat /\ Reach(format, i) <= Len(v)
    BY <1>1, ConversionsInPlace DEF InPlace
<1> HIDE DEF v
<1>4. /\ start \in Nat /\ text \in Seq(Int)
      /\ \A i \in 1 .. Len(format) : start + Reach(format, i) <= Len(text) =>
            \A j \in 1 .. Reach(format, i) : text[start + j] = v[j]
    <2>1. CASE call.file = None
        <3>1. text = v /\ start = 0
            BY <2>1 DEF Output, v, format
        <3>2. ASSUME NEW i \in 1 .. Len(format), NEW j \in 1 .. Reach(format, i)
              PROVE  text[start + j] = v[j]
            <4>1. start + j = j
                BY <1>3, <3>1
            <4>2. QED
                BY <3>1, <4>1
        <3>3. QED
            BY <1>2, <3>1, <3>2
    <2>2. CASE call.file # None
        <3> DEFINE all == Append(Place(call.file, call.line), Plain("s", v))
                   shown == Convert(Plain("s", v))
        <3>1. call.file \in Seq(Int) /\ call.line \in Seq(Int) /\ call.line[1] \in 0 .. Words - 1
            BY <2>2, CallAssumption
        <3>2. text = vsprintf(all)
            BY <2>2 DEF Output, debugk, v, format
        <3>3. start = Len(vsprintf(Place(call.file, call.line)))
            BY <2>2
        <3>4. ParsedFormat(all) /\ Len(all) = 6 /\ all[6] = Plain("s", v)
              /\ SubSeq(all, 1, 5) = Place(call.file, call.line)
            BY <1>2, <3>1, PlaceParsed
        <3> HIDE DEF all, text, start
        <3>5. InPlace(all, 6)
            <4>1. 6 \in 1 .. Len(all)
                BY <3>4
            <4>2. QED
                BY <3>4, <4>1, ConversionsInPlace
        <3>6. text \in Seq(Int)
            BY <3>2, <3>4, VsprintfFlat
        <3>7. Reach(all, 5) = start
            BY <3>3, <3>4 DEF Reach
        <3>8. Reach(all, 6) = Len(text)
            <4>1. SubSeq(all, 1, 6) = all
                BY <3>4, SubSeqFull DEF ParsedFormat
            <4>2. QED
                BY <3>2, <4>1 DEF Reach
        <3>9. 6 - 1 = 5
            OBVIOUS
        <3>10. /\ start \in Nat /\ Len(shown) \in Nat /\ Len(text) = start + Len(shown)
               /\ \A j \in 1 .. Len(shown) : text[start + j] = shown[j]
            BY <3>2, <3>4, <3>5, <3>7, <3>8, <3>9 DEF InPlace
        <3>11. \A j \in 1 .. Len(shown) : shown[j] = v[j]
            BY <1>2, PlainText
        <3> HIDE DEF shown
        <3>12. ASSUME NEW i \in 1 .. Len(format), start + Reach(format, i) <= Len(text),
                      NEW j \in 1 .. Reach(format, i)
               PROVE  text[start + j] = v[j]
            <4>1. j \in 1 .. Len(shown)
                <5>1. Reach(format, i) \in Nat
                    BY <1>3
                <5>2. Reach(format, i) <= Len(shown)
                    BY <3>10, <3>12, <5>1
                <5>3. QED
                    BY <3>10, <5>1, <5>2
            <4>2. QED
                BY <3>10, <3>11, <4>1
        <3>13. QED
            BY <3>6, <3>10, <3>12
    <2>3. QED
        BY <2>1, <2>2
<1> HIDE DEF start, text
<1>5. ASSUME NEW i \in 1 .. Len(format), start + Reach(format, i) <= Len(text)
      PROVE  Fits(format[i], SubSeq(text, start + Reach(format, i - 1) + 1, start + Reach(format, i)))
    <2>1. \A j \in 1 .. Reach(format, i) : text[start + j] = vsprintf(format)[j]
        BY <1>4, <1>5 DEF v
    <2>2. SubSeq(text, start + Reach(format, i - 1) + 1, start + Reach(format, i))
              = Convert(format[i])
        BY <1>1, <1>4, <1>5, <2>1, ConversionFound
    <2>3. Fits(format[i], Convert(format[i]))
        BY <1>1, ConvertRight DEF ParsedFormat
    <2>4. QED
        BY <2>2, <2>3
<1>6. QED
    BY <1>5 DEF start, text, format

\* While the text of a call is shown, it is in the buffer.
Called ==
    IF asked \in {NoCall, Finished} THEN TRUE
    ELSE next \in Nat \ {0} /\ asked \in Calls /\ buf = Output(asked)

\* The buffer holds what the call that is shown formats: nothing else writes it while
\* characters are left to write.
LEMMA CalledHolds == Spec => []Called
<1>1. Init => Called
    BY DEF Init, Called
<1>2. Called /\ [Next]_vars => Called'
    <2> SUFFICES ASSUME Called, [Next]_vars PROVE Called'
        OBVIOUS
    <2>1. ASSUME NEW call \in Calls, printk(call) PROVE Called'
        BY <2>1 DEF printk, Called
    <2>2. CASE WriteNext
        <3>1. CASE next = Len(buf) \/ buf[next] = ASCII_NUL
            <4>1. asked' \in {NoCall, Finished}
                BY <2>2, <3>1 DEF WriteNext
            <4>2. QED
                BY <4>1 DEF Called
        <3>2. CASE ~(next = Len(buf) \/ buf[next] = ASCII_NUL)
            <4>1. next' = next + 1 /\ buf' = buf /\ asked' = asked
                BY <2>2, <3>2 DEF WriteNext
            <4>2. QED
                BY <4>1 DEF Called
        <3>3. QED
            BY <3>1, <3>2
    <2>3. ASSUME NEW ch \in Chars, PrintCharacter(ch) PROVE Called'
        BY <2>3 DEF PrintCharacter, Called
    <2>4. CASE UNCHANGED vars
        BY <2>4 DEF vars, Called
    <2>5. QED
        BY <2>1, <2>2, <2>3, <2>4 DEF Next
<1>3. QED
    BY <1>1, <1>2, PTL DEF Spec

\* The texts of printk and debugk are right, conversion by conversion, whatever the
\* formats and their arguments are.
THEOREM TextsAreRight == Spec => []FormatRight
<1>1. Called => FormatRight
    <2>1. SUFFICES ASSUME Called, next = 1, asked # NoCall, asked # Finished PROVE FormatRight
        BY DEF FormatRight
    <2>2. asked \in Calls /\ buf = Output(asked)
        BY <2>1 DEF Called
    <2> DEFINE start == IF asked.file = None THEN 0
                        ELSE Len(vsprintf(Place(asked.file, asked.line)))
    <2>3. \A i \in 1 .. Len(asked.format) :
              start + Reach(asked.format, i) <= Len(buf) =>
                  Fits(asked.format[i],
                       SubSeq(buf, start + Reach(asked.format, i - 1) + 1,
                              start + Reach(asked.format, i)))
        BY <2>2, CallRight
    <2>4. QED
        BY <2>3, Zenon DEF FormatRight, Reach
<1>2. QED
    BY <1>1, CalledHolds, PTL
=============================================================================
