--------------------------- MODULE KeyboardProofs ---------------------------
(***************************************************************************)
(* Proofs about Keyboard: its types, that the driver's keys and locks are  *)
(* those of the keyboard, what is typed, and what the LEDs show, for every *)
(* set of keys.                                                            *)
(***************************************************************************)
EXTENDS Keyboard, Lemmas

(***************************************************************************)
(* What a row of codes leads to                                            *)
(***************************************************************************)

View == [keys : SUBSET Places, locks : SUBSET LockKeys]
Bytes == [byte : 0 .. 255, now : View]

\* Where the handler is between two codes: what it has seen, and whether the
\* last code was a prefix.
Between == [now : View, prefixed : BOOLEAN]
Whole(now) == [now |-> now, prefixed |-> FALSE]

\* From p the byte b leads to q: an answer leads nowhere, a prefix waits for
\* its code, and a code is of the place that the prefix before it says.
Handles(b, p, q) ==
    \/ b.byte = KEYBOARD_CMD_ACK /\ q = p
    \/ b.byte = PREFIX /\ b.now = p.now /\ q = [now |-> p.now, prefixed |-> TRUE]
    \/ \E place \in Places, up \in BOOLEAN :
         /\ place[2] = IF p.prefixed THEN 3 ELSE 2
         /\ b.byte = IF up THEN place[1] + 128 ELSE place[1]
         /\ b.now = After(p.now, place, up)
         /\ q = Whole(b.now)

Leads(p, bytes, q) ==
    \E w \in [1 .. Len(bytes) + 1 -> Between] :
      /\ w[1] = p /\ w[Len(bytes) + 1] = q
      /\ \A i \in 1 .. Len(bytes) : Handles(bytes[i], w[i], w[i + 1])

\* No byte leads nowhere, one byte where it leads, and rows of bytes may be
\* put together.
LEMMA LeadsNone ==
    ASSUME NEW p \in Between
    PROVE  Leads(p, <<>>, p)
<1> DEFINE w == [i \in 1 .. 1 |-> p]
<1>1. w \in [1 .. Len(<<>>) + 1 -> Between] /\ w[1] = p /\ w[Len(<<>>) + 1] = p
    OBVIOUS
<1> HIDE DEF w
<1>2. QED
    BY <1>1 DEF Leads

LEMMA LeadsOne ==
    ASSUME NEW p \in Between, NEW q \in Between, NEW b, Handles(b, p, q)
    PROVE  Leads(p, <<b>>, q)
<1> DEFINE w == [i \in 1 .. 2 |-> IF i = 1 THEN p ELSE q]
<1>1. w \in [1 .. 2 -> Between] /\ w[1] = p /\ w[2] = q
    OBVIOUS
<1> HIDE DEF w
<1>2. Len(<<b>>) = 1 /\ <<b>>[1] = b
    OBVIOUS
<1>3. \A i \in 1 .. 1 : Handles(<<b>>[i], w[i], w[i + 1])
    <2>1. Handles(<<b>>[1], w[1], w[2])
        BY <1>1, <1>2
    <2>2. \A i \in 1 .. 1 : i = 1 /\ i + 1 = 2
        OBVIOUS
    <2>3. QED
        BY <2>1, <2>2, Zenon
<1>4. QED
    BY <1>1, <1>2, <1>3 DEF Leads

LEMMA LeadsJoin ==
    ASSUME NEW S, NEW s \in Seq(S), NEW t \in Seq(S), NEW p, NEW q, NEW r,
           Leads(p, s, q), Leads(q, t, r)
    PROVE  Leads(p, s \o t, r)
<1> DEFINE m == Len(s)
           n == Len(t)
           st == s \o t
<1>1. PICK v \in [1 .. m + 1 -> Between] :
         /\ v[1] = p /\ v[m + 1] = q
         /\ \A i \in 1 .. m : Handles(s[i], v[i], v[i + 1])
    BY DEF Leads
<1>2. PICK w \in [1 .. n + 1 -> Between] :
         /\ w[1] = q /\ w[n + 1] = r
         /\ \A i \in 1 .. n : Handles(t[i], w[i], w[i + 1])
    BY DEF Leads
<1>3. /\ m \in Nat /\ n \in Nat /\ Len(st) = m + n
      /\ \A i \in 1 .. m : st[i] = s[i]
      /\ \A i \in m + 1 .. m + n : st[i] = t[i - m]
    OBVIOUS
<1> DEFINE u == [i \in 1 .. m + n + 1 |-> IF i <= m THEN v[i] ELSE w[i - m]]
<1> HIDE DEF m, n, st
<1>4. /\ \A i \in 1 .. m : u[i] = v[i]
      /\ \A i \in m + 1 .. m + n + 1 : u[i] = w[i - m]
    BY <1>3
<1>5. u \in [1 .. m + n + 1 -> Between]
    <2>1. ASSUME NEW i \in 1 .. m + n + 1
          PROVE  (IF i <= m THEN v[i] ELSE w[i - m]) \in Between
        <3>1. CASE i <= m
            <4>1. i \in 1 .. m + 1
                BY <1>3, <3>1
            <4>2. v[i] \in Between
                BY <1>1, <4>1
            <4>3. QED
                BY <3>1, <4>2
        <3>2. CASE ~ (i <= m)
            <4>1. i - m \in 1 .. n + 1
                BY <1>3, <3>2
            <4>2. QED
                BY <3>2, <4>1
        <3>3. QED
            BY <3>1, <3>2
    <2>2. QED
        BY <2>1
<1> HIDE DEF u
<1>6. u[1] = p
    <2>1. CASE m = 0
        <3>1. u[1] = w[1] /\ v[1] = q
            BY <1>1, <1>3, <1>4, <2>1
        <3>2. QED
            BY <1>1, <1>2, <3>1
    <2>2. CASE m # 0
        BY <1>1, <1>3, <1>4, <2>2
    <2>3. QED
        BY <2>1, <2>2
<1>7. u[m + n + 1] = r
    BY <1>2, <1>3, <1>4
<1>8. ASSUME NEW i \in 1 .. m + n PROVE Handles(st[i], u[i], u[i + 1])
    <2>1. CASE i < m
        <3>1. i \in 1 .. m /\ i + 1 \in 1 .. m
            BY <1>3, <2>1
        <3>2. QED
            BY <1>1, <1>3, <1>4, <3>1
    <2>2. CASE i = m
        <3>1. i \in 1 .. m /\ i + 1 \in m + 1 .. m + n + 1 /\ i + 1 - m = 1
            BY <1>3, <2>2
        <3>2. u[i + 1] = w[1] /\ u[i] = v[i] /\ st[i] = s[i]
            BY <1>3, <1>4, <3>1
        <3>3. Handles(s[i], v[i], v[i + 1]) /\ v[i + 1] = q
            BY <1>1, <2>2, <3>1
        <3>4. QED
            BY <1>2, <3>2, <3>3
    <2>3. CASE i > m
        <3>1. /\ i \in m + 1 .. m + n /\ i \in m + 1 .. m + n + 1
              /\ i + 1 \in m + 1 .. m + n + 1
              /\ i - m \in 1 .. n /\ (i - m) + 1 = i + 1 - m
            BY <1>3, <2>3
        <3>2. u[i] = w[i - m] /\ u[i + 1] = w[(i - m) + 1] /\ st[i] = t[i - m]
            BY <1>3, <1>4, <3>1
        <3>3. QED
            BY <1>2, <3>1, <3>2
    <2>4. QED
        BY <1>3, <2>1, <2>2, <2>3
<1>9. QED
    BY <1>3, <1>5, <1>6, <1>7, <1>8 DEF Leads, st

\* The first of a row of bytes leads somewhere, and the others on from there.
LEMMA LeadsFirst ==
    ASSUME NEW S, NEW b \in S, NEW s \in Seq(S), NEW p, NEW r,
           Leads(p, <<b>> \o s, r)
    PROVE  \E q \in Between : Handles(b, p, q) /\ Leads(q, s, r)
<1> DEFINE n == Len(s)
           t == <<b>> \o s
<1>1. n \in Nat /\ Len(t) = n + 1 /\ t[1] = b /\ \A i \in 1 .. n : t[i + 1] = s[i]
    OBVIOUS
<1>2. PICK w \in [1 .. Len(t) + 1 -> Between] :
         /\ w[1] = p /\ w[Len(t) + 1] = r
         /\ \A i \in 1 .. Len(t) : Handles(t[i], w[i], w[i + 1])
    BY DEF Leads
<1> HIDE DEF n, t
<1> DEFINE v == [i \in 1 .. n + 1 |-> w[i + 1]]
<1>3. v \in [1 .. n + 1 -> Between] /\ v[n + 1] = r /\ v[1] = w[2] /\ w[2] \in Between
    BY <1>1, <1>2
<1>4. Handles(b, p, w[2])
    <2>1. 1 \in 1 .. Len(t) /\ 1 + 1 = 2
        BY <1>1
    <2>2. QED
        BY <1>1, <1>2, <2>1
<1>5. ASSUME NEW i \in 1 .. n PROVE Handles(s[i], v[i], v[i + 1])
    <2>1. i + 1 \in 1 .. Len(t) /\ t[i + 1] = s[i]
        BY <1>1
    <2>2. v[i] = w[i + 1] /\ v[i + 1] = w[(i + 1) + 1]
        BY <1>1
    <2>3. QED
        BY <1>2, <2>1, <2>2
<1> HIDE DEF v
<1>6. Leads(w[2], s, r)
    BY <1>3, <1>5 DEF Leads, n
<1>7. QED
    BY <1>3, <1>4, <1>6

(***************************************************************************)
(* What a key sends                                                        *)
(***************************************************************************)

\* The locks have codes of keys, and no code is a prefix or an answer.
LEMMA Places95 ==
    ASSUME NEW place \in Places
    PROVE  /\ place[1] \in 0 .. 95 /\ place[2] \in {2, 3}
           /\ place = <<place[1], place[2]>>
    BY DEF Places, KEY_PRINT_SCREEN

LEMMA AfterIsView ==
    ASSUME NEW now \in View, NEW place \in Places, NEW up
    PROVE  After(now, place, up) \in View
<1>1. Toggle(now.locks, place[1]) \subseteq LockKeys \cup {place[1]}
    BY DEF View, Toggle
<1>2. QED
    BY <1>1 DEF After, View

\* The codes of one place lead from one view to the next.
LEMMA CodesLead ==
    ASSUME NEW now \in View, NEW place \in Places, NEW up \in BOOLEAN
    PROVE  /\ Codes(now, place, up) \in Seq(Bytes)
           /\ After(now, place, up) \in View
           /\ Leads(Whole(now), Codes(now, place, up), Whole(After(now, place, up)))
<1> DEFINE then == After(now, place, up)
           b == Byte(IF up THEN place[1] + 128 ELSE place[1], then)
           pre == Byte(PREFIX, now)
           mid == [now |-> now, prefixed |-> TRUE]
<1>1. then \in View
    BY AfterIsView
<1>2. place[1] \in 0 .. 95 /\ place[2] \in {2, 3}
    BY Places95
<1>3. /\ Whole(now) \in Between /\ mid \in Between /\ Whole(then) \in Between
    BY <1>1 DEF Whole, Between
<1>4. b \in Bytes /\ pre \in Bytes
    <2>1. (IF up THEN place[1] + 128 ELSE place[1]) \in 0 .. 255
        BY <1>2
    <2>2. QED
        BY <1>1, <2>1 DEF Byte, Bytes, PREFIX
<1>5. /\ b.byte = IF up THEN place[1] + 128 ELSE place[1]
      /\ b.now = then
      /\ pre.byte = PREFIX /\ pre.now = now
    BY DEF Byte
<1>6. /\ Whole(now).now = now /\ ~Whole(now).prefixed /\ mid.now = now /\ mid.prefixed
    BY DEF Whole
<1>7. Codes(now, place, up) = IF place[2] = 3 THEN <<pre>> \o <<b>> ELSE <<>> \o <<b>>
    BY DEF Codes
<1> HIDE DEF b, pre, mid
<1>8. CASE place[2] = 3
    <2>1. Handles(pre, Whole(now), mid)
        BY <1>5, <1>6 DEF Handles, mid
    <2>2. Handles(b, mid, Whole(then))
        BY <1>5, <1>6, <1>8 DEF Handles
    <2>3. Leads(Whole(now), <<pre>>, mid) /\ Leads(mid, <<b>>, Whole(then))
        BY <1>3, <2>1, <2>2, LeadsOne
    <2>4. <<pre>> \in Seq(Bytes) /\ <<b>> \in Seq(Bytes)
        BY <1>4
    <2>5. Leads(Whole(now), <<pre>> \o <<b>>, Whole(then))
        BY <2>3, <2>4, LeadsJoin
    <2>6. Codes(now, place, up) = <<pre>> \o <<b>>
        BY <1>7, <1>8
    <2>7. <<pre>> \o <<b>> \in Seq(Bytes)
        BY <2>4
    <2>8. QED
        BY <1>1, <2>5, <2>6, <2>7
<1>9. CASE place[2] = 2
    <2>1. Handles(b, Whole(now), Whole(then))
        BY <1>5, <1>6, <1>9 DEF Handles
    <2>2. Leads(Whole(now), <<b>>, Whole(then))
        BY <1>3, <2>1, LeadsOne
    <2>3. <<>> \o <<b>> = <<b>> /\ <<b>> \in Seq(Bytes)
        BY <1>4
    <2>4. QED
        BY <1>1, <1>7, <1>9, <2>2, <2>3
<1>10. QED
    BY <1>2, <1>8, <1>9

\* The codes of a whole key do so too, and end in a code.
LEMMA KeyLeads ==
    ASSUME NEW k \in Seq(Places), NEW up \in BOOLEAN, sent \in View
    PROVE  /\ AllCodes(k, up).codes \in Seq(Bytes)
           /\ AllCodes(k, up).now \in View
           /\ Leads(Whole(sent), AllCodes(k, up).codes, Whole(AllCodes(k, up).now))
<1> DEFINE n == Len(k)
           S == [codes : Seq(Bytes), now : View]
           b == [codes |-> <<>>, now |-> sent]
           g == [x \in S \X (1 .. n) |-> Sending(x[1], k[x[2]], up)]
           Body(f) == [i \in 0 .. n |-> IF i = 0 THEN b ELSE Sending(f[i - 1], k[i], up)]
           upTo == CHOOSE f : f = Body(f)
<1>1. n \in Nat /\ b \in S
    <2>1. <<>> \in Seq(Bytes)
        OBVIOUS
    <2>2. QED
        BY <2>1
<1>2. ASSUME NEW d \in S, NEW i \in 1 .. n
      PROVE  /\ Sending(d, k[i], up) \in S
             /\ Leads(Whole(sent), d.codes, Whole(d.now))
                  => LET e == Sending(d, k[i], up)
                     IN  Leads(Whole(sent), e.codes, Whole(e.now))
    <2> DEFINE e == Sending(d, k[i], up)
               add == Codes(d.now, k[i], up)
    <2>1. k[i] \in Places
        OBVIOUS
    <2>2. /\ add \in Seq(Bytes)
          /\ After(d.now, k[i], up) \in View
          /\ Leads(Whole(d.now), add, Whole(After(d.now, k[i], up)))
        BY <2>1, CodesLead
    <2>3. e.codes = d.codes \o add /\ e.now = After(d.now, k[i], up)
          /\ e = [codes |-> e.codes, now |-> e.now]
        BY DEF Sending
    <2> HIDE DEF add, e
    <2>4. d.codes \in Seq(Bytes)
        OBVIOUS
    <2>5. d.codes \o add \in Seq(Bytes)
        BY <2>2, <2>4
    <2>6. e \in S
        BY <2>2, <2>3, <2>5
    <2>7. Leads(Whole(sent), d.codes, Whole(d.now))
            => Leads(Whole(sent), e.codes, Whole(e.now))
        BY <2>2, <2>3, <2>4, LeadsJoin, Zenon
    <2>8. QED
        BY <2>6, <2>7 DEF e
<1>3. g \in [S \X (1 .. n) -> S]
    <2>1. \A x \in S \X (1 .. n) : x[1] \in S /\ x[2] \in 1 .. n
        OBVIOUS
    <2>2. \A x \in S \X (1 .. n) : Sending(x[1], k[x[2]], up) \in S
        BY <1>2, <2>1
    <2> HIDE DEF S
    <2>3. QED
        BY <2>2
<1> HIDE DEF S, b
<1>4. PICK h \in [0 .. n -> S] :
         h[0] = b /\ \A i \in 1 .. n : h[i] = g[<<h[i - 1], i>>]
    <2> HIDE DEF g, n, Body
    <2>1. n \in Nat
        BY <1>1
    <2>2. b \in S
        BY <1>1
    <2>3. StepsIn(S, n, g)
        BY <1>3 DEF StepsIn
    <2>4. HasRun(S, b, n, g)
        BY <2>1, <2>2, <2>3, Recursion
    <2>5. QED
        BY <2>4 DEF HasRun
<1>5. \A i \in 1 .. n : h[i - 1] \in S /\ g[<<h[i - 1], i>>] = Sending(h[i - 1], k[i], up)
    <2>1. \A i \in 1 .. n : h[i - 1] \in S /\ <<h[i - 1], i>> \in S \X (1 .. n)
        BY <1>1
    <2>2. QED
        BY <2>1
<1>6. h = Body(h)
    <2>1. \A i \in 0 .. n : i # 0 => i \in 1 .. n
        BY <1>1
    <2> HIDE DEF g, n
    <2>2. \A i \in 0 .. n : h[i] = IF i = 0 THEN b ELSE Sending(h[i - 1], k[i], up)
        BY <1>4, <1>5, <2>1
    <2>3. h = [i \in 0 .. n |-> h[i]]
        OBVIOUS
    <2>4. QED
        BY <2>2, <2>3, Zenon
<1>7. upTo = Body(upTo)
    BY <1>6, Zenon
<1>8. AllCodes(k, up) = upTo[n]
    BY DEF AllCodes, b
<1> HIDE DEF upTo
<1>9. \A i \in 0 .. n : upTo[i] = IF i = 0 THEN b ELSE Sending(upTo[i - 1], k[i], up)
    BY <1>7
<1> DEFINE Right(d) == d \in S /\ Leads(Whole(sent), d.codes, Whole(d.now))
           good == {m \in Nat : m <= n => Right(upTo[m])}
<1>10. 0 \in good
    <2>1. upTo[0] = b
        BY <1>1, <1>9
    <2>2. Whole(sent) \in Between
        BY DEF Whole, Between
    <2>3. Right(b)
        BY <1>1, <2>2, LeadsNone DEF b
    <2>4. QED
        BY <2>1, <2>3
<1>11. ASSUME NEW m \in Nat, m \in good PROVE m + 1 \in good
    <2> SUFFICES ASSUME m + 1 <= n PROVE Right(upTo[m + 1])
        OBVIOUS
    <2>1. Right(upTo[m])
        BY <1>1, <1>11
    <2>2. m + 1 \in 1 .. n /\ m + 1 \in 0 .. n /\ (m + 1) - 1 = m /\ m + 1 # 0
        BY <1>1
    <2>3. upTo[m + 1] = Sending(upTo[m], k[m + 1], up)
        BY <1>9, <2>2
    <2>4. QED
        BY <1>2, <2>1, <2>2, <2>3, Zenon
<1> HIDE DEF good
<1>12. n \in good
    BY <1>1, <1>10, <1>11, SetInduction
<1>13. Right(upTo[n])
    BY <1>1, <1>12 DEF good
<1>14. QED
    BY <1>8, <1>13 DEF S

(***************************************************************************)
(* The inductive invariant                                                 *)
(***************************************************************************)

TypeInv ==
    /\ TypeOK
    /\ data \in Bytes /\ queue \in Seq(Bytes)
    /\ sent \in View /\ seen \in View

\* The bytes that the handler has not seen yet.
Pending == (IF full THEN <<data>> ELSE <<>>) \o queue

\* Unless a code was lost, those bytes lead from what the driver has seen to
\* what the keyboard has sent, and an interrupt without a new byte finds an
\* answer.
StreamInv ==
    /\ full => irq
    /\ ~disturbed =>
         /\ Leads([now |-> seen, prefixed |-> extcode_state], Pending, Whole(sent))
         /\ irq /\ ~full => data.byte = KEYBOARD_CMD_ACK
         /\ pressed = seen.keys /\ locks = seen.locks

\* A letter that was typed is a capital by the states of the driver.
TypedInv ==
    \A place \in input :
        place[1] \in Letters /\ place[2] = 2
          => (place[3] = 1 <=> (KEY_CAPSLOCK \in locks) # shift_state(pressed))

\* How far the command for the LEDs, and its argument, have come.
LedInv ==
    /\ at = "command" => \/ command = NoByte /\ ~argument
                         \/ command \in 0 .. 7 /\ argument
    /\ at \in {"ack_command", "argument"} =>
         \/ command = KEYBOARD_CMD_LED /\ ~argument
         \/ command = NoByte /\ argument
    /\ at \in {"ack_argument", "idle"} =>
         \/ command = LedByte /\ argument
         \/ command = NoByte /\ ~argument /\ leds = locks

KeyIInv == TypeInv /\ StreamInv /\ TypedInv /\ LedInv

(***************************************************************************)
(* Bytes one by one                                                        *)
(***************************************************************************)

Answer == Byte(KEYBOARD_CMD_ACK, Nothing)

LEMMA AnswerLeads ==
    ASSUME NEW p \in Between
    PROVE  Answer \in Bytes /\ Leads(p, <<Answer>>, p)
<1>1. Answer \in Bytes
    BY DEF Answer, Byte, Bytes, Nothing, View, KEYBOARD_CMD_ACK
<1>2. Handles(Answer, p, p)
    BY DEF Answer, Byte, Handles
<1>3. QED
    BY <1>1, <1>2, LeadsOne

\* An answer leads nowhere, a prefix waits, a code that is below 128 presses
\* its place and another one releases it.
LEMMA HandlesWhich ==
    ASSUME NEW b \in Bytes, NEW p \in Between, NEW q, Handles(b, p, q)
    PROVE  /\ b.byte = KEYBOARD_CMD_ACK => q = p
           /\ b.byte = PREFIX => b.now = p.now /\ q = [now |-> p.now, prefixed |-> TRUE]
           /\ b.byte # KEYBOARD_CMD_ACK /\ b.byte # PREFIX =>
                LET place == <<b.byte % 128, IF p.prefixed THEN 3 ELSE 2>>
                IN  /\ place \in Places
                    /\ b.now = After(p.now, place, b.byte >= 128)
                    /\ q = Whole(b.now)
<1> USE DEF KEYBOARD_CMD_ACK, PREFIX
<1>1. CASE b.byte = KEYBOARD_CMD_ACK /\ q = p
    BY <1>1
<1>2. CASE b.byte = PREFIX /\ b.now = p.now /\ q = [now |-> p.now, prefixed |-> TRUE]
    BY <1>2
<1>3. CASE \E place \in Places, up \in BOOLEAN :
             /\ place[2] = IF p.prefixed THEN 3 ELSE 2
             /\ b.byte = IF up THEN place[1] + 128 ELSE place[1]
             /\ b.now = After(p.now, place, up)
             /\ q = Whole(b.now)
    <2>1. PICK place \in Places, up \in BOOLEAN :
             /\ place[2] = IF p.prefixed THEN 3 ELSE 2
             /\ b.byte = IF up THEN place[1] + 128 ELSE place[1]
             /\ b.now = After(p.now, place, up)
             /\ q = Whole(b.now)
        BY <1>3
    <2>2. place[1] \in 0 .. 95 /\ place = <<place[1], place[2]>>
        BY Places95
    <2>3. b.byte % 128 = place[1] /\ (b.byte >= 128 <=> up)
        <3>1. CASE up
            <4>1. b.byte = place[1] + 128
                BY <2>1, <3>1
            <4>2. (place[1] + 128) % 128 = place[1]
                BY <2>2
            <4>3. QED
                BY <2>2, <3>1, <4>1, <4>2
        <3>2. CASE ~up
            BY <2>1, <2>2, <3>2
        <3>3. QED
            BY <3>1, <3>2
    <2>4. b.byte # 250 /\ b.byte # 224
        BY <2>1, <2>2
    <2>5. (b.byte >= 128) = up
        BY <2>3
    <2>6. <<b.byte % 128, IF p.prefixed THEN 3 ELSE 2>> = place
        BY <2>1, <2>2, <2>3
    <2>7. QED
        BY <2>1, <2>4, <2>5, <2>6
<1>4. QED
    BY <1>1, <1>2, <1>3 DEF Handles

\* An answer in the register changes nothing.
LEMMA AnswerWaits ==
    ASSUME NEW b \in Bytes, NEW p \in Between, NEW q, Handles(b, p, q),
           b.byte = KEYBOARD_CMD_ACK
    PROVE  q = p
BY HandlesWhich, ZenonT(40)

LEMMA HeadThenTail ==
    ASSUME NEW S, NEW s \in Seq(S), s # <<>>
    PROVE  Head(s) \in S /\ Tail(s) \in Seq(S) /\ <<Head(s)>> \o Tail(s) = s
    OBVIOUS

\* What leads on from every place where s leads from may stand for s after the
\* byte of the register.
LEMMA LeadsAfter ==
    ASSUME NEW f \in BOOLEAN, NEW d \in Bytes, NEW s \in Seq(Bytes), NEW t \in Seq(Bytes),
           NEW p \in Between, NEW r, NEW x,
           Leads(p, (IF f THEN <<d>> ELSE <<>>) \o s, r),
           \A q \in Between : Leads(q, s, r) => Leads(q, t, x)
    PROVE  Leads(p, (IF f THEN <<d>> ELSE <<>>) \o t, x)
<1>1. <<d>> \in Seq(Bytes) /\ <<>> \o s = s /\ <<>> \o t = t
    OBVIOUS
<1>2. CASE f
    <2>1. PICK q \in Between : Handles(d, p, q) /\ Leads(q, s, r)
        BY <1>2, LeadsFirst
    <2>2. Leads(p, <<d>>, q) /\ Leads(q, t, x)
        BY <2>1, LeadsOne
    <2>3. QED
        BY <1>1, <1>2, <2>2, LeadsJoin
<1>3. CASE ~f
    BY <1>1, <1>3
<1>4. QED
    BY <1>2, <1>3

(***************************************************************************)
(* Types                                                                   *)
(***************************************************************************)

\* The driver strips the bit of a release; the code is below 128.
LEMMA CodeOfByte ==
    ASSUME TypeInv
    PROVE  /\ data.byte \in 0 .. 255 /\ code \in 0 .. 127
           /\ code = data.byte % 128 /\ ext \in {2, 3}
<1>1. data.byte \in 0 .. 255
    BY DEF TypeInv, Bytes
<1>2. data.byte % 128 \in 0 .. 127
    BY <1>1
<1>3. code = data.byte % 128
    BY <1>2 DEF code, Makecode, CODE_PRINT_SCREEN_DOWN
<1>4. QED
    BY <1>1, <1>2, <1>3 DEF ext

LEMMA TypedInRange ==
    ASSUME NEW c \in 0 .. KEY_PRINT_SCREEN, NEW e \in {2, 3}, NEW down, NEW on
    PROVE  Typed(c, e, down, on) \subseteq (0 .. KEY_PRINT_SCREEN) \X {2, 3} \X {0, 1}
    BY DEF Typed

LEMMA LedByteSmall == LedByte \in 0 .. 7
    BY DEF LedByte

LEMMA ByteRange ==
    ASSUME NEW q \in Seq(Bytes)
    PROVE  \A i \in DOMAIN q : q[i].byte \in 0 .. 255
<1>1. \A i \in DOMAIN q : q[i] \in Bytes
    OBVIOUS
<1>2. \A b \in Bytes : b.byte \in 0 .. 255
    BY DEF Bytes
<1>3. QED
    BY <1>1, <1>2

\* The keys that the model is given send codes of places.
LEMMA KeysArePlaces ==
    ASSUME NEW k \in Keys
    PROVE  k \in Seq(Places) /\ Reverse(k) \in Seq(Places)
<1>1. k \in Seq(Places)
    BY KeysAssumption DEF Places
<1>2. \A i \in 1 .. Len(k) : Len(k) - i + 1 \in 1 .. Len(k)
    BY <1>1
<1>3. Reverse(k) \in Seq(Places)
    BY <1>1, <1>2 DEF Reverse
<1>4. QED
    BY <1>1, <1>3

(***************************************************************************)
(* The invariant holds, and its parts are kept by every step               *)
(***************************************************************************)

LEMMA KeyInit == Init => KeyIInv
<1> SUFFICES ASSUME Init PROVE KeyIInv
    OBVIOUS
<1> USE DEF Init
<1>1. Nothing \in View
    BY DEF Nothing, View
<1>2. TypeInv
    <2>1. data \in Bytes
        BY <1>1 DEF Byte, Bytes, KEYBOARD_CMD_ACK
    <2>2. TypeOK
        <3>1. /\ data.byte \in 0 .. 255
              /\ \A i \in DOMAIN queue : queue[i].byte \in 0 .. 255
            BY <2>1, ByteRange, EmptySeq DEF Bytes
        <3>2. 0 \in 0 .. MaxEvents
            BY KeysAssumption
        <3>3. QED
            BY <3>1, <3>2 DEF TypeOK
    <2>3. queue \in Seq(Bytes)
        OBVIOUS
    <2>4. QED
        BY <1>1, <2>1, <2>2, <2>3 DEF TypeInv
<1>3. StreamInv
    <2>1. Whole(Nothing) \in Between /\ Whole(sent) = Whole(Nothing)
        BY <1>1 DEF Whole, Between
    <2>2. [now |-> seen, prefixed |-> extcode_state] = Whole(Nothing)
        BY DEF Whole
    <2>3. Pending = <<>>
        BY DEF Pending
    <2>4. QED
        BY <2>1, <2>2, <2>3, LeadsNone DEF StreamInv, Nothing
<1>4. TypedInv
    BY DEF TypedInv
<1>5. LedInv
    BY DEF LedInv
<1>6. QED
    BY <1>2, <1>3, <1>4, <1>5 DEF KeyIInv

LEMMA TypeStep == TypeInv /\ [Next]_vars => TypeInv'
<1> SUFFICES ASSUME TypeInv, [Next]_vars PROVE TypeInv'
    OBVIOUS
<1> USE DEF TypeInv
<1>0. /\ data.byte \in 0 .. 255 /\ code \in 0 .. 127
      /\ code = data.byte % 128 /\ ext \in {2, 3}
    BY CodeOfByte
<1>1. ASSUME NEW k \in Keys, NEW up \in BOOLEAN, Event(k, up)
      PROVE  TypeInv'
    <2> DEFINE all == AllCodes(IF up THEN Reverse(k) ELSE k, up)
    <2>1. all.codes \in Seq(Bytes) /\ all.now \in View
        BY KeysArePlaces, KeyLeads
    <2>2. /\ events < MaxEvents /\ events' = events + 1
          /\ queue' = queue \o all.codes /\ sent' = all.now
          /\ UNCHANGED <<driver, port, command, argument, leds, seen, disturbed>>
        BY <1>1 DEF Event
    <2> HIDE DEF all
    <2>3. queue' \in Seq(Bytes)
        BY <2>1, <2>2
    <2>4. TypeOK'
        <3>1. events' \in 0 .. MaxEvents
            BY <2>2, KeysAssumption DEF TypeOK
        <3>2. \A i \in DOMAIN queue' : queue'[i].byte \in 0 .. 255
            BY <2>3, ByteRange
        <3>3. QED
            BY <2>2, <3>1, <3>2 DEF TypeOK, driver, port
    <2>5. QED
        BY <2>1, <2>2, <2>3, <2>4 DEF port
<1>2. CASE Deliver
    <2>1. Head(queue) \in Bytes /\ Tail(queue) \in Seq(Bytes)
        BY <1>2 DEF Deliver
    <2>2. TypeOK'
        <3>1. \A i \in DOMAIN queue' : queue'[i].byte \in 0 .. 255
            BY <1>2, <2>1, ByteRange DEF Deliver
        <3>2. data'.byte \in 0 .. 255
            BY <1>2, <2>1 DEF Deliver, Bytes
        <3>3. QED
            BY <1>2, <3>1, <3>2 DEF Deliver, TypeOK, driver
    <2>3. QED
        BY <1>2, <2>1, <2>2 DEF Deliver
<1>3. CASE Consume
    <2>1. Answer \in Bytes
        BY DEF Answer, Byte, Bytes, Nothing, View, KEYBOARD_CMD_ACK
    <2>2. queue' \in {<<Answer>> \o queue, Append(queue, Answer)}
        BY <1>3 DEF Consume, Answer
    <2>3. queue' \in Seq(Bytes)
        BY <2>1, <2>2, SMTT(30)
    <2>4. Lit(command) \subseteq LockKeys
        BY DEF Lit
    <2>5. TypeOK'
        <3>1. \A i \in DOMAIN queue' : queue'[i].byte \in 0 .. 255
            BY <2>3, ByteRange
        <3>2. leds' \subseteq LockKeys /\ argument' \in BOOLEAN /\ command' = NoByte
            BY <1>3, <2>4 DEF Consume, TypeOK
        <3>3. UNCHANGED <<driver, port, disturbed, events>>
            BY <1>3 DEF Consume
        <3>4. QED
            BY <3>1, <3>2, <3>3 DEF TypeOK, driver, port
    <2>6. QED
        BY <1>3, <2>3, <2>5 DEF Consume, port
<1>4. ASSUME Interrupt, extcode_state' \in BOOLEAN,
             at' \in {"idle", "command"}, key' \in Places \cup {NoByte},
             pressed' \subseteq Places, locks' \subseteq LockKeys,
             input' \subseteq (0 .. KEY_PRINT_SCREEN) \X {2, 3} \X {0, 1}
      PROVE  TypeInv'
    <2>1. seen' \in View
        BY <1>4 DEF Interrupt, Bytes
    <2>2. TypeOK'
        BY <1>4, ZenonT(40) DEF Interrupt, TypeOK, device
    <2>3. QED
        BY <1>4, <2>1, <2>2 DEF Interrupt, device
<1>6. CASE HandlePrefix \/ HandleOther
    BY <1>4, <1>6 DEF HandlePrefix, HandleOther, Interrupt, TypeOK
<1>7. CASE HandleRelease
    BY <1>4, <1>7 DEF HandleRelease, Interrupt, TypeOK
<1>8. CASE HandlePress
    <2>1. <<code, ext>> \in Places /\ code \in 0 .. KEY_PRINT_SCREEN
        <3>1. code \in 0 .. KEY_PRINT_SCREEN
            <4>1. code <= KEY_PRINT_SCREEN
                BY <1>8 DEF HandlePress
            <4>2. code \in 0 .. 127
                BY <1>0
            <4>3. QED
                BY <4>1, <4>2 DEF KEY_PRINT_SCREEN
        <3>2. QED
            BY <1>0, <3>1 DEF Places
    <2>2. CASE code \in LockKeys
        <3>1. Toggle(locks, code) \subseteq LockKeys
            BY <2>2 DEF Toggle, TypeOK
        <3>2. QED
            BY <1>4, <1>8, <2>1, <2>2, <3>1 DEF HandlePress, TypeOK
    <2>3. CASE code \notin LockKeys
        <3>1. input' \subseteq (0 .. KEY_PRINT_SCREEN) \X {2, 3} \X {0, 1}
            BY <1>0, <1>8, <2>1, <2>3, TypedInRange DEF HandlePress
        <3>2. QED
            BY <1>4, <1>8, <2>1, <2>3, <3>1 DEF HandlePress, Interrupt, TypeOK
    <2>4. QED
        BY <2>2, <2>3
<1>9. CASE SendCommand \/ SendLeds
    <2>1. /\ command' \in (0 .. 7) \cup {KEYBOARD_CMD_LED}
          /\ at' \in {"ack_command", "ack_argument"}
          /\ UNCHANGED <<key, extcode_state, pressed, locks, input, queue, argument,
                         leds, sent, port, seen, disturbed, events>>
        BY <1>9, LedByteSmall DEF SendCommand, SendLeds, Send
    <2>2. QED
        BY <2>1 DEF TypeOK, port
<1>10. CASE AckCommand
    BY <1>10 DEF AckCommand, Acknowledge, TypeOK, device
<1>11. CASE AckLeds
    <2>1. input' \subseteq (0 .. KEY_PRINT_SCREEN) \X {2, 3} \X {0, 1}
        <3>1. CASE at' = "idle" /\ key # NoByte
            <4>1. key[1] \in 0 .. KEY_PRINT_SCREEN /\ key[2] \in {2, 3}
                BY <3>1 DEF TypeOK, Places
            <4>2. QED
                BY <1>11, <3>1, <4>1, TypedInRange DEF AckLeds
        <3>2. CASE ~(at' = "idle" /\ key # NoByte)
            BY <1>11, <3>2 DEF AckLeds, TypeOK
        <3>3. QED
            BY <3>1, <3>2
    <2>2. QED
        BY <1>11, <2>1, ZenonT(40) DEF AckLeds, Acknowledge, TypeOK, device
<1>12. CASE UNCHANGED vars
    BY <1>12 DEF vars, driver, device, port, TypeOK
<1>13. QED
    BY <1>1, <1>2, <1>3, <1>6, <1>7, <1>8, <1>9, <1>10, <1>11, <1>12
       DEF Next, Press, Release, set_leds

\* What the handler sees of a byte is what the keyboard sent: the places and
\* the locks that it keeps change as those of the keyboard did.
LEMMA StreamHandle ==
    ASSUME TypeInv, StreamInv, Interrupt, ~disturbed',
           HandlePrefix \/ HandleOther \/ HandleRelease \/ HandlePress
    PROVE  /\ Leads([now |-> seen', prefixed |-> extcode_state'], queue, Whole(sent))
           /\ pressed' = seen'.keys /\ locks' = seen'.locks
<1> DEFINE p == [now |-> seen, prefixed |-> extcode_state]
           r == [now |-> seen', prefixed |-> extcode_state']
           c == data.byte % 128
           place == <<c, IF p.prefixed THEN 3 ELSE 2>>
<1>1. /\ data.byte \in 0 .. 255 /\ code = c /\ c \in 0 .. 127
      /\ place = <<code, ext>>
    BY CodeOfByte DEF ext
<1>2. /\ ~disturbed
      /\ seen' = IF data.byte = KEYBOARD_CMD_ACK THEN seen ELSE data.now
      /\ data.byte = KEYBOARD_CMD_ACK => ~extcode_state
      /\ irq
    BY DEF Interrupt
<1>3. /\ Leads(p, Pending, Whole(sent))
      /\ ~full => data.byte = KEYBOARD_CMD_ACK
      /\ pressed = seen.keys /\ locks = seen.locks
    BY <1>2 DEF StreamInv
<1>4. p \in Between /\ data \in Bytes /\ queue \in Seq(Bytes)
    BY DEF TypeInv, TypeOK, Between
<1>5. PICK q : /\ Leads(q, queue, Whole(sent))
               /\ IF full THEN Handles(data, p, q) ELSE q = p
    <2>1. CASE full
        <3>1. Leads(p, <<data>> \o queue, Whole(sent))
            BY <1>3, <2>1 DEF Pending
        <3>2. QED
            BY <1>4, <2>1, <3>1, LeadsFirst
    <2>2. CASE ~full
        <3>1. Pending = queue
            BY <1>4, <2>2 DEF Pending
        <3>2. QED
            BY <1>3, <2>2, <3>1
    <2>3. QED
        BY <2>1, <2>2
<1>6. CASE data.byte = KEYBOARD_CMD_ACK
    <2>1. q = p
        BY <1>4, <1>5, <1>6, HandlesWhich, ZenonT(40)
    <2>2. c = 122
        BY <1>6 DEF KEYBOARD_CMD_ACK
    <2>3. HandleOther
        BY <1>1, <1>6, <2>2
           DEF HandlePrefix, HandleRelease, HandlePress, KEYBOARD_CMD_ACK, PREFIX,
               KEY_PRINT_SCREEN
    <2>4. extcode_state' = FALSE /\ extcode_state = FALSE /\ UNCHANGED <<pressed, locks>>
        BY <1>2, <1>6, <2>3 DEF HandleOther, TypeInv, TypeOK
    <2>5. r = p
        BY <1>2, <1>6, <2>4
    <2>6. QED
        BY <1>2, <1>3, <1>5, <1>6, <2>1, <2>4, <2>5
<1>7. CASE data.byte = PREFIX
    <2>1. data.byte # KEYBOARD_CMD_ACK
        BY <1>7 DEF PREFIX, KEYBOARD_CMD_ACK
    <2>2. Handles(data, p, q)
        BY <1>3, <1>5, <2>1
    <2>3. data.now = seen /\ q = [now |-> seen, prefixed |-> TRUE]
        <3>1. data.now = p.now /\ q = [now |-> p.now, prefixed |-> TRUE]
            <4> HIDE DEF p
            <4>1. data \in Bytes /\ p \in Between
                BY <1>4
            <4>2. data.byte = PREFIX =>
                    data.now = p.now /\ q = [now |-> p.now, prefixed |-> TRUE]
                BY <2>2, <4>1, HandlesWhich, ZenonT(40)
            <4>3. QED
                BY <1>7, <4>2
        <3>2. QED
            BY <3>1
    <2>4. HandlePrefix
        BY <1>7 DEF HandleOther, HandleRelease, HandlePress
    <2>5. extcode_state' = TRUE /\ UNCHANGED <<pressed, locks>>
        BY <2>4 DEF HandlePrefix
    <2>6. QED
        BY <1>2, <1>3, <1>5, <2>1, <2>3, <2>5
<1>8. CASE data.byte # KEYBOARD_CMD_ACK /\ data.byte # PREFIX
    <2>1. Handles(data, p, q)
        BY <1>3, <1>5, <1>8
    <2>2. /\ place \in Places
          /\ data.now = After(p.now, place, data.byte >= 128)
          /\ q = Whole(data.now)
        BY <1>4, <1>8, <2>1, HandlesWhich
    <2>3. p.now = seen /\ code \in 0 .. 95 /\ place[1] = code
        BY <1>1, <2>2, Places95
    <2>4. CASE data.byte >= 128
        <3>1. HandleRelease
            BY <1>1, <1>8, <2>3, <2>4
               DEF HandlePrefix, HandleOther, HandlePress, KEY_PRINT_SCREEN
        <3>2. /\ extcode_state' = FALSE /\ pressed' = pressed \ {place}
              /\ locks' = locks
            BY <1>1, <3>1 DEF HandleRelease
        <3>3. data.now = [keys |-> seen.keys \ {place}, locks |-> seen.locks]
            BY <2>2, <2>3, <2>4 DEF After
        <3>4. seen' = data.now /\ q = r
            BY <1>2, <1>8, <2>2, <3>2 DEF Whole
        <3>5. pressed' = seen'.keys /\ locks' = seen'.locks
            BY <1>3, <3>2, <3>3, <3>4
        <3>6. QED
            BY <1>5, <3>4, <3>5
    <2>5. CASE ~(data.byte >= 128)
        <3>1. HandlePress
            BY <1>1, <1>8, <2>3, <2>5
               DEF HandlePrefix, HandleOther, HandleRelease, KEY_PRINT_SCREEN
        <3>2. /\ extcode_state' = FALSE /\ pressed' = pressed \cup {place}
              /\ locks' = IF code \in LockKeys THEN Toggle(locks, code) ELSE locks
            BY <1>1, <3>1 DEF HandlePress
        <3>3. data.now = [keys |-> seen.keys \cup {place},
                          locks |-> IF code \in LockKeys THEN Toggle(seen.locks, code)
                                    ELSE seen.locks]
            BY <2>2, <2>3, <2>5 DEF After
        <3>4. seen' = data.now /\ q = r
            BY <1>2, <1>8, <2>2, <3>2 DEF Whole
        <3>5. pressed' = seen'.keys /\ locks' = seen'.locks
            BY <1>3, <3>2, <3>3, <3>4
        <3>6. QED
            BY <1>5, <3>4, <3>5
    <2>6. QED
        BY <2>4, <2>5
<1>9. QED
    BY <1>6, <1>7, <1>8

LEMMA StreamStep == TypeInv /\ StreamInv /\ [Next]_vars => StreamInv'
<1> SUFFICES ASSUME TypeInv, StreamInv, [Next]_vars PROVE StreamInv'
    OBVIOUS
<1> DEFINE p == [now |-> seen, prefixed |-> extcode_state]
<1>0. /\ p \in Between /\ data \in Bytes /\ queue \in Seq(Bytes)
      /\ Whole(sent) \in Between
    BY DEF TypeInv, TypeOK, Between, Whole
<1>1. ~disturbed =>
         /\ Leads(p, Pending, Whole(sent))
         /\ irq /\ ~full => data.byte = KEYBOARD_CMD_ACK
         /\ pressed = seen.keys /\ locks = seen.locks
    BY DEF StreamInv
<1>2. /\ full => irq
      /\ Pending \in Seq(Bytes)
      /\ full => Pending = <<data>> \o queue
      /\ ~full => Pending = queue
    <2>1. <<data>> \in Seq(Bytes) /\ <<>> \o queue = queue
        BY <1>0
    <2>2. Pending \in Seq(Bytes)
        BY <1>0, <2>1 DEF Pending
    <2>3. QED
        BY <2>1, <2>2 DEF Pending, StreamInv
<1>3. ASSUME NEW k \in Keys, NEW up \in BOOLEAN, Event(k, up)
      PROVE  StreamInv'
    <2> DEFINE all == AllCodes(IF up THEN Reverse(k) ELSE k, up)
    <2>1. /\ all.codes \in Seq(Bytes) /\ all.now \in View
          /\ Leads(Whole(sent), all.codes, Whole(all.now))
        <3>1. sent \in View
            BY DEF TypeInv
        <3>2. QED
            BY <3>1, KeysArePlaces, KeyLeads
    <2>2. /\ queue' = queue \o all.codes /\ sent' = all.now
          /\ UNCHANGED <<extcode_state, pressed, locks, data, full, irq, seen,
                         disturbed>>
        BY <1>3 DEF Event, driver, port
    <2> HIDE DEF all
    <2>3. ASSUME ~disturbed PROVE Leads(p, Pending', Whole(all.now))
        <3>1. queue \o all.codes \in Seq(Bytes)
            BY <1>0, <2>1
        <3>2. \A q \in Between : Leads(q, queue, Whole(sent))
                                => Leads(q, queue \o all.codes, Whole(all.now))
            BY <1>0, <2>1, LeadsJoin
        <3>3. Pending' = (IF full THEN <<data>> ELSE <<>>) \o (queue \o all.codes)
            BY <2>2 DEF Pending
        <3>4. Leads(p, (IF full THEN <<data>> ELSE <<>>) \o queue, Whole(sent))
            BY <1>1, <2>3 DEF Pending
        <3>5. full \in BOOLEAN
            BY DEF TypeInv, TypeOK
        <3> DEFINE t == queue \o all.codes
                   x == Whole(all.now)
        <3>6. /\ t \in Seq(Bytes)
              /\ \A q \in Between : Leads(q, queue, Whole(sent)) => Leads(q, t, x)
            BY <3>1, <3>2
        <3> HIDE DEF p, t, x
        <3>7. Leads(p, (IF full THEN <<data>> ELSE <<>>) \o t, x)
            BY <1>0, <3>4, <3>5, <3>6, LeadsAfter
        <3>8. QED
            BY <3>3, <3>7 DEF t, x
    <2>5. ~disturbed' => Leads(p, Pending', Whole(sent)')
        BY <2>2, <2>3 DEF Whole
    <2>6. p' = p
        BY <2>2
    <2>7. QED
        BY <1>1, <1>2, <2>2, <2>5, <2>6 DEF StreamInv
<1>4. CASE Deliver
    <2>1. /\ ~full /\ queue # <<>> /\ full' = TRUE /\ irq' = TRUE
          /\ data' = Head(queue) /\ queue' = Tail(queue)
          /\ UNCHANGED <<extcode_state, pressed, locks, seen, sent, disturbed>>
        BY <1>4 DEF Deliver, driver
    <2>2. Pending' = <<Head(queue)>> \o Tail(queue)
        BY <2>1 DEF Pending
    <2>3. Pending' = Pending
        BY <1>0, <1>2, <2>1, <2>2, HeadThenTail
    <2>4. Whole(sent)' = Whole(sent) /\ p' = p
        BY <2>1 DEF Whole
    <2>5. QED
        BY <1>1, <2>1, <2>3, <2>4 DEF StreamInv
<1>5. CASE Consume
    <2>1. /\ UNCHANGED <<extcode_state, pressed, locks, data, full, irq, seen, sent,
                         disturbed>>
          /\ queue' \in {<<Answer>> \o queue, Append(queue, Answer)}
        BY <1>5 DEF Consume, Answer, driver, port
    <2>2. /\ <<Answer>> \in Seq(Bytes) /\ Answer \in Bytes
          /\ \A q \in Between : Leads(q, <<Answer>>, q)
        BY <1>0, AnswerLeads, EmptySeq
    <2>3. ASSUME ~disturbed PROVE Leads(p, Pending', Whole(sent))
        <3>1. ASSUME NEW q \in Between, Leads(q, queue, Whole(sent))
              PROVE  Leads(q, <<Answer>> \o queue, Whole(sent))
            <4>1. Leads(q, <<Answer>>, q)
                BY <2>2
            <4>2. QED
                BY <1>0, <2>2, <3>1, <4>1, LeadsJoin, Zenon
        <3>2. ASSUME NEW q \in Between, Leads(q, queue, Whole(sent))
              PROVE  Leads(q, queue \o <<Answer>>, Whole(sent))
            <4>1. Leads(Whole(sent), <<Answer>>, Whole(sent))
                BY <1>0, <2>2
            <4>2. QED
                BY <1>0, <2>2, <3>2, <4>1, LeadsJoin, Zenon
        <3>3. /\ Append(queue, Answer) = queue \o <<Answer>>
              /\ <<Answer>> \o queue \in Seq(Bytes) /\ queue \o <<Answer>> \in Seq(Bytes)
            BY <1>0, <2>2
        <3>4. /\ queue' \in Seq(Bytes)
              /\ \A q \in Between : Leads(q, queue, Whole(sent)) => Leads(q, queue', Whole(sent))
            BY <2>1, <3>1, <3>2, <3>3
        <3>5. Leads(p, (IF full THEN <<data>> ELSE <<>>) \o queue, Whole(sent))
            BY <1>1, <2>3 DEF Pending
        <3>6. full \in BOOLEAN
            BY DEF TypeInv, TypeOK
        <3>7. Pending' = (IF full THEN <<data>> ELSE <<>>) \o queue'
            BY <2>1 DEF Pending
        <3> HIDE DEF p
        <3>8. Leads(p, (IF full THEN <<data>> ELSE <<>>) \o queue', Whole(sent))
            BY <1>0, <3>4, <3>5, <3>6, LeadsAfter
        <3>9. QED
            BY <3>7, <3>8
    <2>4. Whole(sent)' = Whole(sent) /\ p' = p
        BY <2>1 DEF Whole
    <2>5. QED
        BY <1>1, <1>2, <2>1, <2>3, <2>4 DEF StreamInv
<1>6. CASE HandlePrefix \/ HandleOther \/ HandleRelease \/ HandlePress
    <2>1. Interrupt
        BY <1>6 DEF HandlePrefix, HandleOther, HandleRelease, HandlePress
    <2>2. irq' = FALSE /\ full' = FALSE /\ queue' = queue /\ sent' = sent
        BY <2>1 DEF Interrupt, device
    <2>3. Pending' = queue /\ Whole(sent)' = Whole(sent)
        BY <1>0, <2>2 DEF Pending, Whole
    <2>4. ~disturbed' =>
             /\ Leads(p', queue, Whole(sent))
             /\ pressed' = seen'.keys /\ locks' = seen'.locks
        BY <1>6, <2>1, StreamHandle
    <2>5. QED
        BY <2>2, <2>3, <2>4 DEF StreamInv
<1>7. CASE SendCommand \/ SendLeds
    <2>1. UNCHANGED <<extcode_state, pressed, locks, data, full, irq, seen, sent,
                      queue, disturbed>>
        BY <1>7 DEF SendCommand, SendLeds, port
    <2>2. UNCHANGED <<Pending, Whole(sent), p>>
        BY <2>1 DEF Pending, Whole
    <2>3. QED
        BY <1>1, <1>2, <2>1, <2>2 DEF StreamInv
<1>8. CASE AckCommand \/ AckLeds
    <2>1. /\ UNCHANGED <<extcode_state, pressed, locks, data, irq, seen, sent, queue>>
          /\ full' = FALSE /\ (full \/ data.byte = KEYBOARD_CMD_ACK)
          /\ disturbed' = (disturbed \/ (full /\ data.byte # KEYBOARD_CMD_ACK))
        BY <1>8 DEF AckCommand, AckLeds, Acknowledge, IsAck, device
    <2>2. Pending' = queue /\ UNCHANGED <<Whole(sent), p>>
        BY <1>0, <2>1 DEF Pending, Whole
    <2>3. ASSUME ~disturbed'
          PROVE  Leads(p, queue, Whole(sent)) /\ data.byte = KEYBOARD_CMD_ACK /\ ~disturbed
        <3>1. ~disturbed /\ data.byte = KEYBOARD_CMD_ACK
            BY <2>1, <2>3
        <3>2. CASE full
            <4>1. PICK q \in Between : Handles(data, p, q) /\ Leads(q, queue, Whole(sent))
                BY <1>0, <1>1, <1>2, <3>1, <3>2, LeadsFirst
            <4>2. q = p
                <5>1. data \in Bytes /\ p \in Between
                    BY <1>0
                <5> HIDE DEF p
                <5>2. Handles(data, p, q) /\ data.byte = KEYBOARD_CMD_ACK
                    BY <3>1, <4>1
                <5>3. QED
                    BY <5>1, <5>2, AnswerWaits, Zenon
            <4>3. QED
                BY <3>1, <4>1, <4>2
        <3>3. CASE ~full
            BY <1>1, <1>2, <3>1, <3>3
        <3>4. QED
            BY <3>2, <3>3
    <2>4. QED
        BY <1>1, <2>1, <2>2, <2>3 DEF StreamInv
<1>9. CASE UNCHANGED vars
    <2>1. UNCHANGED <<extcode_state, pressed, locks, data, full, irq, seen, sent,
                      queue, disturbed>>
        BY <1>9 DEF vars, driver, device, port
    <2>2. UNCHANGED <<Pending, Whole(sent), p>>
        BY <2>1 DEF Pending, Whole
    <2>3. QED
        BY <1>1, <1>2, <2>1, <2>2 DEF StreamInv
<1>10. QED
    BY <1>3, <1>4, <1>5, <1>6, <1>7, <1>8, <1>9 DEF Next, Press, Release, set_leds

\* Of a row of letters the column is that of a capital, by what is down and on.
LEMMA TypedCapital ==
    ASSUME NEW c, NEW e, NEW down, NEW on, NEW place \in Typed(c, e, down, on),
           place[1] \in Letters, place[2] = 2
    PROVE  place[3] = 1 <=> (KEY_CAPSLOCK \in on) # shift_state(down)
<1> DEFINE capital == KEY_CAPSLOCK \in on /\ c \in Letters
           column == IF e = 3 /\ c # KEY_SLASH THEN 1
                     ELSE IF capital # shift_state(down) THEN 1 ELSE 0
<1>1. place = <<c, e, column>>
    BY DEF Typed
<1> HIDE DEF column
<1>2. place[1] = c /\ place[2] = e /\ place[3] = column
    BY <1>1
<1>3. c \in Letters /\ e = 2
    BY <1>2
<1>4. column = IF capital # shift_state(down) THEN 1 ELSE 0
    BY <1>3 DEF column
<1>5. capital <=> KEY_CAPSLOCK \in on
    BY <1>3
<1>6. capital \in BOOLEAN /\ shift_state(down) \in BOOLEAN
    BY DEF shift_state
<1> HIDE DEF capital
<1>7. QED
    BY <1>2, <1>4, <1>5, <1>6

LEMMA TypedStep == TypeInv /\ TypedInv /\ [Next]_vars => TypedInv'
<1> SUFFICES ASSUME TypeInv, TypedInv, [Next]_vars PROVE TypedInv'
    OBVIOUS
<1>1. ASSUME UNCHANGED <<input, pressed, locks>> PROVE TypedInv'
    BY <1>1 DEF TypedInv, shift_state
<1>2. ASSUME input' = {} PROVE TypedInv'
    BY <1>2 DEF TypedInv
<1>3. ASSUME NEW k \in Keys, NEW up \in BOOLEAN, Event(k, up) PROVE TypedInv'
    BY <1>1, <1>3 DEF Event, driver
<1>4. CASE Deliver
    BY <1>1, <1>4 DEF Deliver, driver
<1>5. CASE Consume
    BY <1>1, <1>5 DEF Consume, driver
<1>6. CASE HandlePrefix \/ HandleOther \/ HandleRelease
    BY <1>2, <1>6 DEF HandlePrefix, HandleOther, HandleRelease
<1>7. CASE HandlePress
    <2>1. CASE code \in LockKeys
        BY <1>2, <1>7, <2>1 DEF HandlePress
    <2>2. CASE code \notin LockKeys
        <3>1. input' = Typed(code, ext, pressed', locks')
            BY <1>7, <2>2 DEF HandlePress
        <3>2. \A place \in input' :
                 place[1] \in Letters /\ place[2] = 2
                   => (place[3] = 1 <=> (KEY_CAPSLOCK \in locks') # shift_state(pressed'))
            BY <3>1, TypedCapital
        <3>3. QED
            BY <3>2 DEF TypedInv, shift_state
    <2>3. QED
        BY <2>1, <2>2
<1>8. CASE SendCommand \/ SendLeds
    BY <1>1, <1>8 DEF SendCommand, SendLeds
<1>9. CASE AckCommand
    BY <1>1, <1>9 DEF AckCommand, Acknowledge
<1>10. CASE AckLeds
    <2>1. UNCHANGED <<pressed, locks>>
        BY <1>10 DEF AckLeds, Acknowledge
    <2>2. CASE at' = "idle" /\ key # NoByte
        <3>1. input' = Typed(key[1], key[2], pressed', locks')
            BY <1>10, <2>1, <2>2 DEF AckLeds
        <3>2. \A place \in input' :
                 place[1] \in Letters /\ place[2] = 2
                   => (place[3] = 1 <=> (KEY_CAPSLOCK \in locks') # shift_state(pressed'))
            BY <3>1, TypedCapital
        <3>3. QED
            BY <3>2 DEF TypedInv, shift_state
    <2>3. CASE ~(at' = "idle" /\ key # NoByte)
        BY <1>1, <1>10, <2>1, <2>3 DEF AckLeds
    <2>4. QED
        BY <2>2, <2>3
<1>11. CASE UNCHANGED vars
    BY <1>1, <1>11 DEF vars, driver
<1>12. QED
    BY <1>3, <1>4, <1>5, <1>6, <1>7, <1>8, <1>9, <1>10, <1>11
       DEF Next, Press, Release, set_leds

\* The LEDs read the byte as set_leds wrote it.
LEMMA LitLedByte ==
    ASSUME locks \subseteq LockKeys
    PROVE  Lit(LedByte) = locks
<1> DEFINE c == KEY_CAPSLOCK \in locks
           n == KEY_NUMLOCK \in locks
           s == KEY_SCRLOCK \in locks
           bit(k) == (LedByte \div (IF k = KEY_CAPSLOCK THEN 4
                                   ELSE IF k = KEY_NUMLOCK THEN 2 ELSE 1)) % 2 = 1
<1>1. LedByte = (IF c THEN 4 ELSE 0) + (IF n THEN 2 ELSE 0) + (IF s THEN 1 ELSE 0)
    BY DEF LedByte
<1>2. /\ bit(KEY_CAPSLOCK) <=> (LedByte \div 4) % 2 = 1
      /\ bit(KEY_NUMLOCK) <=> (LedByte \div 2) % 2 = 1
      /\ bit(KEY_SCRLOCK) <=> (LedByte \div 1) % 2 = 1
    BY DEF KEY_CAPSLOCK, KEY_NUMLOCK, KEY_SCRLOCK
<1>3. Lit(LedByte) = {k \in LockKeys : bit(k)}
    BY DEF Lit
<1> HIDE DEF c, n, s, bit
<1>4. /\ (LedByte \div 4) % 2 = 1 <=> c
      /\ (LedByte \div 2) % 2 = 1 <=> n
      /\ (LedByte \div 1) % 2 = 1 <=> s
    <2>1. LedByte \in 0 .. 7
        BY LedByteSmall
    <2>2. CASE c
        BY <1>1, <2>1, <2>2
    <2>3. CASE ~c
        BY <1>1, <2>1, <2>3
    <2>4. QED
        BY <2>2, <2>3
<1>5. \A k \in LockKeys : bit(k) <=> k \in locks
    BY <1>2, <1>4 DEF LockKeys, c, n, s
<1>6. QED
    BY <1>3, <1>5

LEMMA LedStep == TypeInv /\ LedInv /\ [Next]_vars => LedInv'
<1> SUFFICES ASSUME TypeInv, LedInv, [Next]_vars PROVE LedInv'
    OBVIOUS
<1>0. /\ LedByte \in 0 .. 7 /\ NoByte \notin 0 .. 7 /\ NoByte # KEYBOARD_CMD_LED
      /\ KEYBOARD_CMD_LED \notin 0 .. 7
      /\ argument \in BOOLEAN /\ argument' \in BOOLEAN
      /\ at \in {"idle", "command", "ack_command", "argument", "ack_argument"}
    BY LedByteSmall, KeysAssumption, TypeStep DEF KEYBOARD_CMD_LED, TypeInv, TypeOK
<1>1. ASSUME UNCHANGED <<at, command, argument, leds, locks>> PROVE LedInv'
    <2>1. LedByte' = LedByte
        BY <1>1 DEF LedByte
    <2>2. QED
        BY <1>1, <2>1 DEF LedInv
<1>2. ASSUME NEW k \in Keys, NEW up \in BOOLEAN, Event(k, up) PROVE LedInv'
    BY <1>1, <1>2 DEF Event, driver
<1>3. CASE Deliver
    BY <1>1, <1>3 DEF Deliver, driver
<1>4. CASE Consume
    <2>1. /\ command # NoByte /\ command' = NoByte
          /\ argument' = (command = KEYBOARD_CMD_LED)
          /\ leds' = IF argument /\ command # KEYBOARD_CMD_LED THEN Lit(command) ELSE leds
          /\ UNCHANGED <<at, locks>>
        BY <1>4 DEF Consume, driver
    <2>2. CASE at = "command"
        BY <1>0, <2>1, <2>2 DEF LedInv
    <2>3. CASE at \in {"ack_command", "argument"}
        BY <1>0, <2>1, <2>3 DEF LedInv
    <2>4. CASE at \in {"ack_argument", "idle"}
        <3>1. command = LedByte /\ argument
            BY <1>0, <2>1, <2>4 DEF LedInv
        <3>2. leds' = locks
            BY <1>0, <2>1, <3>1, LitLedByte DEF TypeInv, TypeOK
        <3>3. ~argument'
            BY <1>0, <2>1, <3>1
        <3>4. QED
            BY <2>1, <2>4, <3>2, <3>3 DEF LedInv
    <2>5. QED
        BY <1>0, <2>2, <2>3, <2>4
<1>5. CASE HandlePrefix \/ HandleOther \/ HandleRelease
    BY <1>1, <1>5 DEF HandlePrefix, HandleOther, HandleRelease, Interrupt, device
<1>6. CASE HandlePress
    <2>1. at = "idle" /\ UNCHANGED <<command, argument, leds>>
        BY <1>6 DEF HandlePress, Interrupt, device
    <2>2. CASE code \in LockKeys
        <3>1. at' = "command"
            BY <1>6, <2>2 DEF HandlePress
        <3>2. QED
            BY <1>0, <2>1, <3>1 DEF LedInv
    <2>3. CASE code \notin LockKeys
        BY <1>1, <1>6, <2>1, <2>3 DEF HandlePress
    <2>4. QED
        BY <2>2, <2>3
<1>7. CASE SendCommand
    BY <1>0, <1>7 DEF SendCommand, Send, LedInv
<1>8. CASE SendLeds
    <2>1. /\ at = "argument" /\ command = NoByte /\ command' = LedByte
          /\ at' = "ack_argument" /\ UNCHANGED <<argument, leds, locks>>
        BY <1>8 DEF SendLeds, Send
    <2>2. argument
        BY <1>0, <2>1 DEF LedInv
    <2>3. LedByte' = LedByte
        BY <2>1 DEF LedByte
    <2>4. QED
        BY <2>1, <2>2, <2>3 DEF LedInv
<1>9. CASE AckCommand
    BY <1>9 DEF AckCommand, Acknowledge, device, LedInv
<1>10. CASE AckLeds
    <2>1. /\ at = "ack_argument" /\ at' \in {"ack_argument", "idle"}
          /\ UNCHANGED <<command, argument, leds, locks>>
        BY <1>10 DEF AckLeds, Acknowledge, device
    <2>2. LedByte' = LedByte
        BY <2>1 DEF LedByte
    <2>3. QED
        BY <2>1, <2>2 DEF LedInv
<1>11. CASE UNCHANGED vars
    BY <1>1, <1>11 DEF vars, driver, device
<1>12. QED
    BY <1>2, <1>3, <1>4, <1>5, <1>6, <1>7, <1>8, <1>9, <1>10, <1>11
       DEF Next, Press, Release, set_leds

(***************************************************************************)
(* Theorems                                                                *)
(***************************************************************************)

\* The invariant is inductive: keyboard_init establishes it, and no event,
\* byte or step of the handler breaks it.
THEOREM KeyInvariance == Spec => []KeyIInv
<1>1. KeyIInv /\ [Next]_vars => KeyIInv'
    BY TypeStep, StreamStep, TypedStep, LedStep DEF KeyIInv
<1>2. QED
    BY <1>1, KeyInit, PTL DEF Spec

\* The variables of the driver and the keyboard have their types.
THEOREM KeyTypesCorrect == Spec => []TypeOK
<1>1. KeyIInv => TypeOK
    BY DEF KeyIInv, TypeInv
<1>2. QED
    BY <1>1, KeyInvariance, PTL

\* The keys and locks of the driver are those of the codes it has handled,
\* unless keyboard_ack dropped a code or an answer came after a prefix.
THEOREM DriverFollowsKeys == Spec => []KeysAgree
<1>1. KeyIInv => KeysAgree
    BY DEF KeyIInv, StreamInv, KeysAgree
<1>2. QED
    BY <1>1, KeyInvariance, PTL

\* A letter is typed as a capital by the keys of the keyboard.
THEOREM CapitalsAreRight == Spec => []CapitalsAgree
<1>1. KeyIInv => CapitalsAgree
    <2> SUFFICES ASSUME KeyIInv, NEW place \in input, ~disturbed,
                        place[1] \in Letters, place[2] = 2
                 PROVE  LET shifted == <<42, 2>> \in seen.keys \/ <<54, 2>> \in seen.keys
                        IN  place[3] = 1 <=> (KEY_CAPSLOCK \in seen.locks) # shifted
        BY DEF CapitalsAgree
    <2> DEFINE shifted == <<42, 2>> \in seen.keys \/ <<54, 2>> \in seen.keys
    <2>1. pressed = seen.keys /\ locks = seen.locks /\ pressed \subseteq Places
        BY DEF KeyIInv, StreamInv, TypeInv, TypeOK
    <2>2. place[3] = 1 <=> (KEY_CAPSLOCK \in locks) # shift_state(pressed)
        BY DEF KeyIInv, TypedInv
    <2>3. shift_state(pressed) = shifted
        <3>1. ASSUME NEW q \in pressed, q[1] \in KEY_SHIFT, q[2] = 2 PROVE shifted
            <4>1. q = <<q[1], q[2]>> /\ q[1] \in {42, 54}
                BY <2>1, <3>1, Places95 DEF KEY_SHIFT
            <4>2. QED
                BY <2>1, <3>1, <4>1
        <3>2. shifted => \E q \in pressed : q[1] \in KEY_SHIFT /\ q[2] = 2
            BY <2>1 DEF KEY_SHIFT
        <3>3. shift_state(pressed) <=> shifted
            BY <3>1, <3>2 DEF shift_state
        <3>4. QED
            BY <3>3 DEF shift_state
    <2>4. QED
        BY <2>1, <2>2, <2>3
<1>2. QED
    BY <1>1, KeyInvariance, PTL

\* When no handler runs and nothing is on its way, the LEDs show the locks.
THEOREM LedsAreRight == Spec => []LedsShowLocks
<1>1. KeyIInv => LedsShowLocks
    <2> SUFFICES ASSUME KeyIInv, at = "idle", command = NoByte
                 PROVE  ~argument /\ leds = locks
        BY DEF LedsShowLocks
    <2>1. LedByte # NoByte
        BY LedByteSmall, KeysAssumption
    <2>2. QED
        BY <2>1 DEF KeyIInv, LedInv
<1>2. QED
    BY <1>1, KeyInvariance, PTL
=============================================================================
