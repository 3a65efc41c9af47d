------------------------------ MODULE RtcProofs ------------------------------
(***************************************************************************)
(* Proofs about Rtc and Calendar: readings of the clock, alarms, and the   *)
(* conversions of dates, for minutes, hours and days of every length up to *)
(* a hundred, every time of switching on and every delay.                  *)
(***************************************************************************)
EXTENDS Rtc, Lemmas, FiniteSetTheorems

(***************************************************************************)
(* Numbers                                                                 *)
(***************************************************************************)

LEMMA Units ==
    /\ SecPerMin \in 1 .. 100 /\ MinPerHour \in 1 .. 100 /\ HourPerDay \in 1 .. 100
    /\ MINUTE \in Nat \ {0} /\ HOUR \in Nat \ {0} /\ DAY \in Nat \ {0}
    /\ MINUTE = SecPerMin /\ HOUR = MinPerHour * SecPerMin
    /\ DAY = HourPerDay * (MinPerHour * SecPerMin)
<1>1. /\ SecPerMin \in 1 .. 100 /\ MinPerHour \in 1 .. 100 /\ HourPerDay \in 1 .. 100
    BY RtcAssumption
<1>2. \A a, b \in Nat \ {0} : a * b \in Nat \ {0}
    OBVIOUS
<1>3. SecPerMin \in Nat \ {0} /\ MinPerHour \in Nat \ {0} /\ HourPerDay \in Nat \ {0}
    BY <1>1
<1>4. MinPerHour * SecPerMin \in Nat \ {0}
    BY <1>2, <1>3
<1>5. HourPerDay * (MinPerHour * SecPerMin) \in Nat \ {0}
    BY <1>2, <1>3, <1>4
<1>6. QED
    BY <1>1, <1>3, <1>4, <1>5 DEF MINUTE, HOUR, DAY

\* Two decimal digits and back.
LEMMA BcdOfBinary ==
    ASSUME NEW n \in 0 .. 99
    PROVE  /\ Bcd(n) \in 0 .. 255 /\ bcd_to_bin(Bcd(n)) = n
           /\ bin_to_bcd(n) = Bcd(n)
    BY DEF Bcd, bcd_to_bin, bin_to_bcd

LEMMA BcdInjective ==
    ASSUME NEW m \in 0 .. 99, NEW n \in 0 .. 99, Bcd(m) = Bcd(n)
    PROVE  m = n
    BY BcdOfBinary

(***************************************************************************)
(* The time of day                                                         *)
(***************************************************************************)

Seconds(h, m, s) == h * (MinPerHour * SecPerMin) + m * SecPerMin + s

\* The hour, the minute and the second of a number of seconds are the only
\* ones with that number.
LEMMA FieldsUnique ==
    ASSUME NEW h \in 0 .. HourPerDay - 1, NEW m \in 0 .. MinPerHour - 1,
           NEW s \in 0 .. SecPerMin - 1
    PROVE  /\ Seconds(h, m, s) \in 0 .. DAY - 1
           /\ Seconds(h, m, s) % SecPerMin = s
           /\ (Seconds(h, m, s) \div MINUTE) % MinPerHour = m
           /\ Seconds(h, m, s) \div HOUR = h
<1> DEFINE S == SecPerMin
           M == MinPerHour
           H == HourPerDay
           n == Seconds(h, m, s)
<1>1. /\ S \in Nat \ {0} /\ M \in Nat \ {0} /\ H \in Nat \ {0}
      /\ MINUTE = S /\ HOUR = M * S /\ DAY = H * (M * S)
      /\ HOUR \in Nat \ {0} /\ DAY \in Nat \ {0}
    BY Units
<1>2. n = h * (M * S) + m * S + s
    BY DEF Seconds
<1>3. h \in 0 .. H - 1 /\ m \in 0 .. M - 1 /\ s \in 0 .. S - 1
    OBVIOUS
<1> HIDE DEF S, M, H, n
<1>4. m * S + s \in 0 .. M * S - 1
    <2>1. PICK k \in Nat : M = m + 1 + k
        <3>1. M - m - 1 \in Nat /\ M = m + 1 + (M - m - 1)
            BY <1>1, <1>3
        <3>2. QED
            BY <3>1
    <2>2. M * S = m * S + S + k * S /\ k * S \in Nat /\ m * S \in Nat
        BY <1>1, <1>3, <2>1
    <2>3. QED
        BY <1>1, <1>3, <2>2
<1>5. n \in 0 .. DAY - 1
    <2>1. PICK k \in Nat : H = h + 1 + k
        <3>1. H - h - 1 \in Nat /\ H = h + 1 + (H - h - 1)
            BY <1>1, <1>3
        <3>2. QED
            BY <3>1
    <2> DEFINE A == M * S
               r == m * S + s
    <2>2. A \in Nat /\ r \in 0 .. A - 1 /\ DAY = H * A /\ n = h * A + r
        BY <1>1, <1>2, <1>3, <1>4
    <2> HIDE DEF A, r
    <2>3. H * A = h * A + A + k * A /\ k * A \in Nat /\ h * A \in Nat
        BY <1>1, <1>3, <2>1, <2>2
    <2>4. QED
        BY <2>2, <2>3
<1>6. n \in Int
    BY <1>1, <1>5
<1>7. n \div HOUR = h
    <2> DEFINE r == m * S + s
    <2>1. n = h * HOUR + r /\ r \in 0 .. HOUR - 1 /\ h \in Int
        BY <1>1, <1>2, <1>3, <1>4
    <2> HIDE DEF r
    <2>2. QED
        BY <1>1, <1>6, <2>1, DivisionUnique
<1>8. n % S = s /\ n \div S = h * M + m
    <2> DEFINE q == h * M + m
    <2>1. q \in Int /\ n = q * S + s
        BY <1>1, <1>2, <1>3
    <2> HIDE DEF q
    <2>2. n % S = s /\ n \div S = q
        BY <1>1, <1>3, <1>6, <2>1, DivisionUnique, ZenonT(40)
    <2>3. QED
        BY <2>2 DEF q
<1>9. (h * M + m) % M = m
    <2>1. h \in Int /\ h * M + m \in Int
        BY <1>1, <1>3
    <2>2. QED
        BY <1>1, <1>3, <2>1, DivisionUnique
<1>10. (n \div MINUTE) % M = m
    BY <1>1, <1>8, <1>9
<1>11. QED
    BY <1>5, <1>7, <1>8, <1>10 DEF S, M, n

\* Every second of a day has an hour, a minute and a second.
LEMMA FieldsExist ==
    ASSUME NEW n \in 0 .. DAY - 1
    PROVE  /\ n \div HOUR \in 0 .. HourPerDay - 1
           /\ (n \div MINUTE) % MinPerHour \in 0 .. MinPerHour - 1
           /\ n % SecPerMin \in 0 .. SecPerMin - 1
           /\ n = Seconds(n \div HOUR, (n \div MINUTE) % MinPerHour, n % SecPerMin)
<1> DEFINE S == SecPerMin
           M == MinPerHour
           H == HourPerDay
<1>1. /\ S \in Nat \ {0} /\ M \in Nat \ {0} /\ H \in Nat \ {0}
      /\ MINUTE = S /\ HOUR = M * S /\ DAY = H * (M * S)
      /\ DAY \in Nat \ {0}
    BY Units
<1> HIDE DEF S, M, H
<1>2. PICK a \in Nat, s \in 0 .. S - 1 : n = a * S + s
    <2>1. n \in Int /\ n \in Nat
        BY <1>1
    <2>2. n \div S \in Nat /\ n % S \in 0 .. S - 1 /\ n = (n \div S) * S + (n % S)
        BY <1>1, <2>1, Division
    <2>3. QED
        BY <2>2, Zenon
<1>3. PICK h \in Nat, m \in 0 .. M - 1 : a = h * M + m
    <2>1. a \in Int
        OBVIOUS
    <2>2. a \div M \in Nat /\ a % M \in 0 .. M - 1 /\ a = (a \div M) * M + (a % M)
        BY <1>1, <2>1, Division
    <2>3. QED
        BY <2>2, Zenon
<1>4. n = h * (M * S) + m * S + s
    BY <1>1, <1>2, <1>3
<1>5. h \in 0 .. H - 1
    <2> SUFFICES ASSUME h >= H PROVE FALSE
        BY <1>1
    <2> DEFINE A == M * S
    <2>1. A \in Nat /\ DAY = H * A /\ n = h * A + m * S + s /\ m * S \in Nat /\ s \in Nat
        BY <1>1, <1>4
    <2> HIDE DEF A
    <2>2. PICK k \in Nat : h = H + k
        <3>1. h - H \in Nat /\ h = H + (h - H)
            BY <1>1
        <3>2. QED
            BY <3>1
    <2>3. h * A = H * A + k * A /\ k * A \in Nat /\ H * A \in Nat
        BY <1>1, <2>1, <2>2
    <2>4. QED
        BY <1>1, <2>1, <2>3
<1>6. n = Seconds(h, m, s)
    BY <1>4 DEF Seconds, S, M
<1>7. /\ n % SecPerMin = s /\ (n \div MINUTE) % MinPerHour = m /\ n \div HOUR = h
    BY <1>2, <1>3, <1>5, <1>6, FieldsUnique DEF S, M, H
<1>8. QED
    BY <1>2, <1>3, <1>5, <1>6, <1>7 DEF S, M, H

\* The fields of a time of day.
Daytime(t) ==
    /\ t.hour \in 0 .. HourPerDay - 1
    /\ t.min \in 0 .. MinPerHour - 1
    /\ t.sec \in 0 .. SecPerMin - 1

LEMMA TimeOfDaySeconds ==
    ASSUME NEW t, Daytime(t)
    PROVE  /\ TimeOfDay(t) = Seconds(t.hour, t.min, t.sec)
           /\ TimeOfDay(t) \in 0 .. DAY - 1
           /\ TimeOfDay(t) % SecPerMin = t.sec
           /\ (TimeOfDay(t) \div MINUTE) % MinPerHour = t.min
           /\ TimeOfDay(t) \div HOUR = t.hour
<1>1. TimeOfDay(t) = Seconds(t.hour, t.min, t.sec)
    BY Units DEF TimeOfDay, Seconds
<1>2. QED
    BY <1>1, FieldsUnique DEF Daytime

LEMMA SameTimeOfDay ==
    ASSUME NEW t, NEW u, Daytime(t), Daytime(u), TimeOfDay(t) = TimeOfDay(u)
    PROVE  t.hour = u.hour /\ t.min = u.min /\ t.sec = u.sec
    BY TimeOfDaySeconds

LEMMA TimesAreDaytimes ==
    ASSUME NEW t \in Times
    PROVE  Daytime(t)
    BY DEF Times, Daytime

\* Every field is a number of two digits.
LEMMA TimesInDigits ==
    ASSUME NEW t \in Times
    PROVE  /\ DOMAIN t = {"sec", "min", "hour", "mday", "mon", "year"}
           /\ \A r \in DOMAIN t : t[r] \in 0 .. 99
<1>1. DOMAIN t = {"sec", "min", "hour", "mday", "mon", "year"}
    BY DEF Times
<1>2. /\ t.sec \in 0 .. 99 /\ t.min \in 0 .. 99 /\ t.hour \in 0 .. 99
      /\ t.mday \in 0 .. 99 /\ t.mon \in 0 .. 99 /\ t.year \in 0 .. 99
    BY Units DEF Times
<1>3. QED
    BY <1>1, <1>2

LEMMA MonthLengths ==
    ASSUME NEW m \in 1 .. 12, NEW y
    PROVE  MonthDays(m, y) \in 28 .. 31
    BY DEF MonthDays

\* The day after a date is a date.
LEMMA NextDayIsTime ==
    ASSUME NEW t \in Times
    PROVE  /\ NextDay(t) \in Times
           /\ NextDay(t).sec = t.sec
<1> DEFINE last == MonthDays(t.mon, FullYear(t.year))
           n == NextDay(t)
<1>1. /\ t \in [sec : 0 .. SecPerMin - 1, min : 0 .. MinPerHour - 1,
               hour : 0 .. HourPerDay - 1, mday : 1 .. 31, mon : 1 .. 12, year : 0 .. 99]
      /\ t.mday <= last
    BY DEF Times
<1>2. last \in 28 .. 31
    BY <1>1, MonthLengths
<1>3. CASE t.mday < last
    <2>1. n = [t EXCEPT !.mday = @ + 1]
        BY <1>1, <1>2, <1>3 DEF NextDay
    <2>2. n.mday = t.mday + 1 /\ n.mon = t.mon /\ n.year = t.year /\ n.sec = t.sec
        BY <1>1, <2>1
    <2>3. t.mday + 1 \in 1 .. 31 /\ t.mday + 1 <= last
        BY <1>1, <1>2, <1>3
    <2>4. n \in [sec : 0 .. SecPerMin - 1, min : 0 .. MinPerHour - 1,
                 hour : 0 .. HourPerDay - 1, mday : 1 .. 31, mon : 1 .. 12, year : 0 .. 99]
        BY <1>1, <2>1, <2>3
    <2>5. QED
        BY <2>2, <2>3, <2>4 DEF Times
<1>4. CASE t.mday = last /\ t.mon < 12
    <2>1. n = [t EXCEPT !.mday = 1, !.mon = @ + 1]
        BY <1>2, <1>4 DEF NextDay
    <2>2. n.mday = 1 /\ n.mon = t.mon + 1 /\ n.year = t.year /\ n.sec = t.sec
        BY <1>1, <2>1
    <2>3. t.mon + 1 \in 1 .. 12
        BY <1>1, <1>4
    <2>4. n \in [sec : 0 .. SecPerMin - 1, min : 0 .. MinPerHour - 1,
                 hour : 0 .. HourPerDay - 1, mday : 1 .. 31, mon : 1 .. 12, year : 0 .. 99]
        <3>1. n = [sec |-> t.sec, min |-> t.min, hour |-> t.hour,
                   mday |-> 1, mon |-> t.mon + 1, year |-> t.year]
            BY <1>1, <2>1
        <3> HIDE DEF n
        <3>2. QED
            BY <1>1, <2>3, <3>1
    <2>5. 1 <= MonthDays(n.mon, FullYear(n.year))
        BY <2>2, <2>3, MonthLengths
    <2>6. QED
        BY <2>2, <2>4, <2>5 DEF Times
<1>5. CASE t.mday = last /\ t.mon = 12
    <2>1. n = [t EXCEPT !.mday = 1, !.mon = 1, !.year = (@ + 1) % 100]
        BY <1>2, <1>5 DEF NextDay
    <2>2. n.mday = 1 /\ n.mon = 1 /\ n.year = (t.year + 1) % 100 /\ n.sec = t.sec
        BY <1>1, <2>1
    <2>3. (t.year + 1) % 100 \in 0 .. 99
        BY <1>1
    <2>4. n \in [sec : 0 .. SecPerMin - 1, min : 0 .. MinPerHour - 1,
                 hour : 0 .. HourPerDay - 1, mday : 1 .. 31, mon : 1 .. 12, year : 0 .. 99]
        <3>1. n = [sec |-> t.sec, min |-> t.min, hour |-> t.hour,
                   mday |-> 1, mon |-> 1, year |-> (t.year + 1) % 100]
            BY <1>1, <2>1
        <3> HIDE DEF n
        <3>2. QED
            BY <1>1, <2>3, <3>1
    <2>5. 1 <= MonthDays(n.mon, FullYear(n.year))
        BY <2>2, MonthLengths
    <2>6. QED
        BY <2>2, <2>4, <2>5 DEF Times
<1>6. QED
    BY <1>1, <1>2, <1>3, <1>4, <1>5

\* A second later the time of day is one more, and is a time again.
LEMMA NextSecondIsTime ==
    ASSUME NEW t \in Times
    PROVE  /\ NextSecond(t) \in Times
           /\ TimeOfDay(NextSecond(t)) = (TimeOfDay(t) + 1) % DAY
           /\ NextSecond(t).sec = (t.sec + 1) % SecPerMin
<1> DEFINE s == (TimeOfDay(t) + 1) % DAY
           day == IF s = 0 /\ caller = "time_init" THEN NextDay(t) ELSE t
           h == s \div HOUR
           m == (s \div MINUTE) % MinPerHour
           x == s % SecPerMin
           n == NextSecond(t)
<1>1. n = [day EXCEPT !.sec = x, !.min = m, !.hour = h]
    BY DEF NextSecond
<1>2. day \in Times
    BY NextDayIsTime
<1>3. Daytime(t) /\ TimeOfDay(t) \in 0 .. DAY - 1 /\ DAY \in Nat \ {0}
    BY TimesAreDaytimes, TimeOfDaySeconds, Units
<1>4. s \in 0 .. DAY - 1
    BY <1>3, Division
<1> HIDE DEF s, day, n
<1>5. /\ h \in 0 .. HourPerDay - 1 /\ m \in 0 .. MinPerHour - 1
      /\ x \in 0 .. SecPerMin - 1 /\ s = Seconds(h, m, x)
    BY <1>4, FieldsExist
<1> HIDE DEF h, m, x
<1>6. /\ n.sec = x /\ n.min = m /\ n.hour = h
      /\ n.mday = day.mday /\ n.mon = day.mon /\ n.year = day.year
      /\ n \in [sec : 0 .. SecPerMin - 1, min : 0 .. MinPerHour - 1,
                hour : 0 .. HourPerDay - 1, mday : 1 .. 31, mon : 1 .. 12, year : 0 .. 99]
    BY <1>1, <1>2, <1>5 DEF Times
<1>7. n \in Times
    BY <1>2, <1>6 DEF Times
<1>8. TimeOfDay(n) = s
    BY <1>5, <1>6, TimeOfDaySeconds DEF Daytime
<1>9. x = (t.sec + 1) % SecPerMin
    <2>1. /\ SecPerMin \in Nat \ {0} /\ SecPerMin \in Int
          /\ t.sec \in 0 .. SecPerMin - 1
        BY <1>3, Units DEF Daytime
    <2>2. TimeOfDay(t) \in Int /\ TimeOfDay(t) % SecPerMin = t.sec
        BY <1>3, TimeOfDaySeconds
    <2>3. (t.sec + 1) % SecPerMin = (TimeOfDay(t) + 1) % SecPerMin
        <3>1. ((TimeOfDay(t) % SecPerMin) + 1) % SecPerMin = (TimeOfDay(t) + 1) % SecPerMin
            BY <2>1, <2>2, RemainderAdds
        <3>2. QED
            BY <2>2, <3>1, Zenon
    <2>4. CASE TimeOfDay(t) + 1 = DAY
        <3>1. s = 0 /\ s % SecPerMin = 0
            BY <1>3, <2>1, <2>4 DEF s
        <3>2. DAY % SecPerMin = 0
            <4>1. DAY = (HourPerDay * MinPerHour) * SecPerMin + 0 /\ DAY \in Int
                    /\ HourPerDay * MinPerHour \in Int /\ 0 \in 0 .. SecPerMin - 1
                BY <2>1, Units
            <4>2. QED
                BY <2>1, <4>1, DivisionUnique, Zenon
        <3>3. QED
            BY <2>3, <2>4, <3>1, <3>2 DEF x
    <2>5. CASE TimeOfDay(t) + 1 # DAY
        <3>1. s = TimeOfDay(t) + 1
            BY <1>3, <2>5 DEF s
        <3>2. QED
            BY <2>3, <3>1 DEF x
    <2>6. QED
        BY <2>4, <2>5
<1>10. QED
    BY <1>6, <1>7, <1>8, <1>9 DEF n, s

(***************************************************************************)
(* The time of an alarm                                                    *)
(***************************************************************************)

\* A sum of two digits of base d, and a carry.
LEMMA Carry ==
    ASSUME NEW d \in Nat \ {0}, NEW sum \in 0 .. 2 * d - 1
    PROVE  /\ sum % d \in 0 .. d - 1
           /\ sum = (IF sum >= d THEN 1 ELSE 0) * d + (sum % d)
<1>1. sum \in Int
    OBVIOUS
<1>2. CASE sum >= d
    <2>1. sum = 1 * d + (sum - d) /\ sum - d \in 0 .. d - 1
        BY <1>1, <1>2
    <2>2. sum % d = sum - d
        BY <1>1, <2>1, DivisionUnique
    <2>3. QED
        BY <1>2, <2>1, <2>2
<1>3. CASE sum < d
    <2>1. sum = 0 * d + sum /\ sum \in 0 .. d - 1
        BY <1>1, <1>3
    <2>2. sum % d = sum
        BY <1>1, <2>1, DivisionUnique
    <2>3. QED
        BY <1>1, <1>3, <2>1, <2>2
<1>4. QED
    BY <1>1, <1>2, <1>3

\* Field by field with its carries, set_alarm adds the delay to the time of
\* day, and drops whole days.
LEMMA AlarmTimeAdds ==
    ASSUME NEW t, Daytime(t), NEW delay \in Nat,
           {"sec", "min", "hour"} \subseteq DOMAIN t
    PROVE  /\ Daytime(AlarmTime(t, delay))
           /\ TimeOfDay(AlarmTime(t, delay)) = (TimeOfDay(t) + delay) % DAY
<1> DEFINE S == SecPerMin
           M == MinPerHour
           H == HourPerDay
           ds == delay % S
           dm == (delay \div S) % M
           dh == delay \div (S * M)
           sec == t.sec + ds
           c == IF sec >= S THEN 1 ELSE 0
           min == t.min + c + dm
           e == IF min >= M THEN 1 ELSE 0
           hour == t.hour + e + dh
           a == AlarmTime(t, delay)
<1>1. /\ S \in Nat \ {0} /\ M \in Nat \ {0} /\ H \in Nat \ {0}
      /\ MINUTE = S /\ HOUR = M * S /\ DAY = H * (M * S) /\ DAY \in Nat \ {0}
    BY Units
<1>2. /\ t.hour \in 0 .. H - 1 /\ t.min \in 0 .. M - 1 /\ t.sec \in 0 .. S - 1
      /\ TimeOfDay(t) = t.hour * (M * S) + t.min * S + t.sec
      /\ TimeOfDay(t) \in 0 .. DAY - 1
    BY TimeOfDaySeconds DEF Daytime, Seconds
<1>3. a = [t EXCEPT !.sec = sec % S, !.min = min % M, !.hour = hour % H]
    BY DEF AlarmTime
<1>4. a.sec = sec % S /\ a.min = min % M /\ a.hour = hour % H
    <2> DEFINE p == sec % S
               q == min % M
               r == hour % H
    <2> HIDE DEF p, q, r
    <2>1. a = [t EXCEPT !.sec = p, !.min = q, !.hour = r]
        BY <1>3 DEF p, q, r
    <2>2. a.sec = p /\ a.min = q /\ a.hour = r
        BY <2>1
    <2>3. QED
        BY <2>2 DEF p, q, r
<1> HIDE DEF S, M, H, a
<1>5. /\ ds \in 0 .. S - 1 /\ dm \in 0 .. M - 1 /\ dh \in Nat
      /\ delay = dh * (M * S) + dm * S + ds
    <2> DEFINE u == delay \div S
    <2>1. u \in Nat /\ ds \in 0 .. S - 1 /\ delay = u * S + ds
        <3>1. delay \in Int
            OBVIOUS
        <3>2. /\ delay \div S \in Nat /\ delay % S \in 0 .. S - 1
              /\ delay = (delay \div S) * S + (delay % S)
            BY <1>1, <3>1, Division
        <3>3. QED
            BY <3>2, Zenon
    <2> HIDE DEF ds
    <2>2. u \in Int
        BY <2>1
    <2> HIDE DEF u
    <2> DEFINE v == u \div M
               w == u % M
    <2>3. v \in Nat /\ w \in 0 .. M - 1 /\ u = v * M + w
        BY <1>1, <2>1, <2>2, Division
    <2>4. dm = w
        BY DEF u
    <2> HIDE DEF v, w, dm
    <2>5. delay = v * (M * S) + w * S + ds
        BY <1>1, <2>1, <2>3
    <2>6. dh = v
        <3>1. w * S + ds \in 0 .. M * S - 1
            <4>1. PICK k \in Nat : M = w + 1 + k
                <5>1. M - w - 1 \in Nat /\ M = w + 1 + (M - w - 1)
                    BY <1>1, <2>3
                <5>2. QED
                    BY <5>1
            <4>2. M * S = w * S + S + k * S /\ k * S \in Nat /\ w * S \in Nat
                BY <1>1, <2>3, <4>1
            <4>3. QED
                BY <1>1, <2>1, <4>2
        <3> DEFINE A == M * S
                   r == w * S + ds
        <3>2. /\ A \in Nat \ {0} /\ r \in 0 .. A - 1 /\ delay = v * A + r
              /\ S * M = A /\ v \in Int /\ delay \in Int
            <4>1. M * S \in Nat \ {0} /\ S * M = M * S
                BY <1>1
            <4>2. v * (M * S) + w * S + ds = v * (M * S) + (w * S + ds)
                BY <1>1, <2>1, <2>3
            <4>3. QED
                BY <2>3, <2>5, <3>1, <4>1, <4>2
        <3> HIDE DEF A, r
        <3>3. delay \div A = v
            BY <3>2, DivisionUnique
        <3>4. QED
            BY <3>2, <3>3
    <2>7. QED
        BY <2>1, <2>3, <2>4, <2>5, <2>6
<1> HIDE DEF ds, dm, dh
<1>6. /\ sec % S \in 0 .. S - 1 /\ sec = c * S + (sec % S) /\ c \in 0 .. 1
    <2>1. sec = t.sec + ds /\ t.sec \in 0 .. S - 1
        BY <1>1, <1>2, <1>5
    <2> HIDE DEF sec
    <2>2. sec % S \in 0 .. S - 1 /\ sec = (IF sec >= S THEN 1 ELSE 0) * S + (sec % S)
        <3>1. S \in Nat \ {0} /\ sec \in 0 .. 2 * S - 1
            BY <1>1, <1>5, <2>1
        <3>2. QED
            BY <3>1, Carry
    <2>3. QED
        BY <2>2
<1> HIDE DEF sec, c
<1>7. /\ min % M \in 0 .. M - 1 /\ min = e * M + (min % M) /\ e \in 0 .. 1
    <2>1. min = t.min + dm + c /\ t.min \in 0 .. M - 1
        BY <1>1, <1>2, <1>5, <1>6
    <2> HIDE DEF min
    <2>2. min % M \in 0 .. M - 1 /\ min = (IF min >= M THEN 1 ELSE 0) * M + (min % M)
        <3>1. M \in Nat \ {0} /\ min \in 0 .. 2 * M - 1
            BY <1>1, <1>5, <1>6, <2>1
        <3>2. QED
            BY <3>1, Carry
    <2>3. QED
        BY <2>2
<1>8. min = t.min + c + dm
    OBVIOUS
<1> HIDE DEF min, e
<1>9. hour \in Int /\ hour = t.hour + e + dh
    BY <1>1, <1>2, <1>5, <1>7
<1> HIDE DEF hour
<1>10. PICK k \in Int : hour = k * H + (hour % H) /\ hour % H \in 0 .. H - 1
    <2>1. hour \div H \in Int /\ hour % H \in 0 .. H - 1
            /\ hour = (hour \div H) * H + (hour % H)
        BY <1>1, <1>9, Division
    <2>2. QED
        BY <2>1, Zenon
<1>11. Daytime(a)
    BY <1>4, <1>6, <1>7, <1>10 DEF Daytime, S, M, H
<1>12. TimeOfDay(a) = a.hour * (M * S) + a.min * S + a.sec /\ TimeOfDay(a) \in 0 .. DAY - 1
    BY <1>11, TimeOfDaySeconds DEF Seconds, M, S
<1>13. TimeOfDay(t) + delay = k * DAY + TimeOfDay(a)
    <2> DEFINE x == sec % S
               y == min % M
               z == hour % H
    <2>1. /\ x \in Int /\ y \in Int /\ z \in Int /\ c \in Int /\ e \in Int
          /\ t.sec + ds = c * S + x
          /\ t.min + c + dm = e * M + y
          /\ t.hour + e + dh = k * H + z
          /\ TimeOfDay(a) = z * (M * S) + y * S + x
        BY <1>4, <1>6, <1>7, <1>8, <1>9, <1>10, <1>12 DEF sec
    <2> HIDE DEF x, y, z
    <2> DEFINE ts == t.sec
               tmin == t.min
               th == t.hour
    <2>2. /\ ts \in Int /\ tmin \in Int /\ th \in Int
          /\ TimeOfDay(t) = th * (M * S) + tmin * S + ts
          /\ ds \in Int /\ dm \in Int /\ dh \in Int
          /\ ts + ds = c * S + x
          /\ tmin + c + dm = e * M + y
          /\ th + e + dh = k * H + z
        BY <1>1, <1>2, <1>5, <2>1
    <2> HIDE DEF ts, tmin, th
    <2>7. /\ c * S \in Int /\ e * M \in Int /\ k * H \in Int
        BY <1>1, <1>10, <2>1
    <2>8. ts = c * S + x - ds
        <3> DEFINE cS == c * S
        <3>1. cS \in Int /\ ts + ds = cS + x
            BY <2>2, <2>7
        <3> HIDE DEF cS
        <3>2. ts = cS + x - ds
            BY <2>1, <2>2, <3>1
        <3>3. QED
            BY <3>2 DEF cS
    <2>9. tmin = e * M + y - c - dm
        <3> DEFINE eM == e * M
        <3>1. eM \in Int /\ tmin + c + dm = eM + y
            BY <2>2, <2>7
        <3> HIDE DEF eM
        <3>2. tmin = eM + y - c - dm
            BY <2>1, <2>2, <3>1
        <3>3. QED
            BY <3>2 DEF eM
    <2>10. th = k * H + z - e - dh
        BY <2>1, <2>2, <2>7
    <2>3. TimeOfDay(t) = (k * H + z - e - dh) * (M * S) + (e * M + y - c - dm) * S
                           + (c * S + x - ds)
        BY <2>2, <2>8, <2>9, <2>10
    <2>4. (k * H + z - e - dh) * (M * S) + (e * M + y - c - dm) * S + (c * S + x - ds)
            = k * (H * (M * S)) + (z * (M * S) + y * S + x)
                - (dh * (M * S) + dm * S + ds)
        BY <1>1, <2>1, <2>2
    <2>5. k * (H * (M * S)) \in Int /\ z * (M * S) + y * S + x \in Int
        BY <1>1, <2>1
    <2>6. QED
        BY <1>1, <1>5, <2>1, <2>3, <2>4, <2>5
<1>14. (TimeOfDay(t) + delay) % DAY = TimeOfDay(a)
    <2>1. TimeOfDay(t) + delay \in Int
        BY <1>1, <1>2
    <2>2. QED
        BY <1>1, <1>12, <1>13, <2>1, DivisionUnique, Zenon
<1>15. QED
    BY <1>11, <1>14 DEF a

\* Whatever the fields were, the time that set_alarm makes of them is one of
\* the day.
LEMMA AlarmTimeIsDaytime ==
    ASSUME NEW t, t.sec \in Nat, t.min \in Nat, t.hour \in Nat, NEW delay \in Nat,
           {"sec", "min", "hour"} \subseteq DOMAIN t
    PROVE  Daytime(AlarmTime(t, delay))
<1> DEFINE S == SecPerMin
           M == MinPerHour
           H == HourPerDay
           sec == t.sec + (delay % S)
           min == t.min + (IF sec >= S THEN 1 ELSE 0) + ((delay \div S) % M)
           hour == t.hour + (IF min >= M THEN 1 ELSE 0) + delay \div (S * M)
           p == sec % S
           q == min % M
           r == hour % H
           a == AlarmTime(t, delay)
<1>1. S \in Nat \ {0} /\ M \in Nat \ {0} /\ H \in Nat \ {0} /\ S * M \in Nat \ {0}
    BY Units
<1>2. a = [t EXCEPT !.sec = p, !.min = q, !.hour = r]
    BY DEF AlarmTime
<1> HIDE DEF S, M, H, a
<1>3. /\ delay \in Int /\ delay % S \in Int /\ delay \div S \in Int
      /\ delay \div (S * M) \in Int /\ (delay \div S) % M \in Int
    <2>1. \A n \in Int, d \in Nat \ {0} : n % d \in Int /\ n \div d \in Int
        BY Division
    <2>2. delay \div S \in Int
        BY <1>1, <2>1
    <2> DEFINE u == delay \div S
    <2> HIDE DEF u
    <2>3. u % M \in Int
        BY <1>1, <2>1, <2>2 DEF u
    <2>4. QED
        BY <1>1, <2>1, <2>2, <2>3 DEF u
<1>4. sec \in Int
    BY <1>3
<1> HIDE DEF sec
<1>5. min \in Int
    BY <1>3
<1> HIDE DEF min
<1>6. hour \in Int
    BY <1>3
<1> HIDE DEF hour
<1>7. p \in 0 .. S - 1 /\ q \in 0 .. M - 1 /\ r \in 0 .. H - 1
    BY <1>1, <1>4, <1>5, <1>6, Division
<1> HIDE DEF p, q, r
<1>8. a.sec = p /\ a.min = q /\ a.hour = r
    BY <1>2
<1>9. QED
    BY <1>7, <1>8 DEF Daytime, S, M, H, a

(***************************************************************************)
(* The calendar                                                            *)
(***************************************************************************)

\* Days before each month of a leap year, and how long each month is.
LEMMA MonthTable ==
    /\ month[1] = 0 /\ month[2] = 31 /\ month[3] = 60 /\ month[4] = 91
    /\ month[5] = 121 /\ month[6] = 152 /\ month[7] = 182 /\ month[8] = 213
    /\ month[9] = 244 /\ month[10] = 274 /\ month[11] = 305 /\ month[12] = 335
    BY DEF month

LEMMA Months ==
    ASSUME NEW m \in 1 .. 12
    PROVE  \/ m = 1 \/ m = 2 \/ m = 3 \/ m = 4 \/ m = 5 \/ m = 6
           \/ m = 7 \/ m = 8 \/ m = 9 \/ m = 10 \/ m = 11 \/ m = 12
    OBVIOUS

\* The table, less a day from March on when the year has no leap day.
TableDays(mon, year) == month[mon] - (IF mon > 2 /\ ~Leap(year) THEN 1 ELSE 0)

\* The table says what adding up the months says.
LEMMA TableAddsUp ==
    ASSUME NEW d, d.mon \in 1 .. 12
    PROVE  DaysInYear(d) = TableDays(d.mon, FullYear(d.year)) + d.mday - 1
<1> DEFINE y == FullYear(d.year)
           Adds(f) == f = [m \in 1 .. 12 |->
                               IF m = 1 THEN 0 ELSE f[m - 1] + MonthDays(m - 1, y)]
           table == [m \in 1 .. 12 |-> TableDays(m, y)]
           before == CHOOSE f : Adds(f)
<1>1. DaysInYear(d) = before[d.mon] + d.mday - 1
    BY DEF DaysInYear
<1>2. \A m \in 2 .. 12 : TableDays(m, y) = TableDays(m - 1, y) + MonthDays(m - 1, y)
    <2> HIDE DEF y
    <2> SUFFICES ASSUME NEW m \in 2 .. 12
                 PROVE  TableDays(m, y) = TableDays(m - 1, y) + MonthDays(m - 1, y)
        OBVIOUS
    <2>1. /\ m = 2 \/ m = 3 \/ m = 4 \/ m = 5 \/ m = 6
             \/ m = 7 \/ m = 8 \/ m = 9 \/ m = 10 \/ m = 11 \/ m = 12
        OBVIOUS
    <2>2. QED
        BY <2>1, MonthTable DEF TableDays, MonthDays
<1>3. Adds(table)
    <2> HIDE DEF y
    <2>1. ASSUME NEW m \in 1 .. 12
          PROVE  TableDays(m, y) = IF m = 1 THEN 0 ELSE table[m - 1] + MonthDays(m - 1, y)
        <3>1. CASE m = 1
            BY <3>1, MonthTable DEF TableDays
        <3>2. CASE m # 1
            <4>1. m \in 2 .. 12 /\ m - 1 \in 1 .. 12
                BY <3>2
            <4>2. QED
                BY <1>2, <3>2, <4>1
        <3>3. QED
            BY <3>1, <3>2
    <2>2. QED
        BY <2>1
<1>4. Adds(before)
    <2> HIDE DEF Adds
    <2>1. QED
        BY <1>3
<1>5. before = [m \in 1 .. 12 |->
                    IF m = 1 THEN 0 ELSE before[m - 1] + MonthDays(m - 1, y)]
    BY <1>4
<1> HIDE DEF before, y
<1>6. \A m \in 1 .. 12 :
          before[m] = IF m = 1 THEN 0 ELSE before[m - 1] + MonthDays(m - 1, y)
    BY <1>5
<1> DEFINE good == {m \in Nat : m < 12 => before[m + 1] = TableDays(m + 1, y)}
<1>7. 0 \in good
    BY <1>6, MonthTable DEF TableDays
<1>8. ASSUME NEW m \in Nat, m \in good PROVE m + 1 \in good
    <2> SUFFICES ASSUME m + 1 < 12 PROVE before[m + 2] = TableDays(m + 2, y)
        OBVIOUS
    <2>1. before[m + 1] = TableDays(m + 1, y)
        BY <1>8
    <2>2. m + 2 \in 2 .. 12 /\ m + 2 \in 1 .. 12 /\ m + 2 # 1 /\ (m + 2) - 1 = m + 1
        OBVIOUS
    <2>3. before[m + 2] = before[m + 1] + MonthDays(m + 1, y)
        BY <1>6, <2>2
    <2>4. TableDays(m + 2, y) = TableDays(m + 1, y) + MonthDays(m + 1, y)
        BY <1>2, <2>2
    <2>5. QED
        BY <2>1, <2>3, <2>4
<1>9. \A m \in Nat : m \in good
    <2> HIDE DEF good
    <2>1. QED
        BY <1>7, <1>8, SetInduction
<1>10. before[d.mon] = TableDays(d.mon, y)
    <2>1. d.mon - 1 \in good /\ d.mon - 1 < 12 /\ (d.mon - 1) + 1 = d.mon
        BY <1>9
    <2>2. QED
        BY <2>1
<1>11. QED
    BY <1>1, <1>10 DEF y

\* Every fourth year is a leap year, from 1970 to 2069.
LEMMA EveryFourth ==
    ASSUME NEW y \in 0 .. 99
    PROVE  Leap(1970 + y) <=> (y + 2) % 4 = 0
    BY DEF Leap

\* The years before the n-th after 1970.
PastYears(n) == 1970 .. 1970 + n - 1

PastLeaps(n) == {y \in PastYears(n) : Leap(y)}

LEMMA LeapsSoFar ==
    ASSUME NEW n \in 0 .. 99
    PROVE  Cardinality(PastLeaps(n)) = (n + 1) \div 4
<1> DEFINE good == {m \in Nat : m <= 99 =>
                        /\ IsFiniteSet(PastLeaps(m))
                        /\ Cardinality(PastLeaps(m)) = (m + 1) \div 4}
<1>1. 0 \in good
    <2>1. PastLeaps(0) = {}
        BY DEF PastLeaps, PastYears
    <2>2. QED
        BY <2>1, FS_EmptySet
<1>2. ASSUME NEW m \in Nat, m \in good PROVE m + 1 \in good
    <2> SUFFICES ASSUME m + 1 <= 99
                 PROVE  /\ IsFiniteSet(PastLeaps(m + 1))
                        /\ Cardinality(PastLeaps(m + 1)) = (m + 1 + 1) \div 4
        OBVIOUS
    <2>1. /\ IsFiniteSet(PastLeaps(m)) /\ Cardinality(PastLeaps(m)) = (m + 1) \div 4
        BY <1>2
    <2>2. Leap(1970 + m) <=> (m + 2) % 4 = 0
        BY EveryFourth
    <2>3. CASE Leap(1970 + m)
        <3>1. PastLeaps(m + 1) = PastLeaps(m) \cup {1970 + m} /\ 1970 + m \notin PastLeaps(m)
            BY <2>3 DEF PastLeaps, PastYears
        <3>2. /\ IsFiniteSet(PastLeaps(m + 1))
              /\ Cardinality(PastLeaps(m + 1)) = Cardinality(PastLeaps(m)) + 1
            BY <2>1, <3>1, FS_AddElement
        <3>3. (m + 1 + 1) \div 4 = ((m + 1) \div 4) + 1
            BY <2>2, <2>3
        <3>4. QED
            BY <2>1, <3>2, <3>3
    <2>4. CASE ~Leap(1970 + m)
        <3>1. PastLeaps(m + 1) = PastLeaps(m)
            BY <2>4 DEF PastLeaps, PastYears
        <3>2. (m + 1 + 1) \div 4 = (m + 1) \div 4
            BY <2>2, <2>4
        <3>3. QED
            BY <2>1, <3>1, <3>2
    <2>5. QED
        BY <2>3, <2>4
<1>3. \A m \in Nat : m \in good
    <2> HIDE DEF good
    <2>1. QED
        BY <1>1, <1>2, SetInduction
<1>4. QED
    BY <1>3


LEMMA YearsSoFar ==
    ASSUME NEW n \in 0 .. 99
    PROVE  Cardinality(PastYears(n)) = n
<1> DEFINE a == 1970
           b == 1970 + n - 1
<1>1. a \in Int /\ b \in Int /\ a <= b + 1 /\ b - a + 1 = n
    OBVIOUS
<1>2. PastYears(n) = a .. b
    BY DEF PastYears
<1> HIDE DEF a, b
<1>3. Cardinality(a .. b) = IF a > b THEN 0 ELSE b - a + 1
    BY <1>1, FS_Interval
<1>4. QED
    BY <1>1, <1>2, <1>3

\* The parts of a date: years since 1970, its leap years, and days of the year.
LEMMA DateParts ==
    ASSUME NEW t \in Times
    PROVE  /\ SinceEpoch(t) \in 0 .. 99 /\ FullYear(t.year) = 1970 + SinceEpoch(t)
           /\ t.mon \in 1 .. 12 /\ t.mday \in 1 .. 31
           /\ TableDays(t.mon, FullYear(t.year)) \in 0 .. 335
           /\ DaysInYear(t) = TableDays(t.mon, FullYear(t.year)) + t.mday - 1
           /\ DaysInYear(t) \in 0 .. 365
           /\ ~Leap(FullYear(t.year)) => DaysInYear(t) <= 364
           /\ DayNumber(t) = 365 * SinceEpoch(t) + (SinceEpoch(t) + 1) \div 4 + DaysInYear(t)
<1>1. /\ t.year \in 0 .. 99 /\ t.mon \in 1 .. 12 /\ t.mday \in 1 .. 31
      /\ t.mday <= MonthDays(t.mon, FullYear(t.year))
    BY DEF Times
<1>2. SinceEpoch(t) \in 0 .. 99 /\ FullYear(t.year) = 1970 + SinceEpoch(t)
    BY <1>1 DEF SinceEpoch, FullYear
<1>3. DaysInYear(t) = TableDays(t.mon, FullYear(t.year)) + t.mday - 1
    BY <1>1, TableAddsUp
<1>4. /\ TableDays(t.mon, FullYear(t.year)) \in 0 .. 335
      /\ TableDays(t.mon, FullYear(t.year)) + t.mday - 1 \in 0 .. 365
      /\ ~Leap(FullYear(t.year)) => TableDays(t.mon, FullYear(t.year)) + t.mday - 1 <= 364
    <2> DEFINE y == FullYear(t.year)
               m == t.mon
               d == t.mday
    <2>1. m \in 1 .. 12 /\ d \in 1 .. 31 /\ d <= MonthDays(m, y)
        BY <1>1
    <2> HIDE DEF y, m, d
    <2>2. /\ TableDays(m, y) \in 0 .. 335 /\ TableDays(m, y) + d - 1 \in 0 .. 365
          /\ ~Leap(y) => TableDays(m, y) + d - 1 <= 364
        BY <2>1, Months, MonthTable DEF TableDays, MonthDays
    <2>3. QED
        BY <2>2 DEF y, m, d
<1>5. DayNumber(t) = 365 * SinceEpoch(t) + (SinceEpoch(t) + 1) \div 4 + DaysInYear(t)
    <2> DEFINE n == SinceEpoch(t)
               days == DaysInYear(t)
    <2> HIDE DEF n, days
    <2>1. n \in 0 .. 99 /\ FullYear(t.year) = 1970 + n
        BY <1>2 DEF n
    <2> DEFINE Days(past) ==
                   365 * Cardinality(past) + Cardinality({y \in past : Leap(y)}) + days
    <2>2. DayNumber(t) = Days(1970 .. FullYear(t.year) - 1)
        BY DEF DayNumber, days
    <2>3. 1970 .. FullYear(t.year) - 1 = PastYears(n)
        BY <2>1 DEF PastYears
    <2> DEFINE p == Cardinality(PastYears(n))
               q == Cardinality(PastLeaps(n))
    <2>4. DayNumber(t) = 365 * p + q + days
        <3>1. DayNumber(t) = Days(PastYears(n))
            <4> HIDE DEF Days
            <4>1. QED
                BY <2>2, <2>3
        <3>2. QED
            BY <3>1 DEF PastLeaps
    <2>5. p = n
        BY <2>1, YearsSoFar
    <2>6. q = (n + 1) \div 4
        BY <2>1, LeapsSoFar
    <2> HIDE DEF p, q
    <2>7. QED
        BY <2>4, <2>5, <2>6 DEF n, days
<1>6. DaysInYear(t) \in 0 .. 365 /\ (~Leap(FullYear(t.year)) => DaysInYear(t) <= 364)
    BY <1>3, <1>4
<1>7. QED
    BY <1>1, <1>2, <1>3, <1>4, <1>5, <1>6, SMTT(30)

\* A product that overflows an int and what is added to it are the sum again
\* when that fits in a time_t.
LEMMA OverflowUndone ==
    ASSUME NEW a \in Int, NEW r \in Int, a + r \in 0 .. 2 * TimeHalf - 1
    PROVE  time_t(int(a) + r) = a + r
<1> DEFINE W == 2 * TimeHalf
           h == TimeHalf
           k == (a + h) \div W
           m == (a + h) % W
<1>1. W \in Nat \ {0} /\ h \in Int /\ a + h \in Int
    BY CalendarAssumption
<1>2. k \in Int /\ m \in 0 .. W - 1 /\ a + h = k * W + m
    BY <1>1, Division
<1>3. int(a) = m - h
    BY DEF int
<1>4. time_t(int(a) + r) = (m - h + r) % W
    BY <1>3 DEF time_t
<1>5. a + r \in 0 .. W - 1
    OBVIOUS
<1> HIDE DEF W, h, k, m
<1>6. /\ m - h + r \in Int /\ -k \in Int
      /\ m - h + r = (-k) * W + (a + r)
    <2>1. k * W \in Int /\ (-k) * W = -(k * W)
        BY <1>1, <1>2
    <2>2. QED
        BY <1>1, <1>2, <2>1
<1>7. (m - h + r) % W = a + r
    BY <1>1, <1>5, <1>6, DivisionUnique
<1>8. QED
    BY <1>4, <1>7

\* The seconds from the beginning of 1970 to any second of a hundred years.
LEMMA SecondsFit ==
    ASSUME NEW t \in Times
    PROVE  SecondNumber(t) \in 0 .. 2 * TimeHalf - 1
<1> DEFINE N == DayNumber(t)
           d == TimeOfDay(t)
           D == DAY
<1>1. N \in 0 .. 36524
    <2> DEFINE y == SinceEpoch(t)
               e == DaysInYear(t)
               leap == Leap(FullYear(t.year))
    <2>1. /\ y \in 0 .. 99 /\ e \in 0 .. 365 /\ (~leap => e <= 364)
          /\ N = 365 * y + (y + 1) \div 4 + e
          /\ FullYear(t.year) = 1970 + y
        BY DateParts
    <2>2. leap <=> (y + 2) % 4 = 0
        BY <2>1, EveryFourth
    <2> HIDE DEF y, e, leap, N
    <2> DEFINE q == (y + 1) \div 4
    <2>3. q \in 0 .. 25 /\ (y # 99 => q <= 24) /\ (y = 99 => ~leap)
        BY <2>1, <2>2
    <2>4. N = 365 * y + q + e
        BY <2>1
    <2> HIDE DEF q
    <2>5. HundredYears(365 * y + q + e)
        <3>1. (y # 99 => q <= 24) /\ (y = 99 => e <= 364)
            BY <2>1, <2>3
        <3>2. y \in 0 .. 99 /\ q \in 0 .. 25 /\ e \in 0 .. 365
            BY <2>1, <2>3, SMTT(30)
        <3>3. QED
            BY <3>1, <3>2, HundredYearsFit, Zenon
    <2>6. HundredYears(N)
        BY <2>4, <2>5, Zenon
    <2>7. QED
        BY <2>6, SMT DEF HundredYears
<1>2. SecondNumber(t) = N * D + d
    <2>1. /\ SecondNumber(t) = N * D + t.hour * HOUR + t.min * MINUTE + t.sec
          /\ d = t.hour * HOUR + t.min * MINUTE + t.sec
        BY DEF SecondNumber, TimeOfDay
    <2>2. t.hour * HOUR \in Int /\ t.min * MINUTE \in Int /\ t.sec \in Int
        BY Units DEF Times
    <2>3. D \in Int
        BY Units
    <2> HIDE DEF N, d, D
    <2>4. N * D \in Int
        BY <1>1, <2>3
    <2>5. QED
        BY <2>1, <2>2, <2>4
<1>3. d \in 0 .. D - 1 /\ D \in Nat \ {0}
    BY TimesAreDaytimes, TimeOfDaySeconds, Units
<1>4. 36525 * D <= 2 * TimeHalf /\ TimeHalf \in Nat
    BY CalendarAssumption
<1> HIDE DEF N, d, D
<1>5. PICK k \in Nat : N + 1 + k = 36525
    <2>1. 36524 - N \in Nat /\ N + 1 + (36524 - N) = 36525
        BY <1>1
    <2>2. QED
        BY <2>1
<1>6. 36525 * D = N * D + D + k * D /\ k * D \in Nat /\ N * D \in Nat
    <2>1. (N + 1 + k) * D = N * D + D + k * D
        BY <1>1, <1>3
    <2>2. QED
        BY <1>1, <1>3, <1>5, <2>1
<1>7. QED
    BY <1>2, <1>3, <1>4, <1>6

\* mktime counts the seconds since 1970 as the calendar does.
LEMMA MktimeRight ==
    ASSUME NEW t \in Times
    PROVE  mktime(t) = SecondNumber(t)
<1> DEFINE y == SinceEpoch(t)
           c == t.mon > 2 /\ (y + 2) % 4 # 0
           D == DAY
           T == month[t.mon]
           L == (y + 1) \div 4
           A == HOUR * t.hour
           B == MINUTE * t.min
           S == t.sec
           e == t.mday
<1>1. /\ y \in 0 .. 99 /\ FullYear(t.year) = 1970 + y /\ t.mon \in 1 .. 12
      /\ t.mday \in 1 .. 31
      /\ DaysInYear(t) = TableDays(t.mon, FullYear(t.year)) + t.mday - 1
      /\ DaysInYear(t) \in 0 .. 365
      /\ DayNumber(t) = 365 * y + L + DaysInYear(t)
    BY DateParts
<1>2. DaysInYear(t) = T - (IF c THEN 1 ELSE 0) + e - 1
    <2>1. Leap(FullYear(t.year)) <=> (y + 2) % 4 = 0
        BY <1>1, EveryFourth
    <2>2. QED
        BY <1>1, <2>1 DEF TableDays
<1>3. T \in Int
    BY <1>1, Months, MonthTable
<1>5. D \in Int /\ HOUR \in Int /\ MINUTE \in Int /\ A \in Int /\ B \in Int /\ S \in Int
      /\ A = t.hour * HOUR /\ B = t.min * MINUTE
    <2>1. /\ t.hour \in Int /\ t.min \in Int /\ t.sec \in Int
        BY DEF Times
    <2>2. D \in Int /\ HOUR \in Int /\ MINUTE \in Int
        BY Units
    <2>3. QED
        BY <2>1, <2>2
<1>6. mktime(t) = time_t(int((365 * D) * y) + D * L + T * D - (IF c THEN D ELSE 0)
                             + D * (e - 1) + A + B + S)
    BY Zenon DEF mktime, YEAR
<1>7. SecondNumber(t) = (365 * y + L + (T - (IF c THEN 1 ELSE 0) + e - 1)) * D + A + B + S
    <2>1. SecondNumber(t) = DayNumber(t) * D + t.hour * HOUR + t.min * MINUTE + t.sec
        BY DEF SecondNumber
    <2>2. /\ DayNumber(t) = 365 * y + L + DaysInYear(t)
          /\ DaysInYear(t) = T - (IF c THEN 1 ELSE 0) + e - 1
        BY <1>1, <1>2
    <2> HIDE DEF y, L, T, c, e, A, B, S, D
    <2> DEFINE days == 365 * y + L + (T - (IF c THEN 1 ELSE 0) + e - 1)
    <2>3. DayNumber(t) = days
        BY <2>2, Zenon
    <2>4. DayNumber(t) * D = days * D
        BY <2>3, Zenon
    <2>5. QED
        BY <1>5, <2>1, <2>4, SMTT(30) DEF S
<1>8. y \in Int /\ L \in Int /\ e \in Int
    BY <1>1
<1>9. SecondNumber(t) \in 0 .. 2 * TimeHalf - 1
    BY SecondsFit
<1> DEFINE r == D * L + T * D - (IF c THEN D ELSE 0) + D * (e - 1) + A + B + S
           a == (365 * D) * y
<1> HIDE DEF y, D, T, L, A, B, S, e, c
<1>10. a \in Int /\ D * L \in Int /\ T * D \in Int /\ D * (e - 1) \in Int
    BY <1>3, <1>5, <1>8
<1>11. r \in Int
    BY <1>5, <1>10
<1>12. a + r = SecondNumber(t)
    <2>1. CASE c
        <3>1. a + D * L + T * D - D + D * (e - 1)
                = (365 * y + L + (T - 1 + e - 1)) * D
            BY <1>3, <1>5, <1>8
        <3> HIDE DEF a
        <3>2. a + r = (a + D * L + T * D - D + D * (e - 1)) + A + B + S
            <4>1. r = D * L + T * D - D + D * (e - 1) + A + B + S
                BY <2>1
            <4>2. QED
                BY <1>5, <1>10, <4>1
        <3> HIDE DEF r
        <3>3. SecondNumber(t) = (365 * y + L + (T - 1 + e - 1)) * D + A + B + S
            BY <1>7, <2>1
        <3>4. QED
            BY <3>1, <3>2, <3>3, Zenon
    <2>2. CASE ~c
        <3>1. a + D * L + T * D - 0 + D * (e - 1)
                = (365 * y + L + (T - 0 + e - 1)) * D
            BY <1>3, <1>5, <1>8
        <3> HIDE DEF a
        <3>2. a + r = (a + D * L + T * D - 0 + D * (e - 1)) + A + B + S
            <4>1. r = D * L + T * D - 0 + D * (e - 1) + A + B + S
                BY <2>2
            <4>2. QED
                BY <1>5, <1>10, <4>1
        <3> HIDE DEF r
        <3>3. SecondNumber(t) = (365 * y + L + (T - 0 + e - 1)) * D + A + B + S
            BY <1>7, <2>2
        <3>4. QED
            BY <3>1, <3>2, <3>3, Zenon
    <2>3. QED
        BY <2>1, <2>2
<1>13. int(a) \in Int
    BY <1>10, CalendarAssumption DEF int
<1>14. int(a) + D * L + T * D - (IF c THEN D ELSE 0) + D * (e - 1) + A + B + S
         = int(a) + r
    <2> DEFINE i == int(a)
               f == IF c THEN D ELSE 0
    <2>1. i \in Int /\ f \in Int
        BY <1>5, <1>13
    <2> HIDE DEF i, f, a
    <2>2. i + D * L + T * D - f + D * (e - 1) + A + B + S
             = i + (D * L + T * D - f + D * (e - 1) + A + B + S)
        BY <1>5, <1>10, <2>1
    <2>3. QED
        BY <2>2 DEF i, f
<1>15. mktime(t) = time_t(int(a) + r)
    BY <1>6, <1>14, Zenon DEF a
<1> HIDE DEF a, r
<1>16. QED
    BY <1>9, <1>10, <1>11, <1>12, <1>15, OverflowUndone

\* A number of days and the time of day come back out of their seconds.
LEMMA StampParts ==
    ASSUME NEW t \in Times
    PROVE  /\ SecondNumber(t) \div DAY = DayNumber(t)
           /\ SecondNumber(t) % SecPerMin = t.sec
           /\ (SecondNumber(t) \div MINUTE) % MinPerHour = t.min
           /\ (SecondNumber(t) \div HOUR) % HourPerDay = t.hour
<1> DEFINE S == SecPerMin
           M == MinPerHour
           H == HourPerDay
           N == DayNumber(t)
           d == TimeOfDay(t)
           n == SecondNumber(t)
           HM == HOUR
           D == DAY
<1>1. /\ S \in Nat \ {0} /\ M \in Nat \ {0} /\ H \in Nat \ {0}
      /\ MINUTE = S /\ HM = M * S /\ D = H * (M * S)
      /\ HM \in Nat \ {0} /\ D \in Nat \ {0}
    BY Units
<1>2. /\ d \in 0 .. D - 1 /\ d \in Int
      /\ d % S = t.sec /\ (d \div MINUTE) % M = t.min /\ d \div HM = t.hour
      /\ t.hour \in 0 .. H - 1
    <2>1. Daytime(t)
        BY TimesAreDaytimes
    <2>2. d \in 0 .. D - 1
        BY <2>1, TimeOfDaySeconds
    <2>3. d \in Int
        BY <1>1, <2>2
    <2>4. QED
        BY <2>1, <2>2, <2>3, TimeOfDaySeconds DEF Daytime
<1>3. N \in Int /\ n = N * D + d
    <2>1. N \in Int
        <3>1. /\ SinceEpoch(t) \in 0 .. 99 /\ DaysInYear(t) \in 0 .. 365
              /\ DayNumber(t) = 365 * SinceEpoch(t) + (SinceEpoch(t) + 1) \div 4 + DaysInYear(t)
            BY DateParts
        <3> DEFINE a == SinceEpoch(t)
                   b == DaysInYear(t)
        <3>2. /\ a \in 0 .. 99 /\ b \in 0 .. 365
              /\ N = 365 * a + (a + 1) \div 4 + b
            BY <3>1
        <3> HIDE DEF a, b, N
        <3>3. QED
            BY <3>2
    <2>2. /\ n = N * D + t.hour * HM + t.min * MINUTE + t.sec
          /\ d = t.hour * HM + t.min * MINUTE + t.sec
        BY DEF SecondNumber, TimeOfDay
    <2>3. /\ t.hour \in Int /\ t.min \in Int /\ t.sec \in Int
        BY DEF Times
    <2> HIDE DEF N, n, d, HM, D
    <2>4. N * D \in Int /\ t.hour * HM \in Int /\ t.min * MINUTE \in Int
        BY <1>1, <2>1, <2>3
    <2>5. QED
        BY <2>1, <2>2, <2>3, <2>4
<1> DEFINE sec == t.sec
           min == t.min
           hour == t.hour
<1>4. d % S = sec /\ (d \div MINUTE) % M = min /\ d \div HM = hour /\ hour \in 0 .. H - 1
    BY <1>2
<1> HIDE DEF S, M, H, N, d, n, HM, D, sec, min, hour
<1>5. n \in Int
    <2>1. N * D \in Int
        BY <1>1, <1>3
    <2>2. QED
        BY <1>2, <1>3, <2>1
<1>6. n \div D = N
    <2>1. D \in Nat \ {0} /\ n \in Int /\ N \in Int /\ d \in 0 .. D - 1 /\ n = N * D + d
        BY <1>1, <1>2, <1>3, <1>5
    <2>2. QED
        BY <2>1, DivisionUnique, Zenon
<1>7. n % S = sec /\ (n \div S) % M = min
    <2> DEFINE q == d \div S
               r == d % S
               u == q \div M
               v == q % M
    <2>1. q \in Int /\ r \in 0 .. S - 1 /\ d = q * S + r
        BY <1>1, <1>2, Division
    <2> HIDE DEF q, r
    <2>2. u \in Int /\ v \in 0 .. M - 1 /\ q = u * M + v
        BY <1>1, <2>1, Division
    <2> HIDE DEF u, v
    <2> DEFINE w == N * H + u
               p == w * M + v
    <2>3. w \in Int /\ p \in Int
        <3>1. N * H \in Int
            BY <1>1, <1>3
        <3>2. w \in Int
            BY <2>2, <3>1
        <3> HIDE DEF w
        <3>3. w * M \in Int
            BY <1>1, <3>2
        <3>4. QED
            BY <2>2, <3>2, <3>3
    <2>4. n = p * S + r
        <3>1. n = N * (H * (M * S)) + ((u * M + v) * S + r)
            BY <1>1, <1>3, <2>1, <2>2
        <3>2. N * (H * (M * S)) + ((u * M + v) * S + r) = ((N * H + u) * M + v) * S + r
            BY <1>1, <1>3, <2>1, <2>2
        <3>3. QED
            BY <3>1, <3>2
    <2> HIDE DEF p
    <2>5. n \div S = p /\ n % S = r
        BY <1>1, <1>5, <2>1, <2>3, <2>4, DivisionUnique
    <2>6. p = w * M + v
        BY DEF p
    <2> HIDE DEF w
    <2>7. p % M = v
        BY <1>1, <2>2, <2>3, <2>6, DivisionUnique
    <2>8. r = sec /\ v = min
        BY <1>1, <1>4 DEF r, v, q
    <2>9. QED
        BY <2>5, <2>7, <2>8
<1>8. (n \div HM) % H = hour
    <2> DEFINE r == d % HM
               w == N * H + hour
    <2>1. r \in 0 .. HM - 1 /\ d = hour * HM + r
        BY <1>1, <1>2, <1>4, Division
    <2> HIDE DEF r
    <2>2. w \in Int
        <3>1. N * H \in Int
            BY <1>1, <1>3
        <3>2. QED
            BY <1>1, <1>4, <3>1
    <2>3. n = w * HM + r
        <3>1. n = N * (H * HM) + (hour * HM + r)
            BY <1>1, <1>3, <2>1
        <3>2. N * (H * HM) + (hour * HM + r) = (N * H + hour) * HM + r
            BY <1>1, <1>3, <1>4, <2>1
        <3>3. QED
            BY <3>1, <3>2
    <2>4. w = N * H + hour
        OBVIOUS
    <2> HIDE DEF w
    <2>5. n \div HM = w
        BY <1>1, <1>5, <2>1, <2>2, <2>3, DivisionUnique
    <2>6. w % H = hour
        <3>1. H \in Nat \ {0} /\ w \in Int /\ N \in Int /\ hour \in 0 .. H - 1
                /\ w = N * H + hour
            BY <1>1, <1>3, <1>4, <2>2, <2>4
        <3>2. w \div H = N /\ w % H = hour
            BY <3>1, DivisionUnique, Zenon
        <3>3. QED
            BY <3>2
    <2>7. QED
        BY <2>5, <2>6
<1>9. QED
    BY <1>1, <1>6, <1>7, <1>8 DEF S, M, H, N, n, HM, D, sec, min, hour

TwoDigits == 0 .. 99
YearDays == 0 .. 365

\* What localtime makes of the d-th day of the year y years after 1970.
YearsTaken(y, d) ==
    /\ (365 * y + (y + 1) \div 4 + d) \div 365 + 70 = y + 70
          <=> (y + 1) \div 4 + d < 365
    /\ elapsed_leap_years(y + 70) = (y + 1) \div 4
    /\ is_leap_year(y + 70) <=> (y + 2) % 4 = 0
    /\ (365 * y + d) % 365 = d % 365
    /\ (365 * y + d) % 366 = d => y = 0

LEMMA LocaltimeYear ==
    ASSUME NEW y \in TwoDigits, NEW d \in YearDays
    PROVE  YearsTaken(y, d)
<1> USE DEF TwoDigits, YearDays
<1>1. elapsed_leap_years(y + 70) = (y + 1) \div 4
    BY DEF elapsed_leap_years
<1>2. is_leap_year(y + 70) <=> (y + 2) % 4 = 0
    BY DEF is_leap_year
<1>3. (y + 1) \div 4 \in 0 .. 25
    OBVIOUS
<1>4. (365 * y + (y + 1) \div 4 + d) \div 365 + 70 = y + 70 <=> (y + 1) \div 4 + d < 365
    BY <1>3
<1>5. (365 * y + d) % 365 = d % 365 /\ ((365 * y + d) % 366 = d => y = 0)
    OBVIOUS
<1>6. QED
    BY <1>1, <1>2, <1>4, <1>5 DEF YearsTaken

\* localtime gives back the date, counting years from 1900, exactly when it is
\* one of a year without a leap day, from March on and not one of as many last
\* days of the year as leap days have passed.
LEMMA LocaltimeRight ==
    ASSUME NEW t \in Times
    PROVE  (localtime(SecondNumber(t)) = [t EXCEPT !.year = FullYear(@) - 1900])
               <=> Converted(t)
<1> DEFINE stamp == SecondNumber(t)
           days == stamp \div DAY
           years == days \div 365 + 70
           offset == IF is_leap_year(years) THEN 0 ELSE 1
           yday == (days - elapsed_leap_years(years)) % (366 - offset)
           mon == Cardinality({m \in 1 .. 12 : month[m] - offset <= yday})
           mday == yday - month[mon] + offset + 1
           local == localtime(stamp)
           y == SinceEpoch(t)
           L == (y + 1) \div 4
           d == DaysInYear(t)
           leap == Leap(FullYear(t.year))
<1>1. /\ y \in 0 .. 99 /\ FullYear(t.year) = 1970 + y
      /\ t.mon \in 1 .. 12 /\ t.mday \in 1 .. 31
      /\ d = TableDays(t.mon, FullYear(t.year)) + t.mday - 1
      /\ d \in 0 .. 365
      /\ ~leap => d <= 364
      /\ DayNumber(t) = 365 * y + L + d
    BY DateParts
<1>2. /\ local.mday = mday /\ local.mon = mon /\ local.year = years
      /\ (local = [t EXCEPT !.year = FullYear(@) - 1900]
            <=> mday = t.mday /\ mon = t.mon /\ years = y + 70)
    <2>1. local = [sec |-> stamp % SecPerMin, min |-> (stamp \div MINUTE) % MinPerHour,
                   hour |-> (stamp \div HOUR) % HourPerDay,
                   mday |-> mday, mon |-> mon, year |-> years]
        BY DEF localtime
    <2>2. local = [sec |-> t.sec, min |-> t.min, hour |-> t.hour,
                   mday |-> mday, mon |-> mon, year |-> years]
        BY <2>1, StampParts
    <2> HIDE DEF local, mday, mon, years
    <2>3. [t EXCEPT !.year = FullYear(@) - 1900]
            = [sec |-> t.sec, min |-> t.min, hour |-> t.hour,
               mday |-> t.mday, mon |-> t.mon, year |-> y + 70]
        <3>1. FullYear(t.year) - 1900 = y + 70
            BY <1>1
        <3>2. t = [sec |-> t.sec, min |-> t.min, hour |-> t.hour,
                   mday |-> t.mday, mon |-> t.mon, year |-> t.year]
            BY DEF Times
        <3>3. QED
            BY <3>1, <3>2
    <2>4. QED
        BY <2>2, <2>3
<1>3. /\ days = 365 * y + L + d /\ days = DayNumber(t)
      /\ years = y + 70 <=> L + d < 365
      /\ elapsed_leap_years(y + 70) = L
      /\ is_leap_year(y + 70) <=> leap
      /\ (365 * y + d) % 365 = d % 365
      /\ (365 * y + d) % 366 = d => y = 0
    <2>1. days = 365 * y + L + d /\ days = DayNumber(t)
        BY <1>1, StampParts
    <2>2. leap <=> (y + 2) % 4 = 0
        BY <1>1, EveryFourth
    <2> HIDE DEF y, d, days, leap
    <2>3. /\ (365 * y + L + d) \div 365 + 70 = y + 70 <=> L + d < 365
          /\ elapsed_leap_years(y + 70) = L
          /\ is_leap_year(y + 70) <=> (y + 2) % 4 = 0
          /\ (365 * y + d) % 365 = d % 365
          /\ (365 * y + d) % 366 = d => y = 0
        <3>1. y \in TwoDigits /\ d \in YearDays
            BY <1>1 DEF TwoDigits, YearDays
        <3>2. YearsTaken(y, d)
            BY <3>1, LocaltimeYear, Zenon
        <3>3. QED
            BY <3>2, Zenon DEF YearsTaken
    <2>4. years = (365 * y + L + d) \div 365 + 70
        BY <2>1, Zenon
    <2> HIDE DEF L, years
    <2>5. QED
        BY <2>1, <2>2, <2>3, <2>4, Zenon
<1>4. Converted(t) <=> ~leap /\ t.mon > 2 /\ d < 365 - L
    <2>1. Cardinality(PastLeaps(y)) = L
        BY <1>1, LeapsSoFar
    <2>2. {n \in 1970 .. FullYear(t.year) - 1 : Leap(n)} = PastLeaps(y)
        BY <1>1 DEF PastLeaps, PastYears
    <2> HIDE DEF L, d
    <2>3. QED
        BY <2>1, <2>2 DEF Converted, d
<1>5. L \in 0 .. 25
    BY <1>1
<1> HIDE DEF stamp, y, d, L, leap, mon
<1>6. ASSUME years = y + 70
      PROVE  yday = IF leap THEN (365 * y + d) % 366 ELSE (365 * y + d) % 365
    <2>1. days - elapsed_leap_years(years) = 365 * y + d
        <3> HIDE DEF days, years
        <3>1. elapsed_leap_years(years) = L
            BY <1>3, <1>6
        <3>2. QED
            BY <1>1, <1>3, <1>5, <3>1
    <2>2. offset = IF leap THEN 0 ELSE 1
        BY <1>3, <1>6, SMTT(30)
    <2> HIDE DEF days, years, offset
    <2>3. QED
        BY <2>1, <2>2
<1>7. ASSUME Converted(t) PROVE mday = t.mday /\ mon = t.mon /\ years = y + 70
    <2>1. ~leap /\ t.mon > 2 /\ L + d < 365 /\ years = y + 70
        BY <1>1, <1>3, <1>4, <1>5, <1>7
    <2>2. yday = d /\ offset = 1
        <3>1. yday = d % 365
            BY <1>3, <1>6, <2>1
        <3>2. offset = 1
            BY <1>3, <2>1
        <3>3. d \in 0 .. 364
            BY <1>1, <2>1
        <3>4. d % 365 = d
            BY <3>3
        <3> HIDE DEF yday, offset
        <3>5. QED
            BY <3>1, <3>2, <3>4, Zenon
    <2>3. d = month[t.mon] - 1 + t.mday - 1 /\ t.mday <= MonthDays(t.mon, FullYear(t.year))
        BY <1>1, <2>1 DEF TableDays, leap, Times
    <2>4. {m \in 1 .. 12 : month[m] - 1 <= d} = 1 .. t.mon
        <3> DEFINE k == t.mon
                   e == t.mday
        <3>1. /\ k \in 3 .. 12 /\ e \in 1 .. 31 /\ d = month[k] - 1 + e - 1
              /\ e <= (IF k \in {4, 6, 9, 11} THEN 30 ELSE 31)
            BY <1>1, <2>1, <2>3 DEF MonthDays
        <3> HIDE DEF k, e
        <3>2. ASSUME NEW m \in 1 .. 12 PROVE month[m] - 1 <= d <=> m <= k
            BY <3>1, Months, MonthTable
        <3>3. {m \in 1 .. 12 : month[m] - 1 <= d} = 1 .. k
            BY <3>1, <3>2
        <3>4. QED
            BY <3>3 DEF k
    <2>5. mon = t.mon
        <3>1. mon = Cardinality(1 .. t.mon)
            <4> HIDE DEF offset, yday
            <4>1. QED
                BY <2>2, <2>4, Zenon DEF mon
        <3>2. Cardinality(1 .. t.mon) = t.mon
            <4> DEFINE k == t.mon
            <4>1. k \in Int /\ 1 \in Int /\ ~(1 > k) /\ k - 1 + 1 = k
                BY <1>1
            <4> HIDE DEF k
            <4>2. Cardinality(1 .. k) = k
                BY <4>1, FS_Interval
            <4>3. QED
                BY <4>2 DEF k
        <3>3. QED
            BY <3>1, <3>2
    <2>6. mday = d - month[t.mon] + 1 + 1
        BY <2>2, <2>5
    <2>7. month[t.mon] \in Int
        BY <1>1, Months, MonthTable
    <2> HIDE DEF mday, years
    <2>8. mday = t.mday
        BY <1>1, <2>3, <2>6, <2>7
    <2>9. QED
        BY <2>1, <2>5, <2>8
<1>8. ASSUME mday = t.mday, mon = t.mon, years = y + 70 PROVE Converted(t)
    <2>1. L + d < 365
        BY <1>3, <1>8
    <2>2. month[t.mon] \in Int
        BY <1>1, Months, MonthTable
    <2>3. offset = IF leap THEN 0 ELSE 1
        BY <1>3, <1>8, SMTT(30)
    <2>4. t.mday = yday - month[t.mon] + offset + 1
        BY <1>8
    <2>5. ~leap
        <3> SUFFICES ASSUME leap PROVE FALSE
            OBVIOUS
        <3>1. yday = (365 * y + d) % 366
            BY <1>6, <1>8
        <3>2. d = month[t.mon] + t.mday - 1 /\ offset = 0
            BY <1>1, <2>2, <2>3 DEF TableDays, leap
        <3>3. yday \in Int
            BY <1>1, <3>1
        <3> HIDE DEF yday, offset
        <3>4. yday = d
            <4>1. t.mday \in Int /\ month[t.mon] \in Int
                BY <1>1, <2>2
            <4> DEFINE a == month[t.mon]
                       b == t.mday
            <4>2. b = yday - a + offset + 1 /\ d = a + b - 1
                BY <2>4, <3>2
            <4> HIDE DEF a, b
            <4>3. a \in Int /\ b \in Int
                BY <4>1 DEF a, b
            <4>4. QED
                BY <3>2, <3>3, <4>2, <4>3
        <3>5. y = 0
            BY <1>3, <3>1, <3>4
        <3>6. ~Leap(1970)
            BY DEF Leap
        <3>7. QED
            BY <1>1, <3>5, <3>6 DEF leap
    <2>6. yday = d /\ offset = 1
        <3>1. yday = d % 365 /\ offset = 1
            BY <1>3, <1>6, <1>8, <2>3, <2>5
        <3> HIDE DEF yday, offset
        <3>2. QED
            BY <1>1, <2>5, <3>1
    <2>7. t.mon > 2
        <3> SUFFICES ASSUME ~(t.mon > 2) PROVE FALSE
            OBVIOUS
        <3>1. d = month[t.mon] + t.mday - 1
            BY <1>1, <2>2 DEF TableDays
        <3> HIDE DEF yday, offset
        <3>2. QED
            <4>1. t.mday \in Int /\ month[t.mon] \in Int
                BY <1>1, <2>2
            <4> DEFINE a == month[t.mon]
                       b == t.mday
            <4>2. b = yday - a + offset + 1 /\ d = a + b - 1
                BY <2>4, <3>1
            <4> HIDE DEF a, b
            <4>3. a \in Int /\ b \in Int
                BY <4>1 DEF a, b
            <4>4. QED
                BY <2>6, <4>2, <4>3
    <2>8. QED
        BY <1>1, <1>4, <1>5, <2>1, <2>5, <2>7
<1>9. QED
    BY <1>2, <1>7, <1>8 DEF stamp

(***************************************************************************)
(* The inductive invariant                                                 *)
(***************************************************************************)

Digits == [sec : 0 .. 255, min : 0 .. 255, hour : 0 .. 255,
           mday : 0 .. 255, mon : 0 .. 255, year : 0 .. 255]

AlarmFields == {"hour", "min", "sec"}
Alarms == [hour : 0 .. HourPerDay - 1, min : 0 .. MinPerHour - 1, sec : 0 .. SecPerMin - 1]

ClockTypes ==
    /\ BeeperTypeOK
    /\ now \in Times /\ updating \in BOOLEAN
    /\ alarm \in [AlarmFields -> 0 .. 255] /\ AF \in BOOLEAN /\ AIE \in BOOLEAN
    /\ handler_table \in [Irqs -> {"default_handler", "clock_handler", "rtc_handler"}]
    /\ at \in 1 .. 7 /\ tm \in Digits /\ secs \in Nat
    /\ index \in {"none", "own", "C"}
    /\ clean \in BOOLEAN /\ ticks \in 0 .. SecPerMin - 1 /\ taken \in Times
    /\ torn \in BOOLEAN

\* Between two steps no interrupt is in service, and the clock's is requested
\* exactly while its line is up.
PicInv ==
    /\ service = [master |-> {}, slave |-> {}]
    /\ pending = IF AF /\ AIE THEN {IRQ_RTC} ELSE {}
    /\ caller = "set_alarm" =>
         /\ handler_table[IRQ_RTC] = "rtc_handler"
         /\ IRQ_RTC \notin masked /\ IRQ_CASCADE \notin masked

ThreadInv ==
    /\ \/ caller = "time_init" /\ pc \in {"boot", "read", "started"} /\ ~AIE
       \/ caller = "set_alarm" /\ pc \in {"up", "read", "write", "clear"} /\ clean
    /\ pc # "up" => due = Idle
    /\ pc # "read" => ticks = 0
    /\ pc = "boot" => at = 1
    /\ updating => ticks < SecPerMin - 1
    /\ pc \notin {"read", "write", "clear"} => index = "none" /\ ~torn
    /\ caller = "time_init" => index # "C" /\ ~torn

\* A pass over the registers that has met no update and of which no access was
\* torn is n seconds behind, less than a minute; while n is zero all its
\* registers are of now.
ReadInv ==
    pc = "read" /\ at > 1 /\ clean /\ ~torn =>
        \E n \in 0 .. ticks, s \in 0 .. SecPerMin - 1 :
            /\ tm.sec = Bcd(s) /\ now.sec = (s + n) % SecPerMin
            /\ n = 0 => \A i \in 1 .. at - 1 : tm[Registers[i]] = Bcd(now[Registers[i]])

StartedInv ==
    pc = "started" /\ clean => tm = taken /\ startup_time = mktime(tm)

\* set_alarm writes a time of the day, and while no access of it was torn the one
\* that is as many seconds after the reading as was asked for.
WriteInv ==
    /\ pc \in {"write", "clear"} =>
         /\ Daytime(tm)
         /\ ~torn => TimeOfDay(tm) = (TimeOfDay(taken) + secs) % DAY
    /\ pc = "write" =>
         /\ at <= 4
         /\ ~torn => \A i \in 1 .. at - 1 :
                       alarm[AlarmRegisters[i]] = Bcd(tm[AlarmRegisters[i]])
    /\ pc = "clear" /\ ~torn => AIE /\ \A f \in AlarmFields : alarm[f] = Bcd(tm[f])

\* The registers hold the time at which the alarm is due, and the flag is set
\* from that second on until the interrupt is taken, which no update precedes.
AlarmInv ==
    due # Idle =>
        /\ pc = "up" /\ AIE /\ due \in 0 .. DAY
        /\ \E target \in Alarms :
             /\ TimeOfDay(target) = (TimeOfDay(now) + due) % DAY
             /\ \A f \in AlarmFields : alarm[f] = Bcd(target[f])
        /\ AF <=> due = 0
        /\ due = 0 => ~updating

RtcInv ==
    ClockTypes /\ PicInv /\ ThreadInv /\ ReadInv /\ StartedInv /\ WriteInv /\ AlarmInv

(***************************************************************************)
(* The parts of a step                                                     *)
(***************************************************************************)

LEMMA BeeperTypes ==
    ASSUME BeeperTypeOK, Tick \/ StartBeep \/ UNCHANGED beeper
    PROVE  BeeperTypeOK'
<1> USE DEF BeeperTypeOK, beeper
<1>1. Word \in Nat /\ Word > 6
    BY BeeperAssumption
<1>2. CASE Tick
    <2>1. jiffies' \in 0 .. Word - 1
        BY <1>1, <1>2 DEF Tick
    <2>2. QED
        BY <1>2, <2>1 DEF Tick, StopBeep
<1>3. CASE StartBeep
    BY <1>3 DEF StartBeep
<1>4. CASE UNCHANGED beeper
    BY <1>4
<1>5. QED
    BY <1>2, <1>3, <1>4

\* A request stands exactly while the line is up.
LEMMA RequestsOfLine ==
    ASSUME PicInv, NEW af \in BOOLEAN, NEW aie \in BOOLEAN
    PROVE  Requests(af, aie) = IF af /\ aie THEN {IRQ_RTC} ELSE {}
<1>1. pending = IF AF /\ AIE THEN {IRQ_RTC} ELSE {}
    BY DEF PicInv
<1>2. CASE af /\ aie /\ ~(AF /\ AIE)
    BY <1>1, <1>2 DEF Requests
<1>3. CASE ~(af /\ aie)
    BY <1>1, <1>3 DEF Requests
<1>4. CASE af /\ aie /\ AF /\ AIE
    BY <1>1, <1>4 DEF Requests
<1>5. QED
    BY <1>2, <1>3, <1>4

LEMMA DeliverableAlarm ==
    ASSUME PicInv, ThreadInv
    PROVE  Deliverable(IRQ_RTC) <=> caller = "set_alarm" /\ AF /\ AIE
<1>1. Level(IRQ_RTC) = IRQ_CASCADE
    BY DEF Level, IRQ_RTC
<1>2. service.master = {} /\ service.slave = {}
    BY DEF PicInv
<1>3. CASE caller = "set_alarm"
    <2>1. pc \notin {"boot", "started"} /\ IRQ_RTC \notin masked /\ IRQ_CASCADE \notin masked
        BY <1>3 DEF ThreadInv, PicInv
    <2>2. IRQ_RTC \in pending \cup {IRQ_CLOCK} <=> AF /\ AIE
        BY DEF PicInv, IRQ_RTC, IRQ_CLOCK
    <2>3. QED
        BY <1>1, <1>2, <1>3, <2>1, <2>2 DEF Deliverable
<1>4. CASE caller # "set_alarm"
    BY <1>4 DEF Deliverable, ThreadInv
<1>5. QED
    BY <1>3, <1>4

\* send_eoi ends what the interrupt began, in both controllers.
LEMMA EoiEnds ==
    ASSUME PicInv, NEW irq \in {IRQ_CLOCK, IRQ_RTC}
    PROVE  send_eoi(IRQ_MASTER_NR + irq, Acknowledged(irq)) = [master |-> {}, slave |-> {}]
<1>1. \A l \in Int : Ended({l}) = {}
    <2>1. ASSUME NEW l \in Int PROVE Min({l}) = l
        BY DEF Min
    <2>2. QED
        BY <2>1 DEF Ended
<1>2. Ended({}) = {}
    BY DEF Ended
<1>3. service.master = {} /\ service.slave = {}
    BY DEF PicInv
<1>4. CASE irq = IRQ_CLOCK
    <2>1. Acknowledged(irq) = [master |-> {0}, slave |-> {}]
        BY <1>3, <1>4 DEF Acknowledged, Level, IRQ_CLOCK
    <2>2. IRQ_MASTER_NR + irq = 32
        BY <1>4 DEF IRQ_MASTER_NR, IRQ_CLOCK
    <2> DEFINE s == [master |-> {0}, slave |-> {}]
    <2>3. send_eoi(32, s) = [s EXCEPT !.master = Ended(@)]
        BY DEF send_eoi
    <2>4. [s EXCEPT !.master = Ended(@)] = [master |-> Ended({0}), slave |-> {}]
        OBVIOUS
    <2>5. Ended({0}) = {}
        BY <1>1
    <2>6. QED
        BY <2>1, <2>2, <2>3, <2>4, <2>5
<1>5. CASE irq = IRQ_RTC
    <2>1. Acknowledged(irq) = [master |-> {2}, slave |-> {0}]
        BY <1>3, <1>5 DEF Acknowledged, Level, IRQ_CASCADE, IRQ_RTC
    <2>2. IRQ_MASTER_NR + irq = 40
        BY <1>5 DEF IRQ_MASTER_NR, IRQ_RTC
    <2>3. send_eoi(40, [master |-> {2}, slave |-> {0}])
            = [master |-> Ended({2}), slave |-> Ended({0})]
        BY DEF send_eoi
    <2>4. QED
        BY <1>1, <2>1, <2>2, <2>3
<1>6. QED
    BY <1>4, <1>5

\* A shift within one period comes back only by nothing.
LEMMA NoShift ==
    ASSUME NEW d \in Nat \ {0}, NEW a \in 0 .. d - 1, NEW b \in 0 .. d - 1
    PROVE  (a + b) % d = a <=> b = 0
<1>1. CASE a + b < d
    <2>1. a + b = 0 * d + (a + b) /\ a + b \in 0 .. d - 1 /\ a + b \in Int
        BY <1>1
    <2>2. (a + b) % d = a + b
        BY <2>1, DivisionUnique
    <2>3. QED
        BY <2>2
<1>2. CASE a + b >= d
    <2>1. a + b = 1 * d + (a + b - d) /\ a + b - d \in 0 .. d - 1 /\ a + b \in Int
        BY <1>2
    <2>2. (a + b) % d = a + b - d
        BY <2>1, DivisionUnique
    <2>3. QED
        BY <1>2, <2>2
<1>3. QED
    BY <1>1, <1>2

LEMMA DayLater ==
    ASSUME NEW a \in 0 .. DAY - 1
    PROVE  (a + DAY) % DAY = a /\ (a + 0) % DAY = a
<1>1. DAY \in Nat \ {0} /\ a \in Int /\ a + DAY \in Int
    BY Units
<1>2. a + DAY = 1 * DAY + a /\ a + 0 = 0 * DAY + a
    BY <1>1
<1>3. (a + DAY) % DAY = a
    BY <1>1, <1>2, DivisionUnique
<1>4. (a + 0) % DAY = a
    BY <1>1, <1>2, DivisionUnique
<1>5. QED
    BY <1>3, <1>4

LEMMA NoTimeIsTime == NoTime \in Times /\ NoTime \in Digits
<1>1. 0 \in 0 .. SecPerMin - 1 /\ 0 \in 0 .. MinPerHour - 1 /\ 0 \in 0 .. HourPerDay - 1
    BY Units
<1>2. 1 <= MonthDays(1, FullYear(0))
    BY MonthLengths
<1>3. QED
    BY <1>1, <1>2 DEF NoTime, Midnight, Times, Digits

LEMMA RtcInit == Init => RtcInv
<1> SUFFICES ASSUME Init PROVE RtcInv
    OBVIOUS
<1> USE DEF Init
<1>1. NoTime \in Times
    BY NoTimeIsTime
<1>2. ClockTypes
    <2>1. BeeperTypeOK
        <3>1. 0 \in 0 .. Word - 1
            BY BeeperAssumption
        <3>2. QED
            BY <3>1 DEF BeeperInit, BeeperTypeOK
    <2>2. now \in Times
        BY RtcAssumption
    <2>3. tm \in Digits /\ alarm \in [AlarmFields -> 0 .. 255]
        BY DEF NoTime, Midnight, Digits, AlarmFields
    <2>4. handler_table \in [Irqs -> {"default_handler", "clock_handler", "rtc_handler"}]
        BY DEF idt_init
    <2>5. ticks \in 0 .. SecPerMin - 1 /\ at \in 1 .. 7 /\ secs \in Nat
        BY Units
    <2>6. updating \in BOOLEAN /\ AF \in BOOLEAN /\ AIE \in BOOLEAN /\ clean \in BOOLEAN
        OBVIOUS
    <2>7. taken \in Times
        BY <1>1
    <2>8. index \in {"none", "own", "C"} /\ torn \in BOOLEAN
        OBVIOUS
    <2> QED
        BY <2>1, <2>2, <2>3, <2>4, <2>5, <2>6, <2>7, <2>8 DEF ClockTypes
<1>3. PicInv /\ ThreadInv
    BY DEF PicInv, ThreadInv
<1>4. ReadInv /\ StartedInv /\ WriteInv /\ AlarmInv
    BY DEF ReadInv, StartedInv, WriteInv, AlarmInv
<1>5. QED
    BY <1>2, <1>3, <1>4 DEF RtcInv

(***************************************************************************)
(* The steps                                                               *)
(***************************************************************************)

LEMMA BeginUpdateStep ==
    ASSUME RtcInv, BeginUpdate
    PROVE  RtcInv'
<1> USE DEF clock, controllers, thread, ghosts
<1>1. /\ ClockTypes /\ PicInv /\ ThreadInv /\ ReadInv /\ StartedInv
      /\ WriteInv /\ AlarmInv
    BY DEF RtcInv
<1>2. /\ updating' = TRUE /\ ticks < SecPerMin - 1 /\ ~Deliverable(IRQ_RTC)
      /\ UNCHANGED <<now, alarm, AF, AIE, controllers, thread, ghosts, beeper>>
    BY DEF BeginUpdate
<1>3. ClockTypes'
    <2>1. BeeperTypeOK'
        BY <1>1, <1>2, BeeperTypes DEF ClockTypes
    <2>2. QED
        BY <1>1, <1>2, <2>1 DEF ClockTypes
<1>4. PicInv' /\ ThreadInv' /\ StartedInv' /\ WriteInv'
    BY <1>1, <1>2 DEF PicInv, ThreadInv, StartedInv, WriteInv
<1>5. ReadInv'
    BY <1>1, <1>2 DEF ReadInv
<1>6. due # 0
    <2>1. due = 0 => caller = "set_alarm" /\ AF /\ AIE
        BY <1>1, RtcAssumption DEF AlarmInv, ThreadInv
    <2>2. QED
        BY <1>1, <1>2, <2>1, DeliverableAlarm
<1>7. AlarmInv'
    BY <1>1, <1>2, <1>6 DEF AlarmInv
<1>8. QED
    BY <1>3, <1>4, <1>5, <1>7 DEF RtcInv

LEMMA EndUpdateStep ==
    ASSUME RtcInv, EndUpdate
    PROVE  RtcInv'
<1> USE DEF clock, controllers, thread, ghosts
<1>1. /\ ClockTypes /\ PicInv /\ ThreadInv /\ ReadInv /\ StartedInv
      /\ WriteInv /\ AlarmInv
    BY DEF RtcInv
<1>2. /\ updating /\ updating' = FALSE
      /\ now' = NextSecond(now)
      /\ AF' = (AF \/ \A f \in AlarmFields : alarm[f] = Bcd(now'[f]))
      /\ pending' = Requests(AF', AIE)
      /\ ticks' = (IF pc = "read" THEN ticks + 1 ELSE 0)
      /\ due' = (IF due = Idle THEN Idle ELSE due - 1)
      /\ UNCHANGED <<alarm, AIE, handler_table, masked, service, thread,
                     clean, taken, torn, beeper>>
    BY DEF EndUpdate, AlarmFields
<1>3. /\ now \in Times /\ now' \in Times
      /\ TimeOfDay(now') = (TimeOfDay(now) + 1) % DAY
      /\ now'.sec = (now.sec + 1) % SecPerMin
      /\ now.sec \in 0 .. SecPerMin - 1
    BY <1>1, <1>2, NextSecondIsTime, TimesAreDaytimes DEF ClockTypes, Daytime
<1>4. SecPerMin \in Nat \ {0} /\ ticks \in 0 .. SecPerMin - 1 /\ ticks < SecPerMin - 1
    BY <1>1, <1>2, Units DEF ClockTypes, ThreadInv
<1>5. AF' \in BOOLEAN /\ AIE \in BOOLEAN
    BY <1>1, <1>2, Zenon DEF ClockTypes
<1>6. ClockTypes'
    <2>1. BeeperTypeOK'
        BY <1>1, <1>2, BeeperTypes DEF ClockTypes
    <2>2. ticks' \in 0 .. SecPerMin - 1
        BY <1>2, <1>4
    <2>3. updating' \in BOOLEAN
        BY <1>2
    <2>4. QED
        BY <1>1, <1>2, <1>3, <1>5, <2>1, <2>2, <2>3 DEF ClockTypes
<1>7. PicInv'
    <2>1. pending' = IF AF' /\ AIE THEN {IRQ_RTC} ELSE {}
        BY <1>1, <1>2, <1>5, RequestsOfLine
    <2>2. QED
        BY <1>1, <1>2, <2>1 DEF PicInv
<1>8. ThreadInv' /\ StartedInv' /\ WriteInv'
    BY <1>1, <1>2 DEF ThreadInv, StartedInv, WriteInv
<1>9. ReadInv'
    <2> SUFFICES ASSUME pc = "read", at > 1, clean, ~torn
                 PROVE  \E n \in 0 .. ticks', s \in 0 .. SecPerMin - 1 :
                            /\ tm.sec = Bcd(s) /\ now'.sec = (s + n) % SecPerMin
                            /\ n = 0 => \A i \in 1 .. at - 1 :
                                   tm[Registers[i]] = Bcd(now'[Registers[i]])
        BY <1>2 DEF ReadInv
    <2>1. PICK n \in 0 .. ticks, s \in 0 .. SecPerMin - 1 :
              tm.sec = Bcd(s) /\ now.sec = (s + n) % SecPerMin
        BY <1>1 DEF ReadInv
    <2>2. n + 1 \in 0 .. ticks' /\ n + 1 # 0
        BY <1>2, <1>4
    <2>3. now'.sec = (s + (n + 1)) % SecPerMin
        <3>1. s + n \in Int /\ 1 \in Int /\ s + (n + 1) = (s + n) + 1
            BY <1>4
        <3>2. (((s + n) % SecPerMin) + 1) % SecPerMin = ((s + n) + 1) % SecPerMin
            BY <1>4, <3>1, RemainderAdds, Zenon
        <3>3. QED
            BY <1>3, <2>1, <3>1, <3>2, Zenon
    <2>4. QED
        BY <2>1, <2>2, <2>3
<1>10. AlarmInv'
    <2> SUFFICES ASSUME due' # Idle PROVE AlarmInv'
        BY DEF AlarmInv
    <2>1. due # Idle /\ due' = due - 1
        BY <1>2
    <2>2. /\ pc = "up" /\ AIE /\ ~AF /\ due \in 1 .. DAY
        BY <1>1, <1>2, <2>1 DEF AlarmInv
    <2>3. PICK target \in Alarms :
              /\ TimeOfDay(target) = (TimeOfDay(now) + due) % DAY
              /\ \A f \in AlarmFields : alarm[f] = Bcd(target[f])
        BY <1>1, <2>1 DEF AlarmInv
    <2>4. DAY \in Nat \ {0} /\ due' \in 0 .. DAY - 1
        BY <2>1, <2>2, Units
    <2>5. Daytime(target) /\ Daytime(now') /\ Daytime(now)
        BY <1>3, <2>3, TimesAreDaytimes DEF Alarms, Daytime
    <2>6. /\ TimeOfDay(target) \in 0 .. DAY - 1 /\ TimeOfDay(now') \in 0 .. DAY - 1
          /\ TimeOfDay(now) \in Int
        <3>1. TimeOfDay(now) \in 0 .. DAY - 1
            BY <2>5, TimeOfDaySeconds
        <3>2. QED
            BY <2>4, <2>5, <3>1, TimeOfDaySeconds
    <2>7. TimeOfDay(target) = (TimeOfDay(now') + due') % DAY
        <3>1. TimeOfDay(now) + 1 \in Int /\ due' \in Int
                /\ TimeOfDay(now) + due = (TimeOfDay(now) + 1) + due'
            BY <2>1, <2>2, <2>4, <2>6
        <3>2. (((TimeOfDay(now) + 1) % DAY) + due') % DAY
                = ((TimeOfDay(now) + 1) + due') % DAY
            BY <2>4, <3>1, RemainderAdds
        <3>3. QED
            BY <1>3, <2>3, <3>1, <3>2, Zenon
    <2>8. TimeOfDay(target) = TimeOfDay(now') <=> due' = 0
        <3>1. (TimeOfDay(now') + due') % DAY = TimeOfDay(now') <=> due' = 0
            BY <2>4, <2>6, NoShift
        <3>2. QED
            BY <2>7, <3>1, Zenon
    <2>9. AF' <=> \A f \in AlarmFields : Bcd(target[f]) = Bcd(now'[f])
        BY <1>2, <2>2, <2>3
    <2>10. (\A f \in AlarmFields : Bcd(target[f]) = Bcd(now'[f]))
             <=> TimeOfDay(target) = TimeOfDay(now')
        <3>1. ASSUME \A f \in AlarmFields : Bcd(target[f]) = Bcd(now'[f])
              PROVE  TimeOfDay(target) = TimeOfDay(now')
            <4>1. /\ target.hour \in 0 .. 99 /\ target.min \in 0 .. 99 /\ target.sec \in 0 .. 99
                  /\ now'.hour \in 0 .. 99 /\ now'.min \in 0 .. 99 /\ now'.sec \in 0 .. 99
                BY <2>5, Units, SMTT(30) DEF Daytime
            <4>2. /\ Bcd(target.hour) = Bcd(now'.hour) /\ Bcd(target.min) = Bcd(now'.min)
                  /\ Bcd(target.sec) = Bcd(now'.sec)
                BY <3>1 DEF AlarmFields
            <4>3. target.hour = now'.hour
                BY <4>1, <4>2, BcdInjective
            <4>4. target.min = now'.min
                BY <4>1, <4>2, BcdInjective
            <4>5. target.sec = now'.sec
                BY <4>1, <4>2, BcdInjective
            <4>6. QED
                BY <4>3, <4>4, <4>5 DEF TimeOfDay
        <3>2. ASSUME TimeOfDay(target) = TimeOfDay(now')
              PROVE  \A f \in AlarmFields : Bcd(target[f]) = Bcd(now'[f])
            <4>1. /\ target.hour = now'.hour /\ target.min = now'.min
                  /\ target.sec = now'.sec
                BY <2>5, <3>2, SameTimeOfDay
            <4>2. QED
                BY <4>1 DEF AlarmFields
        <3>3. QED
            BY <3>1, <3>2
    <2>11. AF' <=> due' = 0
        BY <2>8, <2>9, <2>10
    <2>12. due' \in 0 .. DAY /\ pc' = "up" /\ AIE' /\ ~updating'
        BY <1>2, <2>2, <2>4
    <2>13. \A f \in AlarmFields : alarm'[f] = Bcd(target[f])
        BY <1>2, <2>3
    <2>14. QED
        BY <2>3, <2>7, <2>11, <2>12, <2>13 DEF AlarmInv
<1>11. QED
    BY <1>6, <1>7, <1>8, <1>9, <1>10 DEF RtcInv

\* What a register holds, each of its values in an update, and the flags that
\* are read instead, are bytes.
LEMMA SeenInDigits ==
    ASSUME RtcInv, NEW r \in {"sec", "min", "hour", "mday", "mon", "year"}
    PROVE  /\ \A value \in Seen(r) : value \in 0 .. 255
           /\ ~updating /\ ~Diverted => Seen(r) = {Bcd(now[r])}
<1>1. now \in Times
    BY DEF RtcInv, ClockTypes
<1>2. NextSecond(now) \in Times
    BY <1>1, NextSecondIsTime
<1>3. now[r] \in 0 .. 99 /\ NextSecond(now)[r] \in 0 .. 99
    BY <1>1, <1>2, TimesInDigits
<1>4. Bcd(now[r]) \in 0 .. 255 /\ Bcd(NextSecond(now)[r]) \in 0 .. 255
    BY <1>3, BcdOfBinary
<1>5. \A value \in Flags : value \in 0 .. 255
    <2> SUFFICES ASSUME NEW other \in OtherFlags
                 PROVE  other + (IF AF THEN 32 ELSE 0) + (IF AF /\ AIE THEN 128 ELSE 0)
                            \in 0 .. 255
        BY DEF Flags
    <2>1. other \in {0, 16, 64, 80}
        BY RtcAssumption
    <2>2. QED
        BY <2>1
<1>6. CASE Diverted
    BY <1>5, <1>6 DEF Seen
<1>7. CASE ~Diverted
    BY <1>4, <1>7 DEF Seen
<1>8. QED
    BY <1>6, <1>7

LEMMA RegistersDiffer ==
    /\ Len(Registers) = 6 /\ Registers[1] = "sec"
    /\ \A i \in 1 .. 6 : Registers[i] \in {"sec", "min", "hour", "mday", "mon", "year"}
    /\ \A i, j \in 1 .. 6 : Registers[i] = Registers[j] => i = j
    /\ \A r \in {"sec", "min", "hour", "mday", "mon", "year"} :
         \E i \in 1 .. 6 : r = Registers[i]
<1>1. Registers = <<"sec", "min", "hour", "mday", "mon", "year">>
    BY DEF Registers
<1>2. /\ Registers[1] = "sec" /\ Registers[2] = "min" /\ Registers[3] = "hour"
      /\ Registers[4] = "mday" /\ Registers[5] = "mon" /\ Registers[6] = "year"
      /\ Len(Registers) = 6
    BY <1>1
<1>3. \A i \in 1 .. 6 : i = 1 \/ i = 2 \/ i = 3 \/ i = 4 \/ i = 5 \/ i = 6
    OBVIOUS
<1>4. \A i, j \in 1 .. 6 : Registers[i] = Registers[j] => i = j
    BY <1>2, <1>3
<1>5. QED
    BY <1>2, <1>3, <1>4

LEMMA SelectRegisterStep ==
    ASSUME RtcInv, SelectRegister
    PROVE  RtcInv'
<1> USE DEF clock, controllers, thread, ghosts
<1>1. /\ ClockTypes /\ PicInv /\ ThreadInv /\ ReadInv /\ StartedInv
      /\ WriteInv /\ AlarmInv
    BY DEF RtcInv
<1>2. /\ pc \in {"read", "write", "clear"} /\ index' = "own"
      /\ UNCHANGED <<clock, controllers, pc, caller, at, tm, secs, startup_time,
                     ghosts, beeper>>
    BY DEF SelectRegister
<1>3. ClockTypes'
    <2>1. BeeperTypeOK'
        BY <1>1, <1>2, BeeperTypes DEF ClockTypes
    <2>2. QED
        BY <1>1, <1>2, <2>1 DEF ClockTypes
<1>4. PicInv' /\ ThreadInv' /\ StartedInv' /\ WriteInv' /\ AlarmInv'
    BY <1>1, <1>2 DEF PicInv, ThreadInv, StartedInv, WriteInv, AlarmInv
<1>5. ReadInv'
    BY <1>1, <1>2 DEF ReadInv
<1>6. QED
    BY <1>3, <1>4, <1>5 DEF RtcInv

LEMMA ReadRegisterStep ==
    ASSUME RtcInv, ReadRegister
    PROVE  RtcInv'
<1> USE DEF clock, controllers, thread, ghosts
<1> DEFINE R == Registers[at]
<1>1. /\ ClockTypes /\ PicInv /\ ThreadInv /\ ReadInv /\ StartedInv
      /\ WriteInv /\ AlarmInv
    BY DEF RtcInv
<1>2. PICK value \in Seen(R) : tm' = [tm EXCEPT ![R] = value]
    BY DEF ReadRegister
<1>3. /\ pc = "read" /\ (caller = "time_init" \/ ~updating)
      /\ at \in 1 .. 6 /\ at' = at + 1
      /\ clean' = ((at = 1 \/ clean) /\ ~updating)
      /\ torn' = (torn \/ Diverted)
      /\ index' = "none" /\ AF' = (AF /\ ~(Diverted /\ TRUE))
      /\ pending' = Requests(AF', AIE)
      /\ UNCHANGED <<now, updating, alarm, AIE, handler_table, masked, service, pc,
                     caller, secs, startup_time, ticks, taken, due, beeper>>
    BY <1>1, RegistersDiffer DEF ReadRegister, AccessData, Reading, ClockTypes
<1>4. /\ R \in {"sec", "min", "hour", "mday", "mon", "year"}
      /\ value \in 0 .. 255
      /\ ~updating /\ ~Diverted => value = Bcd(now[R])
    <2>1. R \in {"sec", "min", "hour", "mday", "mon", "year"}
        BY <1>3, RegistersDiffer
    <2>2. QED
        BY <1>2, <2>1, SeenInDigits
<1>5. /\ tm' \in Digits
      /\ tm'[R] = value
      /\ \A r \in {"sec", "min", "hour", "mday", "mon", "year"} : r # R => tm'[r] = tm[r]
    <2> HIDE DEF R
    <2>1. tm \in Digits
        BY <1>1 DEF ClockTypes
    <2>2. /\ tm'.sec = (IF R = "sec" THEN value ELSE tm.sec)
          /\ tm'.min = (IF R = "min" THEN value ELSE tm.min)
          /\ tm'.hour = (IF R = "hour" THEN value ELSE tm.hour)
          /\ tm'.mday = (IF R = "mday" THEN value ELSE tm.mday)
          /\ tm'.mon = (IF R = "mon" THEN value ELSE tm.mon)
          /\ tm'.year = (IF R = "year" THEN value ELSE tm.year)
        BY <1>2, <1>4, <2>1 DEF Digits
    <2>3. tm' = [sec |-> tm'.sec, min |-> tm'.min, hour |-> tm'.hour,
                 mday |-> tm'.mday, mon |-> tm'.mon, year |-> tm'.year]
        BY <1>2, <2>1 DEF Digits
    <2>4. tm' \in Digits
        BY <1>4, <2>1, <2>2, <2>3 DEF Digits
    <2>5. QED
        BY <1>4, <2>2, <2>4
<1>6. ClockTypes'
    <2>1. BeeperTypeOK'
        BY <1>1, <1>3, BeeperTypes DEF ClockTypes
    <2>2. /\ at' \in 1 .. 7 /\ clean' \in BOOLEAN /\ torn' \in BOOLEAN
          /\ AF' \in BOOLEAN /\ index' \in {"none", "own", "C"}
        BY <1>1, <1>3 DEF ClockTypes, Diverted
    <2>3. QED
        BY <1>1, <1>3, <1>5, <2>1, <2>2 DEF ClockTypes
<1>7. PicInv'
    <2>1. AF' \in BOOLEAN /\ AIE \in BOOLEAN
        BY <1>1, <1>3 DEF ClockTypes
    <2>2. pending' = IF AF' /\ AIE THEN {IRQ_RTC} ELSE {}
        BY <1>1, <1>3, <2>1, RequestsOfLine
    <2>3. QED
        BY <1>1, <1>3, <2>2 DEF PicInv
<1>8. ThreadInv' /\ StartedInv' /\ WriteInv' /\ AlarmInv'
    BY <1>1, <1>3 DEF ThreadInv, StartedInv, WriteInv, AlarmInv, Diverted
<1>9. ReadInv'
    <2> SUFFICES ASSUME clean', ~torn'
                 PROVE  \E n \in 0 .. ticks, s \in 0 .. SecPerMin - 1 :
                            /\ tm'.sec = Bcd(s) /\ now.sec = (s + n) % SecPerMin
                            /\ n = 0 => \A i \in 1 .. at :
                                   tm'[Registers[i]] = Bcd(now[Registers[i]])
        BY <1>3 DEF ReadInv
    <2>1. tm'[R] = Bcd(now[R]) /\ (at = 1 \/ clean) /\ ~torn
        BY <1>3, <1>4, <1>5
    <2>2. CASE at = 1
        <3>1. R = "sec" /\ tm'.sec = Bcd(now.sec)
            BY <2>1, <2>2, RegistersDiffer
        <3>2. now.sec \in 0 .. SecPerMin - 1 /\ 0 \in 0 .. ticks
            BY <1>1, TimesAreDaytimes, Units DEF ClockTypes, Daytime
        <3>3. now.sec = (now.sec + 0) % SecPerMin
            <4>1. SecPerMin \in Nat \ {0} /\ 0 \in 0 .. SecPerMin - 1
                BY Units
            <4>2. (now.sec + 0) % SecPerMin = now.sec <=> 0 = 0
                BY <3>2, <4>1, NoShift
            <4>3. QED
                BY <4>2
        <3>4. \A i \in 1 .. at : tm'[Registers[i]] = Bcd(now[Registers[i]])
            BY <2>1, <2>2
        <3>5. QED
            BY <3>1, <3>2, <3>3, <3>4
    <2>3. CASE at > 1
        <3>1. PICK n \in 0 .. ticks, s \in 0 .. SecPerMin - 1 :
                  /\ tm.sec = Bcd(s) /\ now.sec = (s + n) % SecPerMin
                  /\ n = 0 => \A i \in 1 .. at - 1 :
                         tm[Registers[i]] = Bcd(now[Registers[i]])
            BY <1>1, <1>3, <2>1, <2>3 DEF ReadInv
        <3>2. R # "sec"
            BY <1>3, <2>3, RegistersDiffer
        <3>3. tm'.sec = Bcd(s)
            BY <1>5, <3>1, <3>2
        <3>4. ASSUME n = 0, NEW i \in 1 .. at
              PROVE  tm'[Registers[i]] = Bcd(now[Registers[i]])
            <4>1. CASE i = at
                BY <2>1, <4>1
            <4>2. CASE i # at
                <5>1. i \in 1 .. at - 1 /\ i \in 1 .. 6
                    BY <1>3, <4>2
                <5>2. Registers[i] # R
                        /\ Registers[i] \in {"sec", "min", "hour", "mday", "mon", "year"}
                    BY <1>3, <4>2, <5>1, RegistersDiffer
                <5>3. tm'[Registers[i]] = tm[Registers[i]]
                    BY <1>5, <5>2
                <5>4. QED
                    BY <3>1, <3>4, <5>1, <5>3
            <4>3. QED
                BY <4>1, <4>2
        <3>5. QED
            BY <3>1, <3>3, <3>4
    <2>4. QED
        BY <1>3, <2>2, <2>3
<1>10. QED
    BY <1>6, <1>7, <1>8, <1>9 DEF RtcInv

\* A clean pass, not torn, whose seconds still agree has read the time of this
\* instant.
LEMMA ReadingIsNow ==
    ASSUME RtcInv, pc = "read", at > 6, clean, ~torn, tm.sec = Bcd(now.sec)
    PROVE  Binary(tm) = now
<1>1. now \in Times /\ tm \in Digits /\ at = 7 /\ ticks \in 0 .. SecPerMin - 1
    BY DEF RtcInv, ClockTypes
<1>2. PICK n \in 0 .. ticks, s \in 0 .. SecPerMin - 1 :
          /\ tm.sec = Bcd(s) /\ now.sec = (s + n) % SecPerMin
          /\ n = 0 => \A i \in 1 .. at - 1 : tm[Registers[i]] = Bcd(now[Registers[i]])
    BY <1>1 DEF RtcInv, ReadInv
<1>3. SecPerMin \in Nat \ {0} /\ SecPerMin <= 100 /\ n \in 0 .. SecPerMin - 1
    BY <1>1, Units
<1>4. now.sec \in 0 .. SecPerMin - 1
    BY <1>1, TimesAreDaytimes DEF Daytime
<1>5. s = now.sec
    <2>1. s \in 0 .. 99 /\ now.sec \in 0 .. 99
        BY <1>2, <1>3, <1>4
    <2>2. Bcd(s) = Bcd(now.sec)
        BY <1>2
    <2>3. QED
        BY <2>1, <2>2, BcdInjective
<1>6. n = 0
    <2>1. (s + n) % SecPerMin = s <=> n = 0
        BY <1>2, <1>3, NoShift
    <2>2. QED
        BY <1>2, <1>5, <2>1
<1>7. \A i \in 1 .. 6 : tm[Registers[i]] = Bcd(now[Registers[i]])
    BY <1>1, <1>2, <1>6
<1>8. DOMAIN now = {"sec", "min", "hour", "mday", "mon", "year"} /\ DOMAIN tm = DOMAIN now
    BY <1>1, TimesInDigits DEF Digits
<1>9. ASSUME NEW r \in DOMAIN now PROVE bcd_to_bin(tm[r]) = now[r]
    <2>1. now[r] \in 0 .. 99
        BY <1>1, TimesInDigits
    <2>2. PICK i \in 1 .. 6 : r = Registers[i]
        BY <1>8, RegistersDiffer
    <2>3. tm[r] = Bcd(now[r])
        BY <1>7, <2>2
    <2>4. QED
        BY <2>1, <2>3, BcdOfBinary
<1>10. now = [r \in DOMAIN now |-> now[r]]
    BY <1>1 DEF Times
<1>11. QED
    BY <1>8, <1>9, <1>10 DEF Binary

LEMMA CompareSecondsStep ==
    ASSUME RtcInv, CompareSeconds
    PROVE  RtcInv'
<1> USE DEF clock, controllers, thread, ghosts
<1>1. /\ ClockTypes /\ PicInv /\ ThreadInv /\ ReadInv /\ StartedInv
      /\ WriteInv /\ AlarmInv
    BY DEF RtcInv
<1>2. /\ pc = "read" /\ (caller = "time_init" \/ ~updating) /\ at = 7
      /\ index' = "none" /\ AF' = (AF /\ ~(Diverted /\ TRUE))
      /\ pending' = Requests(AF', AIE)
      /\ UNCHANGED <<now, updating, alarm, AIE, handler_table, masked, service, caller,
                     secs, due, beeper>>
    BY <1>1, RegistersDiffer DEF CompareSeconds, AccessData, Reading, ClockTypes
<1>3. PICK value \in Seen("sec") : IF tm.sec = value THEN Accept ELSE Repeat
    BY DEF CompareSeconds, Compared
<1>4. /\ BeeperTypeOK' /\ 1 \in 1 .. 7 /\ 0 \in 0 .. SecPerMin - 1
      /\ AF' \in BOOLEAN /\ AIE \in BOOLEAN /\ index' \in {"none", "own", "C"}
    BY <1>1, <1>2, BeeperTypes, Units DEF ClockTypes
<1>5. PicInv'
    <2>1. pending' = IF AF' /\ AIE THEN {IRQ_RTC} ELSE {}
        BY <1>1, <1>2, <1>4, RequestsOfLine
    <2>2. QED
        BY <1>1, <1>2, <2>1 DEF PicInv
<1>6. due = Idle
    BY <1>1, <1>2 DEF ThreadInv
<1>7. AlarmInv'
    BY <1>2, <1>6 DEF AlarmInv
<1>8. CASE tm.sec # value
    <2>1. Repeat
        BY <1>3, <1>8
    <2>2. /\ at' = 1 /\ clean' = TRUE /\ torn' = FALSE
          /\ UNCHANGED <<pc, tm, startup_time, ticks, taken>>
        BY <2>1 DEF Repeat
    <2>3. ClockTypes'
        BY <1>1, <1>2, <1>4, <2>2 DEF ClockTypes
    <2>4. ThreadInv' /\ StartedInv' /\ WriteInv' /\ ReadInv'
        BY <1>1, <1>2, <2>2 DEF ThreadInv, StartedInv, WriteInv, ReadInv
    <2>5. QED
        BY <1>5, <1>7, <2>3, <2>4 DEF RtcInv
<1>9. CASE tm.sec = value
    <2>1. Accept
        BY <1>3, <1>9
    <2>2. /\ at' = 1 /\ ticks' = 0 /\ clean' = (clean /\ ~updating)
          /\ torn' = (torn \/ Diverted)
          /\ taken' = IF torn' THEN NoTime ELSE now
        BY <2>1 DEF Accept
    <2>3. clean /\ ~updating /\ ~torn' => Binary(tm) = now
        <3>1. clean /\ ~updating /\ ~torn' => value = Bcd(now.sec)
            BY <1>3, <2>2, SeenInDigits
        <3>2. ~torn' => ~torn
            BY <2>2, Zenon
        <3>3. at > 6
            BY <1>2
        <3>4. QED
            BY <1>2, <1>9, <3>1, <3>2, <3>3, ReadingIsNow, Zenon
    <2>4. now \in Times /\ tm \in Digits
        BY <1>1 DEF ClockTypes
    <2>5. ASSUME tm' \in Digits PROVE ClockTypes'
        <3>1. clean' \in BOOLEAN /\ torn' \in BOOLEAN
            BY <1>1, <2>2 DEF ClockTypes, Diverted
        <3>2. taken' \in Times
            BY <2>2, <2>4, NoTimeIsTime
        <3>3. QED
            BY <1>1, <1>2, <1>4, <2>2, <2>4, <2>5, <3>1, <3>2 DEF ClockTypes
    <2>6. CASE /\ caller = "time_init" /\ pc' = "started"
               /\ tm' = Binary(tm) /\ startup_time' = mktime(Binary(tm))
        <3>1. tm' \in Digits
            <4>1. tm' = [sec |-> bcd_to_bin(tm.sec), min |-> bcd_to_bin(tm.min),
                         hour |-> bcd_to_bin(tm.hour), mday |-> bcd_to_bin(tm.mday),
                         mon |-> bcd_to_bin(tm.mon), year |-> bcd_to_bin(tm.year)]
                BY <2>4, <2>6 DEF Binary, Digits
            <4>2. \A v \in 0 .. 255 : bcd_to_bin(v) \in 0 .. 255
                BY DEF bcd_to_bin
            <4>3. QED
                BY <2>4, <4>1, <4>2, ZenonT(40) DEF Digits
        <3>2. ThreadInv'
            <4>1. ticks \in Nat /\ SecPerMin \in Int
                BY <1>1, Units DEF ClockTypes
            <4>2. updating' => ticks' < SecPerMin - 1
                BY <1>1, <1>2, <2>2, <4>1 DEF ThreadInv
            <4>3. /\ ~AIE' /\ caller' = "time_init" /\ due' = Idle /\ ticks' = 0
                  /\ index' = "none" /\ ~torn'
                BY <1>1, <1>2, <1>6, <2>2, <2>6 DEF ThreadInv, Diverted
            <4>4. QED
                BY <2>6, <4>2, <4>3 DEF ThreadInv
        <3>3. StartedInv'
            <4>1. ~torn'
                BY <1>1, <2>2, <2>6 DEF ThreadInv, Diverted
            <4>2. QED
                BY <2>2, <2>3, <2>6, <4>1 DEF StartedInv
        <3>4. WriteInv' /\ ReadInv'
            BY <2>6 DEF WriteInv, ReadInv
        <3>5. QED
            BY <1>5, <1>7, <2>5, <3>1, <3>2, <3>3, <3>4 DEF RtcInv
    <2> DEFINE set == AlarmTime(Binary(tm), secs)
    <2>7. CASE /\ caller = "set_alarm" /\ pc' = "write"
               /\ tm' = [NoTime EXCEPT !.sec = set.sec, !.min = set.min, !.hour = set.hour]
               /\ UNCHANGED startup_time
        <3>1. ~torn' => Binary(tm) = now
            BY <1>1, <1>2, <2>3, <2>7 DEF ThreadInv
        <3>2. secs \in Nat /\ Daytime(now) /\ {"sec", "min", "hour"} \subseteq DOMAIN now
            BY <1>1, <2>4, TimesAreDaytimes, TimesInDigits DEF ClockTypes
        <3>3. Daytime(set)
            <4>1. /\ Binary(tm).sec = bcd_to_bin(tm.sec)
                  /\ Binary(tm).min = bcd_to_bin(tm.min)
                  /\ Binary(tm).hour = bcd_to_bin(tm.hour)
                  /\ {"sec", "min", "hour"} \subseteq DOMAIN Binary(tm)
                BY <2>4 DEF Binary, Digits
            <4>2. /\ tm.sec \in 0 .. 255 /\ tm.min \in 0 .. 255 /\ tm.hour \in 0 .. 255
                BY <2>4 DEF Digits
            <4>3. \A v \in 0 .. 255 : bcd_to_bin(v) \in Nat
                BY DEF bcd_to_bin
            <4>4. /\ Binary(tm).sec \in Nat /\ Binary(tm).min \in Nat
                  /\ Binary(tm).hour \in Nat
                BY <4>1, <4>2, <4>3
            <4>5. QED
                BY <3>2, <4>1, <4>4, AlarmTimeIsDaytime
        <3>4. ~torn' => TimeOfDay(set) = (TimeOfDay(now) + secs) % DAY
            BY <3>1, <3>2, AlarmTimeAdds
        <3> DEFINE x == set.sec
                   y == set.min
                   z == set.hour
        <3>5. /\ tm' = [sec |-> x, min |-> y, hour |-> z, mday |-> 1, mon |-> 1, year |-> 0]
              /\ tm'.sec = x /\ tm'.min = y /\ tm'.hour = z
            <4> HIDE DEF x, y, z, set
            <4>1. tm' = [NoTime EXCEPT !.sec = x, !.min = y, !.hour = z]
                BY <2>7 DEF x, y, z
            <4>2. QED
                BY <4>1 DEF NoTime, Midnight
        <3>6. tm' \in Digits
            <4>1. x \in 0 .. 255 /\ y \in 0 .. 255 /\ z \in 0 .. 255
                BY <3>3, Units DEF Daytime
            <4> HIDE DEF x, y, z, set
            <4>2. QED
                BY <3>5, <4>1 DEF Digits
        <3>7. Daytime(tm') /\ TimeOfDay(tm') = TimeOfDay(set)
            BY <3>3, <3>5 DEF Daytime, TimeOfDay
        <3> HIDE DEF x, y, z, set
        <3>8. ThreadInv'
            <4>1. clean /\ ~updating
                BY <1>1, <1>2, <2>7 DEF ThreadInv
            <4>2. clean' /\ ~updating' /\ due' = Idle /\ ticks' = 0 /\ caller' = "set_alarm"
                BY <1>2, <1>6, <2>2, <2>7, <4>1
            <4>3. QED
                BY <2>7, <4>2 DEF ThreadInv
        <3>9. StartedInv' /\ ReadInv'
            BY <2>7 DEF StartedInv, ReadInv
        <3>10. WriteInv'
            <4>1. ~torn' => TimeOfDay(tm') = (TimeOfDay(taken') + secs') % DAY
                BY <1>2, <2>2, <3>4, <3>7
            <4>2. at' <= 4 /\ 1 .. at' - 1 = {} /\ pc' = "write"
                BY <2>2, <2>7
            <4>3. QED
                BY <3>7, <4>1, <4>2 DEF WriteInv
        <3>11. QED
            BY <1>5, <1>7, <2>5, <3>6, <3>8, <3>9, <3>10 DEF RtcInv
    <2>8. QED
        BY <2>1, <2>6, <2>7 DEF Accept
<1>10. QED
    BY <1>8, <1>9

LEMMA WriteAlarmStep ==
    ASSUME RtcInv, WriteAlarm
    PROVE  RtcInv'
<1> USE DEF clock, controllers, thread, ghosts
<1> DEFINE R == AlarmRegisters[at]
<1>1. /\ ClockTypes /\ PicInv /\ ThreadInv /\ ReadInv /\ StartedInv
      /\ WriteInv /\ AlarmInv
    BY DEF RtcInv
<1>2. /\ AlarmRegisters[1] = "hour" /\ AlarmRegisters[2] = "min"
      /\ AlarmRegisters[3] = "sec" /\ Len(AlarmRegisters) = 3
    BY DEF AlarmRegisters
<1>3. /\ pc = "write" /\ at \in 1 .. 3 /\ at' = at + 1
      /\ alarm' = (IF Diverted THEN alarm ELSE [alarm EXCEPT ![R] = bin_to_bcd(tm[R])])
      /\ torn' = (torn \/ Diverted)
      /\ index' = "none" /\ AF' = AF
      /\ UNCHANGED <<now, updating, AIE, controllers, pc, caller, tm, secs,
                     startup_time, clean, ticks, taken, due, beeper>>
    BY <1>1, <1>2 DEF WriteAlarm, AccessData, ClockTypes
<1>4. at = 1 \/ at = 2 \/ at = 3
    BY <1>3
<1>5. R \in AlarmFields /\ bin_to_bcd(tm[R]) = Bcd(tm[R]) /\ Bcd(tm[R]) \in 0 .. 255
    <2>1. R \in AlarmFields
        BY <1>2, <1>4 DEF AlarmFields
    <2>2. /\ tm.hour \in 0 .. 99 /\ tm.min \in 0 .. 99 /\ tm.sec \in 0 .. 99
        BY <1>1, <1>3, Units DEF WriteInv, Daytime
    <2>3. tm[R] \in 0 .. 99
        BY <2>1, <2>2 DEF AlarmFields
    <2> HIDE DEF R
    <2>4. QED
        BY <2>1, <2>3, BcdOfBinary
<1>6. /\ alarm \in [AlarmFields -> 0 .. 255]
      /\ alarm' \in [AlarmFields -> 0 .. 255]
      /\ ~Diverted => alarm'[R] = Bcd(tm[R])
      /\ \A f \in AlarmFields : f # R => alarm'[f] = alarm[f]
    <2>1. alarm \in [AlarmFields -> 0 .. 255]
        BY <1>1 DEF ClockTypes
    <2> HIDE DEF R
    <2>2. QED
        BY <1>3, <1>5, <2>1
<1>7. ClockTypes'
    <2>1. BeeperTypeOK'
        BY <1>1, <1>3, BeeperTypes DEF ClockTypes
    <2>2. /\ at' \in 1 .. 7 /\ index' \in {"none", "own", "C"}
          /\ torn' \in BOOLEAN /\ AF' \in BOOLEAN
        BY <1>1, <1>3 DEF ClockTypes, Diverted
    <2> HIDE DEF R
    <2>3. QED
        BY <1>1, <1>3, <1>6, <2>1, <2>2, SMTT(30) DEF ClockTypes
<1>8. PicInv' /\ ThreadInv' /\ StartedInv' /\ ReadInv' /\ AlarmInv'
    BY <1>1, <1>3 DEF PicInv, ThreadInv, StartedInv, ReadInv, AlarmInv, Diverted
<1>9. WriteInv'
    <2>1. /\ Daytime(tm)
          /\ ~torn => TimeOfDay(tm) = (TimeOfDay(taken) + secs) % DAY
          /\ ~torn => \A i \in 1 .. at - 1 :
                        alarm[AlarmRegisters[i]] = Bcd(tm[AlarmRegisters[i]])
        BY <1>1, <1>3 DEF WriteInv
    <2>2. ~torn' => ~torn /\ ~Diverted
        BY <1>3, Zenon
    <2>3. ASSUME ~torn', NEW i \in 1 .. at
          PROVE  alarm'[AlarmRegisters[i]] = Bcd(tm[AlarmRegisters[i]])
        <3>1. CASE i = at
            BY <1>6, <2>2, <2>3, <3>1
        <3>2. CASE i # at
            <4>1. i \in 1 .. at - 1 /\ (i = 1 \/ i = 2) /\ AlarmRegisters[i] # R
                    /\ AlarmRegisters[i] \in AlarmFields
                BY <1>2, <1>4, <3>2 DEF AlarmFields
            <4>2. QED
                BY <1>6, <2>1, <2>2, <2>3, <4>1
        <3>3. QED
            BY <3>1, <3>2
    <2>4. at' <= 4 /\ at' - 1 = at
        BY <1>3
    <2>5. QED
        BY <1>3, <2>1, <2>2, <2>3, <2>4 DEF WriteInv
<1>10. QED
    BY <1>7, <1>8, <1>9 DEF RtcInv

LEMMA AllowAlarmStep ==
    ASSUME RtcInv, AllowAlarm
    PROVE  RtcInv'
<1> USE DEF clock, controllers, thread, ghosts
<1>1. /\ ClockTypes /\ PicInv /\ ThreadInv /\ ReadInv /\ StartedInv
      /\ WriteInv /\ AlarmInv
    BY DEF RtcInv
<1>2. /\ AlarmRegisters[1] = "hour" /\ AlarmRegisters[2] = "min"
      /\ AlarmRegisters[3] = "sec" /\ Len(AlarmRegisters) = 3
    BY DEF AlarmRegisters
<1>3. /\ pc = "write" /\ at > 3 /\ AIE' = (AIE \/ ~Diverted)
      /\ pending' = Requests(AF, AIE') /\ AF' = AF /\ index' = "none"
      /\ pc' = "clear" /\ torn' = (torn \/ Diverted)
      /\ UNCHANGED <<now, updating, alarm, handler_table, masked, service, caller,
                     at, tm, secs, startup_time, clean, ticks, taken, due, beeper>>
    BY <1>1, <1>2 DEF AllowAlarm, AccessData, ClockTypes
<1>4. ClockTypes'
    <2>1. BeeperTypeOK'
        BY <1>1, <1>3, BeeperTypes DEF ClockTypes
    <2>2. /\ AIE' \in BOOLEAN /\ AF' \in BOOLEAN /\ torn' \in BOOLEAN
          /\ index' \in {"none", "own", "C"}
        BY <1>1, <1>3 DEF ClockTypes, Diverted
    <2>3. QED
        BY <1>1, <1>3, <2>1, <2>2 DEF ClockTypes
<1>5. PicInv'
    <2>1. AIE' \in BOOLEAN /\ AF \in BOOLEAN
        BY <1>1, <1>3 DEF ClockTypes
    <2>2. pending' = IF AF /\ AIE' THEN {IRQ_RTC} ELSE {}
        BY <1>1, <1>3, <2>1, RequestsOfLine
    <2>3. QED
        BY <1>1, <1>3, <2>2 DEF PicInv
<1>6. due = Idle
    BY <1>1, <1>3 DEF ThreadInv
<1>7. ThreadInv' /\ StartedInv' /\ ReadInv' /\ AlarmInv'
    BY <1>1, <1>3, <1>6 DEF ThreadInv, StartedInv, ReadInv, AlarmInv, Diverted
<1>8. WriteInv'
    <2>1. /\ Daytime(tm)
          /\ ~torn => TimeOfDay(tm) = (TimeOfDay(taken) + secs) % DAY
          /\ at = 4
          /\ ~torn => \A i \in 1 .. at - 1 :
                        alarm[AlarmRegisters[i]] = Bcd(tm[AlarmRegisters[i]])
        BY <1>1, <1>3 DEF WriteInv, ClockTypes
    <2>2. ~torn => \A i \in 1 .. 3 : alarm[AlarmRegisters[i]] = Bcd(tm[AlarmRegisters[i]])
        BY <2>1
    <2>3. ~torn => \A f \in AlarmFields : alarm[f] = Bcd(tm[f])
        BY <1>2, <2>2 DEF AlarmFields
    <2>4. ~torn' => ~torn /\ AIE'
        BY <1>3
    <2>5. QED
        BY <1>3, <2>1, <2>3, <2>4 DEF WriteInv
<1>9. QED
    BY <1>4, <1>5, <1>7, <1>8 DEF RtcInv

LEMMA ClearFlagStep ==
    ASSUME RtcInv, ClearFlag
    PROVE  RtcInv'
<1> USE DEF clock, controllers, thread, ghosts
<1> DEFINE x == TimeOfDay(taken) + secs - TimeOfDay(now)
           wait == x % DAY
<1>1. /\ ClockTypes /\ PicInv /\ ThreadInv /\ ReadInv /\ StartedInv
      /\ WriteInv /\ AlarmInv
    BY DEF RtcInv
<1>2. /\ pc = "clear" /\ AF' = FALSE /\ pending' = Requests(FALSE, AIE)
      /\ due' = (IF torn THEN Idle ELSE IF wait = 0 THEN DAY ELSE wait)
      /\ torn' = FALSE /\ index' = "none"
      /\ pc' = "up" /\ at' = 1 /\ tm' = NoTime /\ secs' = 0 /\ taken' = NoTime
      /\ UNCHANGED <<now, updating, alarm, AIE, handler_table, masked, service, caller,
                     startup_time, clean, ticks, beeper>>
    BY DEF ClearFlag
<1> HIDE DEF wait
<1>3. NoTime \in Times /\ NoTime \in Digits
    BY NoTimeIsTime
<1>4. ClockTypes'
    <2>1. BeeperTypeOK'
        BY <1>1, <1>2, BeeperTypes DEF ClockTypes
    <2>2. /\ at' \in 1 .. 7 /\ secs' \in Nat /\ AF' \in BOOLEAN
          /\ tm' \in Digits /\ taken' \in Times
        <3>1. at' = 1 /\ secs' = 0 /\ AF' = FALSE /\ tm' = NoTime /\ taken' = NoTime
            BY <1>2, Zenon
        <3>2. at' \in 1 .. 7 /\ secs' \in Nat
            BY <3>1
        <3>3. AF' \in BOOLEAN /\ tm' \in Digits /\ taken' \in Times
            BY <1>3, <3>1, Zenon
        <3>4. QED
            BY <3>2, <3>3
    <2>3. /\ UNCHANGED <<now, updating, alarm, AIE, handler_table, clean, ticks>>
        BY <1>2
    <2>4. QED
        BY <1>1, <1>2, <2>1, <2>2, <2>3 DEF ClockTypes
<1>5. PicInv'
    <2>1. pending' = IF FALSE /\ AIE THEN {IRQ_RTC} ELSE {}
        BY <1>1, <1>2, RequestsOfLine DEF ClockTypes
    <2>2. QED
        BY <1>1, <1>2, <2>1 DEF PicInv
<1>6. ThreadInv' /\ StartedInv' /\ ReadInv' /\ WriteInv'
    BY <1>1, <1>2 DEF ThreadInv, StartedInv, ReadInv, WriteInv
<1>7. AlarmInv'
    <2> SUFFICES ASSUME ~torn PROVE AlarmInv'
        BY <1>2 DEF AlarmInv
    <2> DEFINE target == [f \in AlarmFields |-> tm[f]]
    <2>1. /\ Daytime(tm) /\ TimeOfDay(tm) = (TimeOfDay(taken) + secs) % DAY
          /\ AIE /\ \A f \in AlarmFields : alarm[f] = Bcd(tm[f])
        BY <1>1, <1>2 DEF WriteInv
    <2>2. /\ target \in Alarms /\ TimeOfDay(target) = TimeOfDay(tm)
          /\ \A f \in AlarmFields : alarm[f] = Bcd(target[f])
        <3>1. target = [hour |-> tm.hour, min |-> tm.min, sec |-> tm.sec]
            BY DEF AlarmFields
        <3>2. \A f \in AlarmFields : target[f] = tm[f]
            OBVIOUS
        <3> HIDE DEF target
        <3>3. target \in Alarms
            BY <2>1, <3>1 DEF Daytime, Alarms
        <3>4. TimeOfDay(target) = TimeOfDay(tm)
            BY <3>1 DEF TimeOfDay
        <3>5. QED
            BY <2>1, <3>2, <3>3, <3>4
    <2> HIDE DEF target
    <2>3. /\ DAY \in Nat \ {0} /\ TimeOfDay(now) \in 0 .. DAY - 1
          /\ TimeOfDay(taken) \in 0 .. DAY - 1 /\ secs \in Nat
        <3>1. Daytime(now) /\ Daytime(taken) /\ secs \in Nat
            BY <1>1, TimesAreDaytimes DEF ClockTypes
        <3>2. QED
            BY <3>1, TimeOfDaySeconds, Units
    <2>4. wait \in 0 .. DAY - 1 /\ (TimeOfDay(now) + wait) % DAY = TimeOfDay(tm)
        <3>1. x \in Int /\ TimeOfDay(now) \in Int
                /\ x + TimeOfDay(now) = TimeOfDay(taken) + secs
            BY <2>3
        <3> HIDE DEF x
        <3>2. wait \in 0 .. DAY - 1
            BY <2>3, <3>1, Division DEF wait
        <3>3. ((x % DAY) + TimeOfDay(now)) % DAY = (x + TimeOfDay(now)) % DAY
            BY <2>3, <3>1, RemainderAdds
        <3>4. wait + TimeOfDay(now) = TimeOfDay(now) + wait
            BY <3>1, <3>2
        <3>5. QED
            BY <2>1, <3>1, <3>2, <3>3, <3>4 DEF wait
    <2>5. /\ due' \in 1 .. DAY
          /\ (TimeOfDay(now) + due') % DAY = TimeOfDay(target)
        <3>1. CASE wait = 0
            <4>1. due' = DAY /\ (TimeOfDay(now) + 0) % DAY = TimeOfDay(tm)
                BY <1>2, <2>4, <3>1
            <4>2. (TimeOfDay(now) + DAY) % DAY = (TimeOfDay(now) + 0) % DAY
                BY <2>3, DayLater
            <4>3. QED
                BY <2>2, <2>3, <4>1, <4>2
        <3>2. CASE wait # 0
            BY <1>2, <2>2, <2>3, <2>4, <3>2
        <3>3. QED
            BY <3>1, <3>2
    <2>6. due' \in 0 .. DAY /\ due' # 0 /\ AF' = FALSE /\ AIE' /\ pc' = "up"
        BY <1>2, <2>1, <2>3, <2>5
    <2>7. \A f \in AlarmFields : alarm'[f] = Bcd(target[f])
        BY <1>2, <2>2
    <2>8. now' = now
        BY <1>2
    <2>9. QED
        BY <2>2, <2>5, <2>6, <2>7, <2>8 DEF AlarmInv
<1>8. QED
    BY <1>4, <1>5, <1>6, <1>7 DEF RtcInv

LEMMA ThreadSteps ==
    ASSUME RtcInv, (\E delay \in Delays : set_alarm(delay)) \/ clock_init \/ rtc_init
    PROVE  RtcInv'
<1> USE DEF clock, controllers, thread, ghosts
<1>1. /\ ClockTypes /\ PicInv /\ ThreadInv /\ ReadInv /\ StartedInv
      /\ WriteInv /\ AlarmInv
    BY DEF RtcInv
<1>2. ASSUME NEW delay \in Delays, set_alarm(delay) PROVE RtcInv'
    <2>1. /\ pc = "up" /\ pc' = "read" /\ secs' = delay /\ at' = 1 /\ due' = Idle
          /\ UNCHANGED <<clock, controllers, caller, index, tm, startup_time, clean,
                         ticks, taken, torn, beeper>>
        BY <1>2 DEF set_alarm
    <2>2. ClockTypes'
        <3>1. BeeperTypeOK' /\ secs' \in Nat /\ at' \in 1 .. 7
            BY <1>1, <2>1, BeeperTypes, RtcAssumption DEF ClockTypes
        <3>2. QED
            BY <1>1, <2>1, <3>1 DEF ClockTypes
    <2>3. PicInv' /\ ThreadInv' /\ ReadInv' /\ StartedInv' /\ WriteInv' /\ AlarmInv'
        BY <1>1, <2>1 DEF PicInv, ThreadInv, ReadInv, StartedInv, WriteInv, AlarmInv
    <2>4. QED
        BY <2>2, <2>3 DEF RtcInv
<1>3. ASSUME clock_init PROVE RtcInv'
    <2>1. /\ pc = "boot" /\ pc' = "read"
          /\ handler_table' = [handler_table EXCEPT ![IRQ_CLOCK] = "clock_handler"]
          /\ masked' = masked \ {IRQ_CLOCK}
          /\ UNCHANGED <<clock, pending, service, caller, at, index, tm, secs, startup_time,
                         ghosts, beeper>>
        BY <1>3 DEF clock_init, set_interrupt_handler, set_interrupt_mask
    <2>2. caller = "time_init" /\ at = 1
        BY <1>1, <2>1 DEF ThreadInv
    <2>3. ClockTypes'
        <3>1. BeeperTypeOK'
            BY <1>1, <2>1, BeeperTypes DEF ClockTypes
        <3>2. handler_table' \in [Irqs -> {"default_handler", "clock_handler", "rtc_handler"}]
            BY <1>1, <2>1 DEF ClockTypes
        <3>3. QED
            BY <1>1, <2>1, <3>1, <3>2 DEF ClockTypes
    <2>4. PicInv'
        BY <1>1, <2>1, <2>2 DEF PicInv
    <2>5. ThreadInv' /\ ReadInv' /\ StartedInv' /\ WriteInv' /\ AlarmInv'
        BY <1>1, <2>1, <2>2 DEF ThreadInv, ReadInv, StartedInv, WriteInv, AlarmInv
    <2>6. QED
        BY <2>3, <2>4, <2>5 DEF RtcInv
<1>4. ASSUME rtc_init PROVE RtcInv'
    <2>1. /\ pc = "started" /\ clean /\ pc' = "up" /\ caller' = "set_alarm"
          /\ handler_table' = [handler_table EXCEPT ![IRQ_RTC] = "rtc_handler"]
          /\ masked' = (masked \ {IRQ_RTC}) \ {IRQ_CASCADE}
          /\ tm' = NoTime /\ taken' = NoTime
          /\ UNCHANGED <<clock, pending, service, at, index, secs, startup_time, clean,
                         ticks, torn, due, beeper>>
        BY <1>4 DEF rtc_init, set_interrupt_handler, set_interrupt_mask
    <2>2. ClockTypes'
        <3>1. BeeperTypeOK'
            BY <1>1, <2>1, BeeperTypes DEF ClockTypes
        <3>2. handler_table' \in [Irqs -> {"default_handler", "clock_handler", "rtc_handler"}]
            BY <1>1, <2>1 DEF ClockTypes
        <3>3. NoTime \in Times /\ NoTime \in Digits
            BY NoTimeIsTime
        <3>4. QED
            BY <1>1, <2>1, <3>1, <3>2, <3>3 DEF ClockTypes
    <2>3. PicInv'
        <3>1. handler_table'[IRQ_RTC] = "rtc_handler"
            BY <1>1, <2>1 DEF ClockTypes, Irqs, IRQ_RTC
        <3>2. IRQ_RTC \notin masked' /\ IRQ_CASCADE \notin masked'
            BY <2>1
        <3>3. QED
            BY <1>1, <2>1, <3>1, <3>2 DEF PicInv
    <2>4. due = Idle
        BY <1>1, <2>1 DEF ThreadInv
    <2>5. ThreadInv' /\ ReadInv' /\ StartedInv' /\ WriteInv' /\ AlarmInv'
        BY <1>1, <2>1, <2>4 DEF ThreadInv, ReadInv, StartedInv, WriteInv, AlarmInv
    <2>6. QED
        BY <2>2, <2>3, <2>5 DEF RtcInv
<1>5. QED
    BY <1>2, <1>3, <1>4

LEMMA InterruptSteps ==
    ASSUME RtcInv, clock_handler \/ rtc_handler
    PROVE  RtcInv'
<1> USE DEF clock, controllers, thread, ghosts
<1>1. /\ ClockTypes /\ PicInv /\ ThreadInv /\ ReadInv /\ StartedInv
      /\ WriteInv /\ AlarmInv
    BY DEF RtcInv
<1>2. CASE clock_handler
    <2>1. service' = [master |-> {}, slave |-> {}]
        BY <1>1, <1>2, EoiEnds DEF clock_handler, interrupt_entry
    <2>2. Tick /\ UNCHANGED <<clock, handler_table, masked, pending, thread, ghosts>>
        BY <1>2 DEF clock_handler
    <2>3. BeeperTypeOK'
        BY <1>1, <2>2, BeeperTypes DEF ClockTypes
    <2>4. ClockTypes'
        BY <1>1, <2>2, <2>3 DEF ClockTypes
    <2>5. PicInv'
        BY <1>1, <2>1, <2>2 DEF PicInv
    <2>6. ThreadInv' /\ ReadInv' /\ StartedInv' /\ WriteInv' /\ AlarmInv'
        BY <1>1, <2>2 DEF ThreadInv, ReadInv, StartedInv, WriteInv, AlarmInv
    <2>7. QED
        BY <2>4, <2>5, <2>6 DEF RtcInv
<1>3. CASE rtc_handler
    <2>1. /\ service' = [master |-> {}, slave |-> {}]
          /\ caller = "set_alarm" /\ AF /\ AIE
        BY <1>1, <1>3, EoiEnds, DeliverableAlarm DEF rtc_handler, interrupt_entry
    <2>2. /\ AF' = FALSE /\ pending' = pending \ {IRQ_RTC} /\ StartBeep
          /\ due' = (IF due = Idle THEN Idle ELSE DAY)
          /\ index' = (IF index = "none" THEN "none" ELSE "C")
          /\ UNCHANGED <<now, updating, alarm, AIE, handler_table, masked, pc, caller, at,
                         tm, secs, startup_time, clean, ticks, taken, torn>>
        BY <1>3 DEF rtc_handler
    <2>3. BeeperTypeOK'
        BY <1>1, <2>2, BeeperTypes DEF ClockTypes
    <2>4. ClockTypes'
        <3>1. index' \in {"none", "own", "C"} /\ AF' \in BOOLEAN
            BY <2>2
        <3>2. QED
            BY <1>1, <2>2, <2>3, <3>1 DEF ClockTypes
    <2>5. PicInv'
        <3>1. pending' = {}
            BY <1>1, <2>1, <2>2 DEF PicInv
        <3>2. QED
            BY <1>1, <2>1, <2>2, <3>1 DEF PicInv
    <2>6. ThreadInv' /\ ReadInv' /\ StartedInv' /\ WriteInv'
        BY <1>1, <2>1, <2>2 DEF ThreadInv, ReadInv, StartedInv, WriteInv
    <2>7. AlarmInv'
        <3> SUFFICES ASSUME due # Idle PROVE AlarmInv'
            BY <2>2 DEF AlarmInv
        <3>1. pc = "up" /\ due = 0
            BY <1>1, <2>1 DEF AlarmInv
        <3>2. PICK target \in Alarms :
                  /\ TimeOfDay(target) = (TimeOfDay(now) + due) % DAY
                  /\ \A f \in AlarmFields : alarm[f] = Bcd(target[f])
            BY <1>1 DEF AlarmInv
        <3>3. DAY \in Nat \ {0} /\ TimeOfDay(now) \in 0 .. DAY - 1
            BY <1>1, TimesAreDaytimes, TimeOfDaySeconds, Units DEF ClockTypes
        <3>4. TimeOfDay(target) = (TimeOfDay(now) + DAY) % DAY
            <4>1. (TimeOfDay(now) + DAY) % DAY = (TimeOfDay(now) + 0) % DAY
                BY <3>3, DayLater
            <4>2. QED
                BY <3>1, <3>2, <4>1
        <3>5. due' = DAY /\ DAY \in 0 .. DAY /\ DAY # 0
            BY <2>2, <3>3
        <3>6. TimeOfDay(target) = (TimeOfDay(now') + due') % DAY
            BY <2>2, <3>4, <3>5
        <3>7. \A f \in AlarmFields : alarm'[f] = Bcd(target[f])
            BY <2>2, <3>2
        <3>8. pc' = "up" /\ AIE' /\ AF' = FALSE
            BY <2>1, <2>2, <3>1
        <3>9. QED
            BY <3>2, <3>5, <3>6, <3>7, <3>8 DEF AlarmInv
    <2>8. QED
        BY <2>4, <2>5, <2>6, <2>7 DEF RtcInv
<1>4. QED
    BY <1>2, <1>3

LEMMA RtcStep == RtcInv /\ [Next]_vars => RtcInv'
<1> SUFFICES ASSUME RtcInv, [Next]_vars PROVE RtcInv'
    OBVIOUS
<1>1. CASE Stop \/ UNCHANGED vars
    <2>1. UNCHANGED vars
        BY <1>1 DEF Stop
    <2> USE <2>1 DEF vars, clock, controllers, thread, ghosts
    <2>2. BeeperTypeOK'
        BY BeeperTypes DEF RtcInv, ClockTypes
    <2>3. ClockTypes'
        BY <2>2 DEF RtcInv, ClockTypes
    <2>4. PicInv' /\ ThreadInv' /\ StartedInv' /\ WriteInv' /\ AlarmInv'
        BY DEF RtcInv, PicInv, ThreadInv, StartedInv, WriteInv, AlarmInv
    <2>5. ReadInv'
        BY DEF RtcInv, ReadInv
    <2>6. QED
        BY <2>3, <2>4, <2>5 DEF RtcInv
<1>2. CASE \/ BeginUpdate \/ EndUpdate
           \/ SelectRegister \/ ReadRegister \/ CompareSeconds
    BY <1>2, BeginUpdateStep, EndUpdateStep, SelectRegisterStep, ReadRegisterStep,
       CompareSecondsStep
<1>3. CASE WriteAlarm \/ AllowAlarm \/ ClearFlag
    BY <1>3, WriteAlarmStep, AllowAlarmStep, ClearFlagStep
<1>4. CASE (\E delay \in Delays : set_alarm(delay)) \/ clock_init \/ rtc_init
    BY <1>4, ThreadSteps
<1>5. CASE clock_handler \/ rtc_handler
    BY <1>5, InterruptSteps
<1>6. QED
    BY <1>1, <1>2, <1>3, <1>4, <1>5 DEF Next

(***************************************************************************)
(* The theorems                                                            *)
(***************************************************************************)

\* The invariant on which the others rest.
THEOREM RtcInvariance == Spec => []RtcInv
<1>1. Init => RtcInv
    BY RtcInit
<1>2. RtcInv /\ [Next]_vars => RtcInv'
    BY RtcStep
<1>3. QED
    BY <1>1, <1>2, PTL DEF Spec

\* The clock shows a time of day, registers and locals hold bytes, the time of
\* an alarm is one of the day, and no interrupt but the clock's is requested.
THEOREM ClockTypesCorrect == Spec => []TypeOK
<1>1. RtcInv => TypeOK
    <2> SUFFICES ASSUME RtcInv PROVE TypeOK
        OBVIOUS
    <2>1. ClockTypes /\ PicInv /\ WriteInv /\ AlarmInv
        BY DEF RtcInv
    <2>2. Daytime(now)
        BY <2>1, TimesAreDaytimes DEF ClockTypes
    <2>3. \A r \in DOMAIN tm : tm[r] \in 0 .. 255
        BY <2>1 DEF ClockTypes, Digits
    <2>4. pc = "write" => TimeOfDay(tm) \in 0 .. DAY - 1
        BY <2>1, TimeOfDaySeconds DEF WriteInv
    <2>5. pending \subseteq {IRQ_RTC} /\ service.master \subseteq 0 .. 7
            /\ service.slave \subseteq 0 .. 7
        BY <2>1 DEF PicInv
    <2>6. ticks \in 0 .. SecPerMin /\ due \in 0 .. DAY \cup {Idle}
        BY <2>1, Units DEF ClockTypes, AlarmInv
    <2>7. QED
        BY <2>1, <2>2, <2>3, <2>4, <2>5, <2>6 DEF TypeOK, ClockTypes, Daytime
<1>2. QED
    BY <1>1, RtcInvariance, PTL

\* A reading that met no update is the time of one instant, and each field the
\* number that its register stood for.
THEOREM ReadingsAreWhole == Spec => []ReadingWhole
<1>1. RtcInv => ReadingWhole
    <2> SUFFICES ASSUME RtcInv, Started
                 PROVE  tm = taken /\ \A r \in DOMAIN tm : bin_to_bcd(tm[r]) = Bcd(taken[r])
        BY DEF ReadingWhole
    <2>1. tm = taken /\ taken \in Times
        BY DEF RtcInv, StartedInv, ClockTypes, Started
    <2>2. \A r \in DOMAIN taken : taken[r] \in 0 .. 99
        BY <2>1, TimesInDigits
    <2>3. QED
        BY <2>1, <2>2, BcdOfBinary
<1>2. QED
    BY <1>1, RtcInvariance, PTL

\* An alarm of which no access was torn, with the handler of the one before in the
\* middle of it, rings in the second for which set_alarm asked and in no other,
\* and before the next one begins; so it does on the days after.
THEOREM AlarmsRingOnTime == Spec => AlarmOnTime
<1>1. RtcInv /\ [Next]_vars
        => [ /\ rtc_handler => due \in {0, Idle}
             /\ EndUpdate => due # 0 ]_vars
    <2> SUFFICES ASSUME RtcInv
                 PROVE  /\ rtc_handler => due \in {0, Idle}
                        /\ EndUpdate => due # 0
        OBVIOUS
    <2>1. ClockTypes /\ PicInv /\ ThreadInv /\ AlarmInv
        BY DEF RtcInv
    <2>2. rtc_handler => AF
        BY <2>1, DeliverableAlarm DEF rtc_handler, interrupt_entry
    <2>3. EndUpdate => updating
        BY DEF EndUpdate
    <2>4. due = 0 => ~updating
        BY <2>1, RtcAssumption DEF AlarmInv
    <2>5. QED
        BY <2>1, <2>2, <2>3, <2>4 DEF AlarmInv
<1>2. QED
    BY <1>1, RtcInvariance, PTL DEF Spec, AlarmOnTime

\* startup_time is the number of seconds since 1970 of the time that was taken,
\* for every time the registers can hold, whether or not the product with the
\* years overflows an int.
THEOREM StartsAtTheRightTime == Spec => []StartupTimeRight
<1>1. RtcInv => StartupTimeRight
    <2> SUFFICES ASSUME RtcInv, Started
                 PROVE  startup_time = SecondNumber(taken)
        BY DEF StartupTimeRight
    <2>1. tm = taken /\ startup_time = mktime(tm) /\ taken \in Times
        BY DEF RtcInv, StartedInv, ClockTypes, Started
    <2>2. QED
        BY <2>1, MktimeRight
<1>2. QED
    BY <1>1, RtcInvariance, PTL

\* localtime gives startup_time's date back on the dates named by Converted; on
\* all others, those of leap years, of the first two months and of the last days
\* of a year, it gives another one (LocaltimeRight).
THEOREM ConvertsSomeDates == Spec => []LocaltimeConverts
<1>1. RtcInv => LocaltimeConverts
    <2> SUFFICES ASSUME RtcInv, Started, Converted(taken)
                 PROVE  localtime(startup_time) = [taken EXCEPT !.year = FullYear(@) - 1900]
        BY DEF LocaltimeConverts
    <2>1. taken \in Times /\ startup_time = SecondNumber(taken)
        <3>1. tm = taken /\ startup_time = mktime(tm) /\ taken \in Times
            BY DEF RtcInv, StartedInv, ClockTypes, Started
        <3>2. QED
            BY <3>1, MktimeRight
    <2>2. QED
        BY <2>1, LocaltimeRight
<1>2. QED
    BY <1>1, RtcInvariance, PTL
=============================================================================
