------------------------------- MODULE Format -------------------------------
(***************************************************************************)
(* Formatted output, lib/vsprintf.c and kernel/debug.c.  Text is a         *)
(* sequence of character codes.  A format is a sequence of items: literal  *)
(* characters, or a conversion as the parser has taken it apart.           *)
(*                                                                         *)
(*   item.conv       the letter of the conversion, or "lit"                *)
(*   item.flags      the flags written after the percent sign              *)
(*   item.width, item.precision                                            *)
(*                   numbers, or None; an argument given for "*" may be    *)
(*                   negative                                              *)
(*   item.arg        a sequence: one character or one number of a word,    *)
(*                   the characters of a text, bytes, or of a double       *)
(*                   <<1 if it is negative, whole part, fraction>>         *)
(***************************************************************************)
EXTENDS Integers, Sequences, SequencesExt

CONSTANTS
    Words,       \* values of a machine word: 2^32 in the code
    Micro,       \* parts of the fraction of a double: 1000000 in the code
    None         \* no width or no precision

TenTo(n) == LET power[i \in 0 .. n] == IF i = 0 THEN 1 ELSE 10 * power[i - 1]
            IN  power[n]

ASSUME FormatAssumption ==
    /\ Words \in Nat \ {0, 1}
    /\ \E n \in 0 .. 9 : Micro = TenTo(n)
    /\ None \notin Int

FlagNames == {"LEFT", "PLUS", "SPACE", "SPECIAL", "ZEROPAD"}
IntegerConvs == {"d", "i", "u", "o", "x", "X", "p", "b"}
Convs == IntegerConvs \cup {"lit", "c", "s", "f", "m", "r"}

\* What the parser makes of a conversion and its argument.
Items == [conv : Convs, flags : SUBSET FlagNames, width : Int \cup {None},
          precision : Int \cup {None}, arg : Seq(Int)]

Parsed(it) ==
    /\ it \in Items
    /\ it.conv \in IntegerConvs => it.arg[1] \in 0 .. Words - 1
    /\ it.conv = "f" => it.arg[1] \in {0, 1} /\ it.arg[2] \in Nat /\ it.arg[3] \in 0 .. Micro - 1
    /\ it.conv = "m" => \A i \in 1 .. 6 : it.arg[i] \in 0 .. 255
    /\ it.conv = "r" => \A i \in 1 .. 4 : it.arg[i] \in 0 .. 255

SPACE == 32
PLUS == 43
MINUS == 45
POINT == 46
COLON == 58
ZERO == 48
LETTER_X == <<88, 120>>               \* X, and x if SMALL

Repeat(ch, n) == IF n > 0 THEN [i \in 1 .. n |-> ch] ELSE <<>>
S32(num) == IF num >= Words \div 2 THEN num - Words ELSE num

\* The place of the first ch, or the one after the text.
PlaceOf(ch, text) == Min({i \in 1 .. Len(text) + 1 : i > Len(text) \/ text[i] = ch})

\* The characters before the first NUL.
Terminated(text) == SubSeq(text, 1, PlaceOf(0, text) - 1)

(***************************************************************************)
(* number: the digits come out last one first, and are written in reverse. *)
(***************************************************************************)

DigitChar(d, flags) ==
    IF d < 10 THEN ZERO + d ELSE (IF "SMALL" \in flags THEN 97 ELSE 65) + d - 10

\* What is left of num after i turns of the loop, which ends when that is 0.
Digits(num, base, flags) ==
    LET left[i \in 0 .. num + 1] == IF i = 0 THEN num ELSE left[i - 1] \div base
        n == CHOOSE i \in 1 .. num + 1 : left[i] = 0 /\ \A j \in 1 .. i - 1 : left[j] # 0
    IN  [i \in 1 .. n |-> DigitChar(left[n - i] % base, flags)]

\* Of a double, the fraction is in parts of Micro, without leading zeros.
DoubleDigits(num, base, flags) ==
    Digits(num[2], base, flags) \o <<POINT>> \o Digits(num[3], base, flags)

Negative(num, flags) ==
    IF "DOUBLE" \in flags THEN num[1] = 1 ELSE "SIGN" \in flags /\ S32(num) < 0

SignOf(num, flags) ==
    CASE Negative(num, flags) -> <<MINUS>>
      [] "PLUS" \in flags /\ ~Negative(num, flags) -> <<PLUS>>
      [] {"PLUS", "SPACE"} \cap flags = {"SPACE"} /\ ~Negative(num, flags) -> <<SPACE>>
      [] OTHER -> <<>>

PrefixOf(base, flags) ==
    CASE "SPECIAL" \in flags /\ base = 8 -> <<ZERO>>
      [] "SPECIAL" \in flags /\ base = 16 ->
             <<ZERO, LETTER_X[IF "SMALL" \in flags THEN 2 ELSE 1]>>
      [] OTHER -> <<>>

\* The absolute value is a word again: that of the least number is itself.
DigitsOf(num, base, flags) ==
    IF "DOUBLE" \in flags THEN DoubleDigits(num, base, flags)
    ELSE Digits(IF Negative(num, flags) THEN (-num) % Words ELSE num, base, flags)

\* Mutant: the sign is not counted in the width.
number_SignExtra(num, base, size, precision, flags) ==
    LET sign == SignOf(num, flags)
        prefix == PrefixOf(base, flags)
        digits == DigitsOf(num, base, flags)
        zeros == Repeat(ZERO, precision - Len(digits))
        rest == size - Len(prefix) - Len(zeros) - Len(digits)
        left == "LEFT" \in flags
        padded == "ZEROPAD" \in flags /\ ~left
    IN  Repeat(SPACE, IF left \/ padded THEN 0 ELSE rest)
            \o sign \o prefix
            \o Repeat(ZERO, IF padded THEN rest ELSE 0)
            \o zeros \o digits
            \o Repeat(SPACE, IF left THEN rest ELSE 0)

number(num, base, size, precision, flags) ==
    LET sign == SignOf(num, flags)
        prefix == PrefixOf(base, flags)
        digits == DigitsOf(num, base, flags)
        zeros == Repeat(ZERO, precision - Len(digits))
        rest == size - Len(sign) - Len(prefix) - Len(zeros) - Len(digits)
        left == "LEFT" \in flags
        padded == "ZEROPAD" \in flags /\ ~left
    IN  Repeat(SPACE, IF left \/ padded THEN 0 ELSE rest)
            \o sign \o prefix
            \o Repeat(ZERO, IF padded THEN rest ELSE 0)
            \o zeros \o digits
            \o Repeat(SPACE, IF left THEN rest ELSE 0)

(***************************************************************************)
(* vsprintf: the width and the precision, and the conversions.             *)
(***************************************************************************)

FieldWidth(it) == IF it.width = None THEN -1 ELSE IF it.width < 0 THEN -it.width ELSE it.width
Precision(it) == IF it.precision = None THEN -1 ELSE IF it.precision < 0 THEN 0 ELSE it.precision
FlagsOf(it) ==
    it.flags \cup (IF it.width # None /\ it.width < 0 THEN {"LEFT"} ELSE {})

\* Characters and strings are padded with spaces whatever the flags say.
Padded(text, it) ==
    LET pad == Repeat(SPACE, FieldWidth(it) - Len(text))
    IN  IF "LEFT" \in FlagsOf(it) THEN text \o pad ELSE pad \o text

\* A character is not followed by its terminator; a precision shortens a text.
Text(it) ==
    LET s == Terminated(it.arg)
    IN  IF Precision(it) \in 0 .. Len(s) THEN SubSeq(s, 1, Precision(it)) ELSE s

Base(conv) ==
    CASE conv = "o" -> 8
      [] conv \in {"p", "x", "X"} -> 16
      [] conv = "b" -> 2
      [] OTHER -> 10

Integer(it) ==
    LET bare == it.conv = "p" /\ FieldWidth(it) = -1
        own == CASE it.conv = "x" -> {"SMALL"}
                 [] it.conv \in {"d", "i"} -> {"SIGN"}
                 [] it.conv = "f" -> {"SIGN", "DOUBLE"}
                 [] bare -> {"ZEROPAD"}
                 [] OTHER -> {}
        num == IF it.conv = "f" THEN it.arg ELSE it.arg[1]
    IN  number(num, Base(it.conv), IF bare THEN 8 ELSE FieldWidth(it),
               Precision(it), FlagsOf(it) \cup own)

\* A byte is converted like a word; the separator after the last one is
\* taken back.
MacAddress(it) ==
    LET Field(byte) == number(byte, 16, 2, Precision(it),
                              FlagsOf(it) \cup {"SMALL", "ZEROPAD"}) \o <<COLON>>
    IN  Front(FlattenSeq([i \in 1 .. 6 |-> Field(it.arg[i])]))

IpAddress(it) ==
    LET Field(byte) == number(byte, 10, FieldWidth(it), Precision(it),
                              FlagsOf(it) \cup {"SMALL"}) \o <<POINT>>
    IN  Front(FlattenSeq([i \in 1 .. 4 |-> Field(it.arg[i])]))

Convert(it) ==
    CASE it.conv = "lit" -> it.arg
      [] it.conv = "c" -> Padded(it.arg, it)
      [] it.conv = "s" -> Padded(Text(it), it)
      [] it.conv = "m" -> MacAddress(it)
      [] it.conv = "r" -> IpAddress(it)
      [] OTHER -> Integer(it)

vsprintf(format) == FlattenSeq([i \in 1 .. Len(format) |-> Convert(format[i])])

Plain(conv, arg) ==
    [conv |-> conv, flags |-> {}, width |-> None, precision |-> None, arg |-> arg]
Literal(text) == Plain("lit", text)

\* debugk: the text is formatted once, and again as a string after the place.
Place(file, line) ==
    <<Literal(<<91>>), Plain("s", file), Literal(<<93, SPACE, 91>>),
      Plain("d", line), Literal(<<93, SPACE>>)>>

debugk(file, line, format) ==
    vsprintf(Append(Place(file, line), Plain("s", vsprintf(format))))

(***************************************************************************)
(* What the text of one conversion has to be.                              *)
(***************************************************************************)

PadLeft(text) == CHOOSE n \in 0 .. Len(text) :
    /\ \A i \in 1 .. n : text[i] = SPACE
    /\ n < Len(text) => text[n + 1] # SPACE
PadRight(text) == PadLeft(Reverse(text))
Stripped(text) == SubSeq(text, PadLeft(text) + 1, Len(text) - PadRight(text))
Unsigned(text) == IF Head(text) \in {PLUS, MINUS} THEN Tail(text) ELSE text

\* What a field holds without padding, sign and prefix.
DigitsIn(text, base, flags) ==
    LET body == Unsigned(Stripped(text))
    IN  SubSeq(body, Len(PrefixOf(base, flags)) + 1, Len(body))

\* The number that digits denote.
Read(digits, base) ==
    LET Value(ch) == CHOOSE d \in 0 .. base - 1 :
                         ch \in {DigitChar(d, {}), DigitChar(d, {"SMALL"})}
        read[i \in 0 .. Len(digits)] ==
            IF i = 0 THEN 0 ELSE read[i - 1] * base + Value(digits[i])
    IN  read[Len(digits)]

\* A field of at least the width, padded only to reach it, on the side that
\* the flags ask for, with zeros only in front of digits, which read back as
\* the number and are as many as the precision.
IntegerFits(it, text) ==
    LET body == Stripped(text)
        digits == DigitsIn(text, Base(it.conv), it.flags)
        value == Read(digits, Base(it.conv))
        space == IF "SPACE" \in it.flags THEN 1 ELSE 0
        width == IF it.conv = "p" /\ FieldWidth(it) = -1 THEN 8 ELSE FieldWidth(it)
    IN  /\ Len(digits) >= Precision(it)
        /\ (IF Head(body) = MINUS THEN -value ELSE value)
               = (IF it.conv \in {"d", "i"} THEN S32(it.arg[1]) ELSE it.arg[1])
        /\ Len(text) >= width
        /\ Len(text) > width =>
               /\ Len(body) + space >= Len(text)
               /\ Len(digits) > Precision(it) => digits[1] # ZERO \/ Len(digits) = 1
        /\ "LEFT" \in FlagsOf(it) => PadLeft(text) <= space
        /\ "LEFT" \notin FlagsOf(it) => PadRight(text) = 0
        /\ "PLUS" \in it.flags => Head(body) \in {PLUS, MINUS}

\* The whole part of a double reads back, and so does the fraction if it is zero or
\* has no zero right after the point.  Of other fractions nothing is said.
DoubleFits(it, text) ==
    LET digits == DigitsIn(text, 10, it.flags)
        point == PlaceOf(POINT, digits)
        fraction == SubSeq(digits, point + 1, Len(digits))
    IN  /\ Read(SubSeq(digits, 1, point - 1), 10) = it.arg[2]
        /\ it.arg[3] = 0 \/ it.arg[3] * 10 >= Micro =>
               Read(fraction, 10) * Micro = it.arg[3] * TenTo(Len(fraction))
        /\ it.arg[1] = 1 <=> Head(Stripped(text)) = MINUS
        /\ Len(text) >= FieldWidth(it)

\* The first n characters of the argument may be shown: none of them ends the string,
\* and they are no more than the precision.
MayShow(it, n) ==
    /\ n <= Len(it.arg)
    /\ \A i \in 1 .. n : it.arg[i] # 0
    /\ it.precision # None => n <= it.precision

\* As many characters of the argument as may be shown, on their side of the field,
\* and spaces.
TextFits(it, text) ==
    \E n \in 0 .. Len(it.arg) :
        LET before == IF "LEFT" \in FlagsOf(it) THEN 0 ELSE Len(text) - n
        IN  /\ MayShow(it, n) /\ ~MayShow(it, n + 1)
            /\ Len(text) = (IF FieldWidth(it) > n THEN FieldWidth(it) ELSE n)
            /\ \A i \in 1 .. Len(text) :
                  text[i] = IF i - before \in 1 .. n THEN it.arg[i - before] ELSE SPACE

\* Between the separators the bytes, in order.
BytesFit(it, text) ==
    LET n == IF it.conv = "m" THEN 6 ELSE 4
        base == IF it.conv = "m" THEN 16 ELSE 10
        cut[i \in 0 .. n] ==
            IF i = 0 THEN 0
            ELSE cut[i - 1] + PlaceOf(IF it.conv = "m" THEN COLON ELSE POINT,
                                      SubSeq(text, cut[i - 1] + 1, Len(text)))
    IN  /\ cut[n] = Len(text) + 1
        /\ \A i \in 1 .. n :
              Read(DigitsIn(SubSeq(text, cut[i - 1] + 1, cut[i] - 1), base, it.flags), base)
                  = it.arg[i]

\* Nothing is claimed for a negative precision, which only an argument for "*" can
\* give: the comment in vsprintf takes its absolute value, and the code 0.
Fits(it, text) ==
    \/ it.precision # None /\ it.precision < 0
    \/ it.conv \in IntegerConvs /\ IntegerFits(it, text)
    \/ it.conv = "f" /\ DoubleFits(it, text)
    \/ it.conv = "s" /\ TextFits(it, text)
    \/ it.conv \in {"m", "r"} /\ BytesFit(it, text)
    \/ it.conv \in {"c", "lit"}
=============================================================================
