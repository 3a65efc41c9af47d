------------------------------- MODULE Printk -------------------------------
(***************************************************************************)
(* kernel/printk.c and kernel/debug.c: a text is formatted into a static   *)
(* buffer, which console_write takes to the screen one character at a      *)
(* time.  All callers run with interrupts off, so that nothing comes       *)
(* between, and the clock and its part in a beep are left to Rtc.          *)
(***************************************************************************)
EXTENDS Console, Format

CONSTANTS
    Calls,       \* formatted calls that are tried
    Chars        \* characters that are printed by themselves

NoCall == <<>>
Finished == None

VARIABLES
    buf,         \* the static buffer
    next,        \* the place in buf of the next character, 0 if none is left
    asked        \* the formatted call whose text is shown, NoCall before there is
                 \* one and Finished when its text has been shown

vars == <<con, beeper, buf, next, asked>>

Init == console_init /\ buf = <<>> /\ next = 0 /\ asked = NoCall

\* What a call of printk, or of debugk with a file and a line, formats.
Output(call) ==
    IF call.file = None THEN vsprintf(call.format)
    ELSE debugk(call.file, call.line, call.format)

\* Bound: the texts are ASCII, and so are what strings and characters hold.  A
\* char beyond is negative, and would be stored as another word.
Ascii == 0 .. 127

ASSUME TextAssumption ==
    /\ Chars \subseteq Ascii
    /\ \A call \in Calls : Output(call) \in Seq(Ascii)

\* The arguments are of the types that the formats name.
ASSUME CallAssumption ==
    \A call \in Calls :
        /\ call.format \in Seq(Items) /\ \A i \in 1 .. Len(call.format) : Parsed(call.format[i])
        /\ call.file # None =>
              call.file \in Seq(Int) /\ call.line \in Seq(Int) /\ call.line[1] \in 0 .. Words - 1

printk(call) ==
    /\ next = 0
    /\ buf' = Output(call)
    /\ IF buf' = <<>> THEN next' = 0 /\ asked' = Finished ELSE next' = 1 /\ asked' = call
    /\ UNCHANGED <<con, beeper>>

\* A round of the loop of console_write, which a NUL leaves.  The text that it
\* leaves in the buffer is not read again.
WriteNext ==
    /\ next # 0
    /\ console_write(buf[next])
    /\ IF next = Len(buf) \/ buf[next] = ASCII_NUL
       THEN next' = 0 /\ buf' = <<>> /\ asked' = IF asked = NoCall THEN NoCall ELSE Finished
       ELSE next' = next + 1 /\ UNCHANGED <<buf, asked>>

\* A call with one character and nothing to format.
PrintCharacter(ch) ==
    /\ next = 0
    /\ asked = NoCall \/ ch = ASCII_LF
    /\ buf' = <<ch>> /\ next' = 1
    /\ UNCHANGED <<con, beeper, asked>>

\* Bound: a formatted call is tried once, on the cleared screen, and only
\* line feeds follow it.
FirstCall == asked = NoCall /\ con = console_clear

Next ==
    \/ FirstCall /\ \E call \in Calls : printk(call)
    \/ WriteNext
    \/ \E ch \in Chars : PrintCharacter(ch)

Spec == Init /\ [][Next]_vars

(***************************************************************************)
(* Properties.                                                             *)
(***************************************************************************)

\* The text of a call is right, conversion by conversion: a number reads back, a
\* field has its width, and is padded on its side and with no more than it
\* takes; a string is cut at its end or at the precision.  debugk shows the text
\* after the place, up to a NUL.  Fits says what is not claimed.
FormatRight ==
    next = 1 /\ asked # NoCall /\ asked # Finished =>
        LET start == IF asked.file = None THEN 0
                     ELSE Len(vsprintf(Place(asked.file, asked.line)))
            End(i) == start + Len(vsprintf(SubSeq(asked.format, 1, i)))
        IN  \A i \in 1 .. Len(asked.format) :
                End(i) <= Len(buf) =>
                    Fits(asked.format[i], SubSeq(buf, End(i - 1) + 1, End(i)))
=============================================================================
