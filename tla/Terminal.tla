------------------------------ MODULE Terminal ------------------------------
(***************************************************************************)
(* What the console shows: a screen of cells in reading order, a cursor,   *)
(* and the text that is still to be shown.  A screen that is full loses    *)
(* its first row.                                                          *)
(***************************************************************************)
EXTENDS Integers, Sequences

CONSTANTS Width, Height, Characters, Blank     \* Blank \in Characters

NUL == 0
BS == 8
LF == 10
FF == 12
CR == 13
SPACE == 32
DEL == 127
Ignored == {5, 7, 9, 11, 27}                   \* ENQ, BEL, HT, VT, ESC

Last == Width * Height - 1
Cells == 0 .. Last
RowOf(i) == i \div Width

VARIABLES cells, cursor, text

screen == <<cells, cursor>>

Init == cells = [i \in Cells |-> Blank] /\ cursor = 0 /\ text = <<>>

\* The new screen is what before describes, one row up and with a blank row
\* at the end if the cursor was on the last row.
Shifted(down, before(_, _)) ==
    IF down /\ RowOf(cursor) = Height - 1
    THEN /\ \A i \in Cells : i >= Width => before(i, cells'[i - Width])
         /\ \A i \in Cells : i > Last - Width => cells'[i] = Blank
    ELSE \A i \in Cells : before(i, cells'[i])

Below(i) == IF RowOf(i) = Height - 1 THEN i ELSE i + Width

\* The character, or a blank for a space, goes to the cursor.  What is before it stays;
\* cells after it stay or are wiped.
Put(ch) ==
    LET Before(i, glyph) ==
            \/ i < cursor /\ glyph = cells[i]
            \/ i = cursor /\ glyph = IF ch = SPACE THEN Blank ELSE ch
            \/ i > cursor /\ glyph \in {cells[i], Blank}
        full == cursor % Width = Width - 1
    IN  /\ Shifted(full, Before)
        /\ cursor' = IF full THEN Below(cursor) - (Width - 1) ELSE cursor + 1

\* The cursor goes down by a row, to the first column or in its own.
LineFeed(column) ==
    LET Same(i, glyph) == glyph = cells[i]
    IN  /\ Shifted(TRUE, Same)
        /\ cursor' = Below(cursor) - (cursor % Width) + column

Return == cursor' = cursor - (cursor % Width) /\ UNCHANGED cells

Erase(i) == cells' = [cells EXCEPT ![i] = Blank] /\ cursor' = i

Backspace == IF cursor % Width = 0 THEN UNCHANGED screen ELSE Erase(cursor - 1)

\* What a character does to the screen.
Shown(ch) ==
    CASE ch \in Ignored \cup {NUL} -> UNCHANGED screen
      [] ch = BS -> Backspace
      [] ch = LF -> LineFeed(0)
      [] ch = FF -> LineFeed(cursor % Width)
      [] ch = CR -> Return
      [] ch = DEL -> Erase(cursor)
      [] OTHER -> Put(ch)

\* A text is given when the one before it has been shown.
Send == text = <<>> /\ text' \in Seq(Characters) /\ UNCHANGED screen

\* The next character of the text is shown.  A NUL drops the rest.
Type ==
    /\ text # <<>>
    /\ Shown(Head(text))
    /\ text' = IF Head(text) = NUL THEN <<>> ELSE Tail(text)

Next == Send \/ Type

Spec == Init /\ [][Next]_<<cells, cursor, text>>
=============================================================================
