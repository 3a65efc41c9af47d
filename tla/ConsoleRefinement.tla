------------------------- MODULE ConsoleRefinement --------------------------
(***************************************************************************)
(* The console implements Terminal.  The cells are those that the          *)
(* controller shows: it starts at the address in its own registers.        *)
(***************************************************************************)
EXTENDS Printk

Blank == 0

\* A cell without a visible attribute shows nothing.
Glyph(i) ==
    LET a == 2 * (Position(con.start) + i)
    IN  IF con.mem[a + 1] = 0 \/ con.mem[a] = SPACE THEN Blank ELSE con.mem[a]

Shown == [i \in 0 .. WIDTH * HEIGHT - 1 |-> Glyph(i)]
Pointed == Position(con.cursor) - Position(con.start)

\* What the buffer still holds.
Rest == IF next = 0 THEN <<>> ELSE SubSeq(buf, next, Len(buf))

Abstract == INSTANCE Terminal WITH
    Width <- WIDTH,
    Height <- HEIGHT,
    Characters <- Ascii,
    cells <- Shown,
    cursor <- Pointed,
    text <- Rest

\* What the four variables, the copying and the registers amount to: the
\* characters of a text are shown one after the other, each does to the screen what
\* it does to a terminal, so that a glyph appears at the cursor and nowhere else,
\* and no text before the cursor is ever lost except off the top.
ScreenAsTerminal == Abstract!Spec
=============================================================================
