------------------------------ MODULE Console -------------------------------
(***************************************************************************)
(* The text console, kernel/console.c, and the video memory and registers  *)
(* of the CRT controller that it writes.  Addresses are relative to        *)
(* MEM_BASE.  The model keeps some memory below and above the video        *)
(* memory, which belongs to somebody else.                                 *)
(*                                                                         *)
(* Everything that prints does so with interrupts off, so that the clock   *)
(* comes between two calls.                                                *)
(***************************************************************************)
EXTENDS Beeper, Sequences, SequencesExt

CONSTANTS
    WIDTH, HEIGHT,     \* columns and rows of the screen
    MEM_SIZE,          \* bytes of video memory
    Byte               \* values of a register of the controller: 256

ROW_SIZE == WIDTH * 2
SCR_SIZE == ROW_SIZE * HEIGHT
MEM_END == MEM_SIZE

\* There is room for a screen, one row that it has scrolled over, and the row
\* after the next that scroll_up clears.
ASSUME ConsoleAssumption ==
    /\ WIDTH \in Nat \ {0, 1} /\ HEIGHT \in Nat \ {0}
    /\ MEM_SIZE \in Nat /\ MEM_SIZE % 2 = 0
    /\ SCR_SIZE + 2 * ROW_SIZE < MEM_SIZE
    /\ Byte \in Nat \ {0} /\ MEM_SIZE \div 2 <= Byte * Byte

ASCII_NUL == 0
ASCII_ENQ == 5
ASCII_BEL == 7
ASCII_BS == 8
ASCII_HT == 9
ASCII_LF == 10
ASCII_VT == 11
ASCII_FF == 12
ASCII_CR == 13
ASCII_ESC == 27
ASCII_DEL == 127

attr == 7
erase == <<32, 7>>                    \* the bytes of 0x0720
Foreign == -1                         \* bytes that are not the console's
AllMemory == -ROW_SIZE .. MEM_END + 2 * ROW_SIZE - 1

VARIABLE con

\* Bytes stored from an address on, in order.
Store(mem, address, bytes) ==
    [a \in AllMemory |-> IF a - address \in 0 .. Len(bytes) - 1
                         THEN bytes[a - address + 1]
                         ELSE mem[a]]

\* A character, or an attribute, is stored as a word of 32 bits.
Word32(byte) == <<byte, 0, 0, 0>>

\* Mutant: the copy goes down from the last byte, as memmove does for areas
\* that overlap the other way round.
Memcpy_Down(mem, dest, src, count) ==
    LET copied[n \in 0 .. count] ==
            IF n = 0 THEN mem
            ELSE LET m == copied[n - 1]
                 IN  [m EXCEPT ![dest + count - n] = m[src + count - n]]
    IN  copied[count]

\* memcpy goes up byte by byte; the two areas may overlap.
Memcpy(mem, dest, src, count) ==
    LET copied[n \in 0 .. count] ==
            IF n = 0 THEN mem
            ELSE LET m == copied[n - 1]
                 IN  [m EXCEPT ![dest + n - 1] = m[src + n - 1]]
    IN  copied[count]

\* A position in the video memory as the two registers that hold it.
High(address) == (address \div (2 * Byte)) % Byte
Low(address) == (address \div 2) % Byte
Position(registers) == registers.high * Byte + registers.low

set_cursor(c) == [c EXCEPT !.cursor = [high |-> High(c.pos), low |-> Low(c.pos)]]
set_screen(c) == [c EXCEPT !.start = [high |-> High(c.screen), low |-> Low(c.screen)]]

(***************************************************************************)
(* The control characters.                                                 *)
(***************************************************************************)

command_bs(c) ==
    IF c.x = 0 THEN c
    ELSE [c EXCEPT !.x = @ - 1, !.pos = @ - 2,
                   !.mem = Store(@, c.pos - 2, erase)]

command_cr(c) == [c EXCEPT !.pos = @ - 2 * c.x, !.x = 0]

command_del(c) == [c EXCEPT !.mem = Store(@, c.pos, erase)]

\* Mutant: the screen is moved and the cursor is left where it was.
CopiedBack_PosKept(c) ==
    IF c.screen + SCR_SIZE + ROW_SIZE < MEM_END
    THEN [c EXCEPT !.mem = Memcpy(@, 0, c.screen, SCR_SIZE), !.screen = 0]
    ELSE c

\* Mutant: the screen is copied back only when a row is left at the end.
CopiedBack_Late(c) ==
    IF c.screen + SCR_SIZE < MEM_END THEN c
    ELSE [c EXCEPT !.mem = Memcpy(@, 0, c.screen, SCR_SIZE),
                   !.pos = @ - c.screen, !.screen = 0]

\* The screen is copied back to the start of the video memory while there is
\* room for another row.
CopiedBack(c) ==
    IF c.screen + SCR_SIZE + ROW_SIZE < MEM_END
    THEN [c EXCEPT !.mem = Memcpy(@, 0, c.screen, SCR_SIZE),
                   !.pos = @ - c.screen, !.screen = 0]
    ELSE c

\* erase is stored WIDTH times as a word of 32 bits, which is two rows.
scroll_up(c) ==
    LET d == CopiedBack(c)
        bottom == d.screen + SCR_SIZE
        blank == [i \in 1 .. 4 * WIDTH |-> (erase \o <<0, 0>>)[((i - 1) % 4) + 1]]
    IN  set_screen([d EXCEPT !.mem = Store(@, bottom, blank),
                             !.screen = @ + ROW_SIZE, !.pos = @ + ROW_SIZE])

command_lf(c) ==
    IF c.y + 1 < HEIGHT
    THEN [c EXCEPT !.y = @ + 1, !.pos = @ + ROW_SIZE]
    ELSE scroll_up(c)

\* Past the last column pos is at the next row already.
command_put(c, ch) ==
    LET mem == Store(Store(c.mem, c.pos, Word32(ch)), c.pos + 1, Word32(attr))
        d == [c EXCEPT !.mem = mem, !.pos = @ + 2, !.x = @ + 1]
    IN  IF d.x = WIDTH
        THEN command_lf([d EXCEPT !.x = 0, !.pos = @ - ROW_SIZE])
        ELSE d

Written(c, ch) ==
    CASE ch \in {ASCII_ENQ, ASCII_ESC, ASCII_BEL, ASCII_HT, ASCII_VT} -> c
      [] ch = ASCII_BS -> command_bs(c)
      [] ch = ASCII_LF -> command_cr(command_lf(c))
      [] ch = ASCII_FF -> command_lf(c)
      [] ch = ASCII_CR -> command_cr(c)
      [] ch = ASCII_DEL -> command_del(c)
      [] OTHER -> command_put(c, ch)

(***************************************************************************)
(* console_clear, and one round of the loop of console_write.  A NUL       *)
(* leaves the loop, before the cursor is set.                              *)
(***************************************************************************)

console_clear ==
    LET cleared == [a \in AllMemory |->
                       IF a \in 0 .. MEM_END - 1 THEN erase[(a % 2) + 1] ELSE Foreign]
        zero == [high |-> 0, low |-> 0]
    IN  set_screen(set_cursor(
            [screen |-> 0, pos |-> 0, x |-> 0, y |-> 0, mem |-> cleared,
             start |-> zero, cursor |-> zero]))

console_init == con = console_clear /\ BeeperInit

console_write(ch) ==
    /\ con' = IF ch = ASCII_NUL THEN con ELSE set_cursor(Written(con, ch))
    /\ IF ch = ASCII_BEL THEN StartBeep ELSE UNCHANGED beeper

(***************************************************************************)
(* Properties.                                                             *)
(***************************************************************************)

\* Nothing is written outside of the video memory, and what scroll_up writes
\* next is inside as well.
VideoInBounds ==
    /\ \A a \in AllMemory : (con.mem[a] = Foreign) <=> a \notin 0 .. MEM_END - 1
    /\ con.screen >= 0
    /\ con.screen + SCR_SIZE + ROW_SIZE <= MEM_END

\* The four variables say the same: the cursor is in column x and row y of
\* the screen, and the controller knows where both are.
CursorAgrees ==
    /\ con.x \in 0 .. WIDTH - 1
    /\ con.y \in 0 .. HEIGHT - 1
    /\ con.pos = con.screen + con.y * ROW_SIZE + 2 * con.x
    /\ 2 * Position(con.cursor) = con.pos
    /\ 2 * Position(con.start) = con.screen
=============================================================================
