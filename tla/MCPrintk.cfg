SPECIFICATION Spec
CONSTANTS
    none = none
    None <- none
    Word = 16
    Words = 256
    Micro = 100
    Byte = 4
    WIDTH = 2
    HEIGHT = 3
    MEM_SIZE = 26
    Calls <- MCCalls
    Chars <- MCChars
INVARIANT VideoInBounds
INVARIANT CursorAgrees
INVARIANT FormatRight
PROPERTY ScreenAsTerminal
