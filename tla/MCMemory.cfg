SPECIFICATION Spec
CONSTANTS
    absent = absent
    PageSize = 8
    BasePages = 6
    Tables = 2
    TableEntries = 7
    ByteBits = 4
    Word = 256
    Ards <- MCArds
    NoPage <- absent
    MaxCount = 3
INVARIANT TypeOK
INVARIANT FramesMarked
INVARIANT HeapMarked
INVARIANT KernelMapped
INVARIANT UsableMemory
PROPERTY GivenOnce
PROPERTY PagesAsPromised
CHECK_DEADLOCK FALSE
