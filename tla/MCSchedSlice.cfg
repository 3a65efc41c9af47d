SPECIFICATION Spec
CONSTANTS
    idle = idle
    init = init
    test = test
    other = other
    Boot = Boot
    None = None
    Table <- LiunixTable
    Priority <- LiunixPriority
    SleepMs <- MCSleepMs
    Jiffy = 10
    Half = 16
    Horizon = 12
INVARIANT SliceRemains
