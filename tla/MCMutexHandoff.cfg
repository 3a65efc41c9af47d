SPECIFICATION LockSpec
CONSTANTS
    idle = idle
    init = init
    test = test
    other = other
    Boot = Boot
    None = None
    Table <- MCTable
    Priority <- MCPriority
    SleepMs <- MCSleepMs
    Jiffy = 10
    Half = 16
    Horizon = 4
    MaxRepeat = 2
PROPERTY WokenWaiterGetsMutex
