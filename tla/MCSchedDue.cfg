SPECIFICATION Spec
CONSTANTS
    idle = idle
    init = init
    test = test
    Boot = Boot
    None = None
    Table <- MCTable
    Priority <- MCPriority
    SleepMs <- MCSleepMs
    Jiffy = 1
    Half = 3
    Horizon = 6
PROPERTY DueSleepersWake
