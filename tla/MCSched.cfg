SPECIFICATION Spec
CONSTANTS
    idle = idle
    init = init
    test = test
    other = other
    Boot = Boot
    None = None
    Table <- MCTable
    Priority <- MCPriority
    SleepMs <- MCSleepMs
    Jiffy = 10
    Half = 16
    Horizon = 5
INVARIANT TypeOK
INVARIANT OneRunning
INVARIANT ListsMatchStates
INVARIANT OneRendezvous
INVARIANT NoOversleep
PROPERTY Promise
