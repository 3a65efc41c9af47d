SPECIFICATION Spec
CONSTANTS
    idle = idle
    init = init
    test = test
    other = other
    sleepers = sleepers
    blocked = blocked
    waiters = waiters
    NULL = NULL
    Nodes <- MCNodes
    Lists <- MCLists
INVARIANT LinksAgree
INVARIANT LinkedMeansListed
INVARIANT WalksAgree
PROPERTY ListsAreSequences
