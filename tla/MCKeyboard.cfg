SPECIFICATION Spec
CONSTANTS
    none = none
    Keys <- MCKeys
    NoByte <- none
    MaxEvents = 3
    MaxQueue = 5
INVARIANT TypeOK
INVARIANT KeysAgree
INVARIANT CapitalsAgree
INVARIANT LedsShowLocks
PROPERTY HandlerReturns
CHECK_DEADLOCK FALSE
