SPECIFICATION Spec
CONSTANTS
    none = none
    Keys <- MCKeys
    NoByte <- none
    MaxEvents = 3
    MaxQueue = 5
INVARIANT NoKeySticks
CHECK_DEADLOCK FALSE
