SPECIFICATION Spec
CONSTANTS
    none = none
    Idle <- none
    Word = 7
    SecPerMin = 2
    MinPerHour = 2
    HourPerDay = 2
    TimeHalf = 200000
    Boots <- MCBoots
    LongRun <- MCLongRun
    Delays <- MCDelays
    OtherFlags = {0, 80}
INVARIANT TypeOK
INVARIANT ReadingWhole
INVARIANT StartupTimeRight
INVARIANT LocaltimeConverts
 
PROPERTY BeepEnds
