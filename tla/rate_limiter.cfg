SPECIFICATION LimiterSpec
CONSTANTS
    Rates = {0, 1, 2}
    Seconds = 2
    TicksPerSecond = 2
    MaxTime = 13
    MaxValidations = 8
    MaxSpurious = 1
CHECK_DEADLOCK FALSE
INVARIANT LimitKept
PROPERTIES RefusedOnlyWhenUsedUp
