\* One schedule, and a crash between the two statements of a firing.
SPECIFICATION FairSpec
CONSTANTS
    Schedules = {1}
    Requests = {1}
    Ops = {"create"}
    Second = 6
    Milli = 3
    Word = 64
    ZeroTime <- MCZeroTime
    StartTime = 6
    MaxCatchUp = 3
    MaxTime = 12
    MaxOps = 1
    MaxCrashes = 1
    MaxFaults = 0
PROPERTIES
    KeepsFiring
CHECK_DEADLOCK FALSE
