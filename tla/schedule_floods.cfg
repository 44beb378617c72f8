\* One schedule that has never run.
SPECIFICATION Spec
CONSTANTS
    Schedules = {1}
    Requests = {1}
    Ops = {"create"}
    Second = 6
    Milli = 3
    Word = 64
    ZeroTime <- MCZeroTime
    StartTime = 6
    MaxCatchUp = 3
    MaxTime = 12
    MaxOps = 1
    MaxCrashes = 0
    MaxFaults = 0
INVARIANTS
    OncePerInterval
CHECK_DEADLOCK FALSE
