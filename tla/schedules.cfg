\* Two schedules, every request, a crash, a failing call, an interval that overflows.
SPECIFICATION FairSpec
CONSTANTS
    Schedules = {1, 2}
    Requests = {1, 2, 6, 11}
    Ops = {"create", "delete", "enable", "disable", "deleteJob"}
    Second = 6
    Milli = 3
    Word = 64
    ZeroTime <- MCZeroTime
    StartTime = 6
    MaxCatchUp = 3
    MaxTime = 12
    MaxOps = 3
    MaxCrashes = 1
    MaxFaults = 1
INVARIANTS
    TypeOK
    NothingEnqueuedEarly
    LateFiringsBounded
    NoIntervalLost
    BlockedOnlyByLostTouch
    PanicNeedsOverflow
PROPERTIES
    CatchesUp
CHECK_DEADLOCK FALSE
