\* A program that does not read a large stdin.
CONSTANTS
    Runs = {r1}
    Requested = {0}
    TimeoutRange <- Range12
    ReapMaxAge = 5
    StartDelay = 1
    StopDelay = 1
    StdinKinds = {"large"}
    Fates <- OnlyExit0
    MaxFaulty = 0
    MaxCrashes = 0
SPECIFICATION Spec
INVARIANTS
    WithinWallClock
