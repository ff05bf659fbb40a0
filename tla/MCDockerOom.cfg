\* A timeout limit longer than reapMaxAge.
CONSTANTS
    Runs = {r1}
    Requested = {0}
    TimeoutRange <- Range15
    ReapMaxAge = 4
    StartDelay = 1
    StopDelay = 1
    StdinKinds = {"none", "fits"}
    Fates <- OnlyExit0
    MaxFaulty = 0
    MaxCrashes = 0
SPECIFICATION Spec
INVARIANTS
    OomMeansMemory
