\* One run, every end of its program, the reaper, failing calls and a crash.
CONSTANTS
    Runs = {r1}
    Requested = {0, 3}
    TimeoutRange <- Range12
    ReapMaxAge = 5
    StartDelay = 1
    StopDelay = 1
    StdinKinds = {"none", "fits", "large"}
    Fates <- AllFates
    MaxFaulty = 1
    MaxCrashes = 1
SPECIFICATION FairSpec
INVARIANTS
    LiveKeepsContainer
    StatusTruthful
    OrphansExplained
PROPERTIES
    RunsReturn
    ContainersRemoved
    KeepsContract
