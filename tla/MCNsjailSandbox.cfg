SPECIFICATION FairSpec
CONSTANTS
    Runs = {r1}
    Requested = {0, 1, 2, 5}
    TimeoutRange <- MCTimeoutRange
    CompileTimeout = 2
    KillGrace = 2
    JailDelay = 1
    Fates <- JailFates
    MayHang = {r1}
    MaxFaulty = 1
    MaxCrashes = 1
INVARIANTS
    StatusTruthful
    TimeLimitReported
    BackstopOnlyForHung
PROPERTIES
    RunAfterBuild
    RunsEnd
    KeepsContract
