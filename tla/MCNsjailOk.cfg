SPECIFICATION Spec
CONSTANTS
    Runs = {r1}
    Requested = {0, 1, 2, 5}
    TimeoutRange <- MCTimeoutRange
    CompileTimeout = 2
    KillGrace = 2
    JailDelay = 1
    Fates <- MCOrdinary
    MayHang = {}
    MaxFaulty = 1
    MaxCrashes = 0
INVARIANT
    OkMeansExitZero
