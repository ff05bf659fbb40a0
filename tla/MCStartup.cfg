CONSTANTS
    Cgroups = {"own", "given"}
    Own = "own"
    NoCgroup = ""
    Registries <- MCRegistries
    Environments <- MCEnvironments
    NumCPU = 1
SPECIFICATION FairSpec
INVARIANTS
    TypeOK
    ReadyIsComplete
    CgroupSound
PROPERTIES
    Decided
CHECK_DEADLOCK FALSE
