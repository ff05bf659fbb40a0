SPECIFICATION Spec
CONSTANTS
    Half <- MCHalf
    Second = 3
    MiB = 4
    Milli = 2
    MinTimeout = 3
    MaxTimeout = 9
    MinMemoryBytes = 8
    MaxMemoryBytes = 16
    MaxPids = 100
    DefaultMaxCPUs = 2
    DefaultSize = 10
    Seconds <- MCSeconds
    Mebibytes <- MCMiB
    Counts <- MCCounts
    Cpus <- MCCpus
    Declared <- MCDeclared
    ReqSeconds <- MCReqSec
    ReqBytes <- MCReqByte
INVARIANTS
    Capped
    BuildCapped
    NoSilentClamp
    RefusalExplained
    InfoAgrees
\* A language that is refused stops the daemon.
CHECK_DEADLOCK FALSE
