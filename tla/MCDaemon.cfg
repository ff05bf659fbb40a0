\* Two requests for one slot, a place to wait, and two ticks of grace.
CONSTANTS
    Requests = {r1, r2}
    Size = 1
    Queue = 1
    Grace = 2
SPECIFICATION FairSpec
INVARIANTS
    TypeOK
    SlotMeansHandler
    CodesTruthful
    OnlyAuthorised
    ShutdownIsGraceful
PROPERTIES
    Stops
    OnlyClientsBlock
CHECK_DEADLOCK FALSE
