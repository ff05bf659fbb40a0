\* Two languages with a version each; the sources of one change.
CONSTANTS
    l1 = l1
    l2 = l2
    Langs = {l1, l2}
    Vers = {v1}
    MaxRev <- MCRev
    Reverts = FALSE
    Forces = FALSE
SPECIFICATION Spec
INVARIANTS
    TypeOK
    RegistryBuildable
    BuildSkipSound
    MakeExportsCurrent
    SkippedRootfsWhole
PROPERTIES
    NothingDropped
