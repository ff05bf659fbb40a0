\* As MCImagePipeline, with export-rootfs --force.
CONSTANTS
    l1 = l1
    l2 = l2
    Langs = {l1, l2}
    Vers = {v1}
    MaxRev <- MCRev
    Reverts = FALSE
    Forces = TRUE
SPECIFICATION Spec
INVARIANT
    SkippedRootfsWhole
