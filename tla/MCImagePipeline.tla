-------------------------- MODULE MCImagePipeline ---------------------------
(* Instances of ImagePipeline for TLC.                                     *)
EXTENDS ImagePipeline

CONSTANTS l1, l2

\* Only the first language's sources change.
MCRev == [l \in {l1, l2} |-> IF l = l1 THEN 2 ELSE 1]
=============================================================================
