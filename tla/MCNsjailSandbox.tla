-------------------------- MODULE MCNsjailSandbox ---------------------------
(* Constants for model checking NsjailSandbox.                             *)
EXTENDS NsjailSandbox

MCTimeoutRange == [min |-> 1, max |-> 3]
MCOrdinary     == {Exit0, Exit1, Killed137}
=============================================================================
