-------------------------- MODULE MCDockerSandbox ---------------------------
(* Instances of DockerSandbox for TLC.                                     *)
EXTENDS DockerSandbox

\* A language whose timeout is one or two ticks.
Range12 == [min |-> 1, max |-> 2]

\* One whose timeout reaches past the reaper's age limit.
Range15 == [min |-> 1, max |-> 5]

AllFates == ProgramFates
OnlyExit0 == {Exit0}
=============================================================================
