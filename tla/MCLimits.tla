------------------------------ MODULE MCLimits ------------------------------
(* Constants for model checking Limits: a second is 3 units and a MiB 4,   *)
(* int64 is 10 bits wide; the defaults are 1..10 s and 64..256 MiB divided *)
(* down to 1..3 s and 2..4 MiB.  As 10^9 does not, a second does not       *)
(* divide 2^w, and a MiB does: 343 s wrap to 5 units, less than 2 s,       *)
(* 171 s to a negative time, and 256 MiB to nothing, that is to unset.     *)
EXTENDS Limits

MCHalf    == 512
MCSeconds == {-1, 0, 1, 5, 343}
MCMiB     == {-1, 0, 1, 5, 256}
MCCounts  == {-1, 0, 1, 256}
MCCpus    == {NaN, Inf, Num(-1), Num(0), Num(1), Num(3)}
MCReqSec  == {-1, 0, 1, 2, 5, 6, 171, 343}
MCReqByte == {-1, 0, 4, 8, 13, 20}

\* One of the two tiers is left to its defaults.
MCDeclared ==
    [minTimeout : MCSeconds, maxTimeout : MCSeconds, minMemory : MCMiB, maxMemory : MCMiB,
     pids : {-1, 0, 1}, cpus : MCCpus, size : {-1, 0, 256},
     compile : [timeout : {0}, memory : {0}, pids : {0}, cpus : {Num(0)}, size : {0}]]
    \cup
    [minTimeout : {0}, maxTimeout : {0}, minMemory : {0}, maxMemory : {0},
     pids : {0}, cpus : {Num(0)}, size : {0},
     compile : [timeout : MCSeconds, memory : MCMiB, pids : {-1, 0, 1},
                cpus : MCCpus, size : MCCounts]]
=============================================================================
