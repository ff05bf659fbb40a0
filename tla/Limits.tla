------------------------------- MODULE Limits -------------------------------
(***************************************************************************)
(* The way of a limit: an operator configures a language in whole seconds  *)
(* and MiB (imagespec.Limits), the backend resolves and validates it when  *)
(* the daemon starts (limits.go), GET /info advertises it (api.go), a      *)
(* request is checked against it (validateExecuteRequestBasic and          *)
(* validateLimits), and the backend clamps the request once more and turns *)
(* it into the units of Docker (getHostConfig) and of nsjail               *)
(* (writeNsjailConfig).  Four pieces of code that have to agree.  Under    *)
(* nsjail a compiled language has a second tier, compile_limits, which no  *)
(* request can change and which caps the jail of the build.                *)
(*                                                                         *)
(* int64 is scaled down to -Half..Half-1 and the units with it, so that    *)
(* products wrap on small numbers.  A float64 is NaN, an infinity, or a    *)
(* number counted in units of the CPU quota; a number of CPUs whose quota  *)
(* does not fit in int64 is left out.                                      *)
(***************************************************************************)
EXTENDS Integers, LimitRules

CONSTANTS
    Half,                   \* 2^63 in the code
    Second, MiB,            \* time.Second and 1024*1024 in their units
    Milli,                  \* 10^6: nsjail counts a CPU in milliseconds per second
    MinTimeout, MaxTimeout, \* package defaults, in time units
    MinMemoryBytes, MaxMemoryBytes,
    MaxPids, DefaultMaxCPUs, DefaultSize,
    Seconds, Mebibytes,     \* what an operator may write in a range
    Counts, Cpus,           \* ... for max_pids and the sizes, and for max_cpus
    Declared,               \* the configurations that are tried
    ReqSeconds, ReqBytes    \* what a request may ask for

Num(n) == [kind |-> "num", n |-> n]
NaN    == [kind |-> "nan", n |-> 0]
Inf    == [kind |-> "inf", n |-> 0]

ASSUME UnitAssumption ==
    /\ Half \in Nat \ {0}
    /\ Second \in 1..(Half - 1)
    /\ MiB \in 1..(Half - 1)
    /\ Milli \in Nat \ {0}
ASSUME DefaultAssumption ==
    /\ MinTimeout \in 1..MaxTimeout /\ MaxTimeout \in 1..(Half - 1)
    /\ MinMemoryBytes \in MiB..MaxMemoryBytes /\ MaxMemoryBytes \in 1..(Half - 1)
    /\ MaxPids \in 1..(Half - 1)
    /\ DefaultMaxCPUs \in 1..(Half - 1)
    /\ DefaultSize \in 1..(Half - 1) /\ DefaultSize * MiB < Half
Configs == [minTimeout : Seconds, maxTimeout : Seconds,
            minMemory : Mebibytes, maxMemory : Mebibytes,
            pids : Counts, cpus : Cpus, size : Counts,
            compile : [timeout : Seconds, memory : Mebibytes,
                       pids : Counts, cpus : Cpus, size : Counts]]

ASSUME InputAssumption ==
    /\ Declared \subseteq Configs
    /\ Seconds \subseteq Int /\ Mebibytes \subseteq Int /\ Counts \subseteq Int
    /\ Cpus \subseteq {NaN, Inf} \cup {Num(n) : n \in -Half..(Half - 1)}
    /\ ReqSeconds \subseteq Int /\ ReqBytes \subseteq -Half..(Half - 1)

VARIABLES
    phase,      \* "start", "refused" (the daemon does not start) or "ready"
    backend,    \* "docker" or "nsjail"
    conf,       \* the language's configured limits
    limits,     \* LangLimits
    compileLimits, \* LangCompileLimits, which only nsjail resolves
    reply,      \* "none", "bad_request" or "run": the last request
    req,        \* the last request
    enforced    \* what the backend enforces for it

vars == <<phase, backend, conf, limits, compileLimits, reply, req, enforced>>

\* int64 and its arithmetic.
Int64 == -Half..(Half - 1)
Wrap(n) == ((n + Half) % (2 * Half)) - Half

\* n units do not fit.
Overflows(n, unit) == Wrap(n * unit) # n * unit

\* A mistake: an unset minimum is the package floor, whatever the maximum.
ResolveNoClamp(c) ==
    LET range(min, max, floor, ceiling) ==
            [min |-> valueWithDefault(min, floor), max |-> valueWithDefault(max, ceiling)]
    IN  [timeout |-> range(Wrap(c.minTimeout * Second), Wrap(c.maxTimeout * Second),
                           MinTimeout, MaxTimeout),
         memory  |-> range(Wrap(c.minMemory * MiB), Wrap(c.maxMemory * MiB),
                           MinMemoryBytes, MaxMemoryBytes),
         pids    |-> valueWithDefault(c.pids, MaxPids),
         cpus    |-> IF c.cpus = Num(0) THEN Num(DefaultMaxCPUs) ELSE c.cpus,
         size    |-> Wrap(valueWithDefault(c.size, DefaultSize) * MiB)]

\* resolveLangLimits.  The two sizes are resolved alike; size is either.
resolveLangLimits(c) ==
    [timeout |-> ResolveRange(Wrap(c.minTimeout * Second), Wrap(c.maxTimeout * Second),
                              MinTimeout, MaxTimeout),
     memory  |-> ResolveRange(Wrap(c.minMemory * MiB), Wrap(c.maxMemory * MiB),
                              MinMemoryBytes, MaxMemoryBytes),
     pids    |-> valueWithDefault(c.pids, MaxPids),
     cpus    |-> IF c.cpus = Num(0) THEN Num(DefaultMaxCPUs) ELSE c.cpus,
     size    |-> Wrap(valueWithDefault(c.size, DefaultSize) * MiB)]

\* A mistake: MaxCPUs <= 0 is all that is rejected, and NaN is not <= 0.
ValidBareComparison(l) ==
    /\ ValidRange(l.timeout)
    /\ ValidRange(l.memory)
    /\ l.pids >= 1
    /\ l.cpus.kind = "num" => l.cpus.n > 0
    /\ l.size > 0

\* validateLangLimits; no comparison with NaN is true.
validateLangLimits(l) ==
    /\ ValidRange(l.timeout)
    /\ ValidRange(l.memory)
    /\ l.pids >= 1
    /\ l.cpus.kind = "num" /\ l.cpus.n > 0
    /\ l.size > 0

\* A mistake: an unset limit of the build is left at zero.
ResolveCompileUnset(c) ==
    [timeout |-> Wrap(c.timeout * Second),
     memory  |-> Wrap(c.memory * MiB),
     pids    |-> valueWithDefault(c.pids, MaxPids),
     cpus    |-> IF c.cpus = Num(0) THEN Num(DefaultMaxCPUs) ELSE c.cpus,
     size    |-> Wrap(valueWithDefault(c.size, DefaultSize) * MiB)]

\* resolveLangCompileLimits: a value instead of a range.
resolveLangCompileLimits(c) ==
    [timeout |-> valueWithDefault(Wrap(c.timeout * Second), MaxTimeout),
     memory  |-> valueWithDefault(Wrap(c.memory * MiB), MaxMemoryBytes),
     pids    |-> valueWithDefault(c.pids, MaxPids),
     cpus    |-> IF c.cpus = Num(0) THEN Num(DefaultMaxCPUs) ELSE c.cpus,
     size    |-> Wrap(valueWithDefault(c.size, DefaultSize) * MiB)]

validateLangCompileLimits(l) ==
    /\ l.timeout >= 0 /\ l.memory >= 0
    /\ l.pids >= 1
    /\ l.cpus.kind = "num" /\ l.cpus.n > 0
    /\ l.size > 0

\* math.Ceil of a quotient.
CeilDiv(n, unit) == (n + unit - 1) \div unit

\* writeNsjailConfig for the build stage.
BuildJail(l) ==
    [timeLimit   |-> CeilDiv(l.timeout, Second),
     memMax      |-> l.memory,
     rlimitAs    |-> l.memory \div MiB,
     pidsMax     |-> l.pids,
     cpuMsPerSec |-> CeilDiv(l.cpus.n, Milli),
     size        |-> l.size]

\* int64(math.Ceil(MaxCPUs * 1e9)): what does not fit is left to the machine.
ToQuota(x) == IF x.kind = "num" THEN {x.n} ELSE {-Half, Half - 1}

\* A mistake: only the maximum is checked.
AcceptedBelowMin(t, m, l) ==
    /\ t >= 0 /\ m >= 0
    /\ Wrap(t * Second) <= l.timeout.max
    /\ m <= l.memory.max

\* validateExecuteRequestBasic on the two numbers, then validateLimits.
Accepted(t, m, l) ==
    /\ t >= 0 /\ m >= 0
    /\ t # 0 => l.timeout.min <= Wrap(t * Second) /\ Wrap(t * Second) <= l.timeout.max
    /\ m # 0 => l.memory.min <= m /\ m <= l.memory.max

\* A mistake: seconds are advertised rounded up.
InfoRoundedUp(l) ==
    [timeout |-> [min |-> l.timeout.min \div Second + 1,
                  max |-> l.timeout.max \div Second + 1],
     memory  |-> l.memory]

\* toLanguageInfoResponses: seconds are cut to whole ones.
Info(l) ==
    [timeout |-> [min |-> l.timeout.min \div Second,
                  max |-> l.timeout.max \div Second],
     memory  |-> l.memory]
-----------------------------------------------------------------------------
NoLimits ==
    [timeout |-> [min |-> 0, max |-> 0], memory |-> [min |-> 0, max |-> 0],
     pids |-> 0, cpus |-> Num(0), size |-> 0]
NoCompileLimits == [timeout |-> 0, memory |-> 0, pids |-> 0, cpus |-> Num(0), size |-> 0]
NoReq      == [t |-> 0, m |-> 0]
NoEnforced == [timeout |-> 0, memory |-> 0, pids |-> 0, quota |-> 0, rlimitAs |-> 0]

Init ==
    /\ phase = "start"
    /\ backend \in {"docker", "nsjail"}
    /\ conf \in Declared
    /\ limits = NoLimits
    /\ compileLimits = NoCompileLimits
    /\ reply = "none"
    /\ req = NoReq
    /\ enforced = NoEnforced

\* NewDockerSandbox on one language.
LoadDocker ==
    /\ phase = "start" /\ backend = "docker"
    /\ limits' = resolveLangLimits(conf)
    /\ phase' = IF validateLangLimits(limits') THEN "ready" ELSE "refused"
    /\ UNCHANGED <<backend, conf, compileLimits, reply, req, enforced>>

\* NewNsjailSandbox on one language.
LoadNsjail ==
    /\ phase = "start" /\ backend = "nsjail"
    /\ limits' = resolveLangLimits(conf)
    /\ compileLimits' = resolveLangCompileLimits(conf.compile)
    /\ phase' = IF validateLangLimits(limits') /\ validateLangCompileLimits(compileLimits')
                 THEN "ready" ELSE "refused"
    /\ UNCHANGED <<backend, conf, reply, req, enforced>>

Load == LoadDocker \/ LoadNsjail

\* handleExecute refuses the request.
Refuse ==
    /\ phase = "ready"
    /\ \E t \in ReqSeconds, m \in ReqBytes :
          /\ ~Accepted(t, m, limits)
          /\ req' = [t |-> t, m |-> m]
    /\ reply' = "bad_request"
    /\ enforced' = NoEnforced
    /\ UNCHANGED <<phase, backend, conf, limits, compileLimits>>

\* handleExecute calls Run: effective values, in the units of the backends.
Execute ==
    /\ phase = "ready"
    /\ \E t \in ReqSeconds, m \in ReqBytes, quota \in ToQuota(limits.cpus) :
          LET mem == effectiveMemoryBytes(m, limits.memory)
          IN  /\ Accepted(t, m, limits)
              /\ req' = [t |-> t, m |-> m]
              /\ enforced' = [timeout  |-> effectiveTimeout(Wrap(t * Second), limits.timeout),
                              memory   |-> mem,
                              pids     |-> limits.pids,
                              quota    |-> quota,
                              rlimitAs |-> mem \div MiB]
    /\ reply' = "run"
    /\ UNCHANGED <<phase, backend, conf, limits, compileLimits>>

Next == Load \/ Refuse \/ Execute

Spec == Init /\ [][Next]_vars
-----------------------------------------------------------------------------
(* Properties.                                                             *)

\* The type of the state: a language is ready only with limits that were
\* resolved from its configuration, and nothing negative is enforced.
TypeOK ==
    /\ phase \in {"start", "refused", "ready"}
    /\ backend \in {"docker", "nsjail"}
    /\ conf \in Configs
    /\ limits \in [timeout : [min : Int64, max : Int64],
                   memory : [min : Int64, max : Int64],
                   pids : Int, cpus : {NaN, Inf} \cup {Num(n) : n \in Int64},
                   size : Int64]
    /\ compileLimits \in [timeout : Int64, memory : Int64, pids : Int,
                          cpus : {NaN, Inf} \cup {Num(n) : n \in Int64}, size : Int64]
    /\ reply \in {"none", "bad_request", "run"}
    /\ req \in [t : ReqSeconds \cup {0}, m : ReqBytes \cup {0}]
    /\ enforced \in [timeout : 0..(Half - 1), memory : 0..(Half - 1), pids : Int,
                     quota : 0..(Half - 1), rlimitAs : Nat]

\* Under nsjail without cgroups the limit is rlimit_as in whole MiB: it does
\* not round to zero.  (A range whose products overflow is left out.)
RlimitPositive ==
    /\ reply = "run"
    /\ ~Overflows(conf.minMemory, MiB)
    /\ ~Overflows(conf.maxMemory, MiB)
    => enforced.rlimitAs >= 1

\* docs/authoring-languages.md:129: "there is no way to express 'no limit'".
\* Whatever is configured and asked for, a run has a positive timeout, memory
\* limit, process limit and CPU quota, within the language's maximum, and a
\* positive rlimit_as: to Docker and to nsjail a zero would mean none.
Capped ==
    /\ reply = "run" =>
         /\ enforced.timeout \in 1..limits.timeout.max
         /\ enforced.memory \in 1..limits.memory.max
         /\ enforced.pids >= 1
         /\ enforced.quota \in 1..(Half - 1)
    /\ RlimitPositive

\* The same of the jail that compiles: an operator who leaves compile_limits
\* out, or writes any value that passes validation, gets a build whose time,
\* memory, processes, CPU time and files are limited (nsjail takes 0 for no
\* limit), also where only rlimit_as in whole MiB holds the memory.
BuildCapped ==
    phase = "ready" /\ backend = "nsjail" =>
        LET jail == BuildJail(compileLimits)
        IN  /\ jail.timeLimit >= 1 /\ jail.memMax >= 1 /\ jail.pidsMax >= 1
            /\ jail.cpuMsPerSec >= 1 /\ jail.size >= 1
            /\ ~Overflows(conf.compile.memory, MiB) => jail.rlimitAs >= 1

\* A request that runs gets the seconds and the bytes it asked for: a value
\* outside the range is refused, never clamped (README.md:103-104 and
\* docs/authoring-languages.md:126 say clamped), and what validateLimits lets
\* through, effectiveTimeout and effectiveMemoryBytes do not change.  The one
\* exception is a timeout_seconds whose product with time.Second overflows
\* (api.go:160 and 185): it may land in the range by accident.
NoSilentClamp ==
    reply = "run" =>
        /\ req.t # 0 => \/ enforced.timeout = req.t * Second
                        \/ Overflows(req.t, Second)
        /\ req.m # 0 => enforced.memory = req.m

\* limits.go:51-55: setting only a low max does not trip the min <= max check.
\* The daemon refuses a language only for a value that was written: a negative
\* or non-finite one, or a minimum above the maximum; Docker never for
\* compile_limits, which it does not use.
RefusalExplained ==
    phase = "refused" =>
        \/ \E n \in {Wrap(conf.minTimeout * Second), Wrap(conf.maxTimeout * Second),
                     Wrap(conf.minMemory * MiB), Wrap(conf.maxMemory * MiB),
                     conf.pids, Wrap(conf.size * MiB)} : n < 0
        \/ conf.cpus.kind # "num" \/ conf.cpus.n < 0
        \/ conf.size # 0 /\ Wrap(conf.size * MiB) = 0
        \/ conf.minTimeout # 0 /\ limits.timeout.min > limits.timeout.max
        \/ conf.minMemory # 0 /\ limits.memory.min > limits.memory.max
        \/ /\ backend = "nsjail"
           /\ LET c == conf.compile
              IN  \/ \E n \in {Wrap(c.timeout * Second), Wrap(c.memory * MiB),
                               c.pids, Wrap(c.size * MiB)} : n < 0
                  \/ c.cpus.kind # "num" \/ c.cpus.n < 0
                  \/ c.size # 0 /\ Wrap(c.size * MiB) = 0

\* GET /info and POST /execute agree, although one counts in whole seconds
\* and the other in nanoseconds: what runs asked for values inside the
\* advertised ranges, unless its timeout_seconds overflowed on the way in, and
\* what is refused did not, unless the operator's own seconds overflowed (a
\* bound is then no whole number of seconds and is advertised cut to one).
InfoAgrees ==
    LET info == Info(limits)
        in(v, range) == v = 0 \/ (range.min <= v /\ v <= range.max)
    IN  /\ reply = "run" =>
               /\ in(req.t, info.timeout) \/ Overflows(req.t, Second)
               /\ in(req.m, info.memory)
        /\ /\ reply = "bad_request"
           /\ ~Overflows(conf.minTimeout, Second)
           /\ ~Overflows(conf.maxTimeout, Second)
           => ~(in(req.t, info.timeout) /\ in(req.m, info.memory))
=============================================================================
