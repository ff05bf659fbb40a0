---------------------------- MODULE LimitsProofs ----------------------------
(***************************************************************************)
(* Proofs about Limits for every width of int64, every choice of units and *)
(* package defaults, and every configuration and request, products that    *)
(* wrap included; only InfoIsHonest needs defaults that are whole seconds. *)
(***************************************************************************)
EXTENDS Limits, TLAPS

\* A wrapped product is an int64.
LEMMA WrapInt64 == ASSUME NEW n \in Int PROVE Wrap(n) \in Int64
  <1>1. (n + Half) % (2 * Half) \in 0..(2 * Half - 1)
    BY UnitAssumption
  <1> QED
    BY <1>1, UnitAssumption DEF Wrap, Int64

\* A range that is resolved and valid has a positive maximum, and its minimum
\* is positive too.
LEMMA RangePositive ==
    ASSUME NEW min \in Int64, NEW max \in Int64,
           NEW ceiling \in 1..(Half - 1), NEW floor \in 1..ceiling,
           ValidRange(ResolveRange(min, max, floor, ceiling))
    PROVE  /\ ResolveRange(min, max, floor, ceiling).max \in 1..(Half - 1)
           /\ ResolveRange(min, max, floor, ceiling).min
                 \in 1..ResolveRange(min, max, floor, ceiling).max
  BY UnitAssumption DEF ValidRange, ResolveRange, valueWithDefault, Least, Int64

\* An effective value is positive and at most the maximum, and it is the
\* requested one if that is inside the range.
LEMMA EffectiveInRange ==
    ASSUME NEW range, range \in [min : Int64, max : Int64],
           range.max \in 1..(Half - 1), range.min \in 1..range.max,
           NEW v \in Int64
    PROVE  /\ effectiveTimeout(v, range) \in 1..range.max
           /\ effectiveMemoryBytes(v, range) = effectiveTimeout(v, range)
           /\ v > 0 => effectiveTimeout(v, range) >= range.min
           /\ v > 0 /\ range.min <= v /\ v <= range.max =>
                effectiveTimeout(v, range) = v
  BY UnitAssumption DEF effectiveTimeout, effectiveMemoryBytes, Greatest, Least, Int64

\* What resolveLangLimits makes of a configuration is typed.
LEMMA ResolveType ==
    ASSUME conf \in Configs
    PROVE  LET l == resolveLangLimits(conf)
           IN  /\ l \in [timeout : [min : Int64, max : Int64],
                         memory : [min : Int64, max : Int64],
                         pids : Int, cpus : {NaN, Inf} \cup {Num(n) : n \in Int64},
                         size : Int64]
  <1>1. /\ conf.minTimeout \in Int /\ conf.maxTimeout \in Int
        /\ conf.minMemory \in Int /\ conf.maxMemory \in Int
        /\ conf.pids \in Int /\ conf.size \in Int
    BY InputAssumption DEF Configs
  <1>2. conf.cpus \in {NaN, Inf} \cup {Num(n) : n \in Int64}
    BY InputAssumption DEF Configs, Int64
  <1>3. Second \in Int /\ MiB \in Int /\ DefaultSize \in Int
    BY UnitAssumption, DefaultAssumption
  <1>4. /\ conf.minTimeout * Second \in Int /\ conf.maxTimeout * Second \in Int
        /\ conf.minMemory * MiB \in Int /\ conf.maxMemory * MiB \in Int
        /\ valueWithDefault(conf.size, DefaultSize) * MiB \in Int
    BY <1>1, <1>3 DEF valueWithDefault
  <1>5. /\ Wrap(conf.minTimeout * Second) \in Int64
        /\ Wrap(conf.maxTimeout * Second) \in Int64
        /\ Wrap(conf.minMemory * MiB) \in Int64
        /\ Wrap(conf.maxMemory * MiB) \in Int64
        /\ Wrap(valueWithDefault(conf.size, DefaultSize) * MiB) \in Int64
    BY <1>4, WrapInt64
  <1>6. ASSUME NEW a \in Int64, NEW b \in Int64,
               NEW ceiling \in 1..(Half - 1), NEW floor \in 1..ceiling
        PROVE  ResolveRange(a, b, floor, ceiling) \in [min : Int64, max : Int64]
    BY UnitAssumption DEF ResolveRange, valueWithDefault, Least, Int64
  <1>7. DefaultMaxCPUs \in Int64 /\ MaxPids \in Int
    BY DefaultAssumption, UnitAssumption DEF Int64
  <1>8. /\ MaxTimeout \in 1..(Half - 1) /\ MinTimeout \in 1..MaxTimeout
        /\ MaxMemoryBytes \in 1..(Half - 1) /\ MinMemoryBytes \in 1..MaxMemoryBytes
    BY DefaultAssumption, UnitAssumption
  <1>9. /\ resolveLangLimits(conf).timeout \in [min : Int64, max : Int64]
        /\ resolveLangLimits(conf).memory \in [min : Int64, max : Int64]
    BY <1>5, <1>6, <1>8 DEF resolveLangLimits
  <1>10. resolveLangLimits(conf).pids \in Int
    BY <1>1, <1>7 DEF resolveLangLimits, valueWithDefault
  <1>11. resolveLangLimits(conf).cpus \in {NaN, Inf} \cup {Num(n) : n \in Int64}
    BY <1>2, <1>7 DEF resolveLangLimits
  <1>12. resolveLangLimits(conf).size \in Int64
    BY <1>5 DEF resolveLangLimits
  <1> QED
    BY <1>9, <1>10, <1>11, <1>12 DEF resolveLangLimits

\* The second tier is typed too.
LEMMA ResolveCompileType ==
    ASSUME conf \in Configs
    PROVE  resolveLangCompileLimits(conf.compile)
             \in [timeout : Int64, memory : Int64, pids : Int,
                  cpus : {NaN, Inf} \cup {Num(n) : n \in Int64}, size : Int64]
  <1> DEFINE c == conf.compile
             l == resolveLangCompileLimits(c)
  <1>1. c.timeout \in Int /\ c.memory \in Int /\ c.pids \in Int /\ c.size \in Int
    BY InputAssumption DEF Configs
  <1>2. c.cpus \in {NaN, Inf} \cup {Num(n) : n \in Int64}
    BY InputAssumption DEF Configs, Int64
  <1>3. Second \in Int /\ MiB \in Int /\ DefaultSize \in Int
    BY UnitAssumption, DefaultAssumption
  <1>4. /\ c.timeout * Second \in Int /\ c.memory * MiB \in Int
        /\ valueWithDefault(c.size, DefaultSize) * MiB \in Int
    BY <1>1, <1>3 DEF valueWithDefault
  <1>5. /\ Wrap(c.timeout * Second) \in Int64 /\ Wrap(c.memory * MiB) \in Int64
        /\ Wrap(valueWithDefault(c.size, DefaultSize) * MiB) \in Int64
    BY <1>4, WrapInt64
  <1>6. /\ MaxTimeout \in Int64 /\ MaxMemoryBytes \in Int64
        /\ DefaultMaxCPUs \in Int64 /\ MaxPids \in Int
    BY DefaultAssumption, UnitAssumption DEF Int64
  <1> HIDE DEF c
  <1>7. l.timeout \in Int64 /\ l.memory \in Int64 /\ l.pids \in Int
    BY <1>1, <1>5, <1>6 DEF resolveLangCompileLimits, valueWithDefault
  <1>8. l.cpus \in {NaN, Inf} \cup {Num(n) : n \in Int64}
    BY <1>2, <1>6 DEF resolveLangCompileLimits
  <1>9. l.size \in Int64
    BY <1>5 DEF resolveLangCompileLimits
  <1> QED
    BY <1>7, <1>8, <1>9 DEF resolveLangCompileLimits, c
-----------------------------------------------------------------------------
(* The invariant: a language that is ready was resolved and validated, so  *)
(* that its two ranges are positive; a request that runs was accepted by   *)
(* them.                                                                   *)

\* What a language's limits are once the daemon serves it.
Sound(l) ==
    /\ l.timeout.max \in 1..(Half - 1) /\ l.timeout.min \in 1..l.timeout.max
    /\ l.memory.max \in 1..(Half - 1) /\ l.memory.min \in 1..l.memory.max
    /\ l.pids >= 1
    /\ l.cpus.kind = "num" /\ l.cpus.n \in 1..(Half - 1)

\* No range of the configuration was wrapped.
Unwrapped ==
    /\ ~Overflows(conf.minMemory, MiB)
    /\ ~Overflows(conf.maxMemory, MiB)

LimitsInv ==
    /\ TypeOK
    /\ phase = "ready" => Sound(limits) /\ (Unwrapped => limits.memory.min >= MiB)
    /\ reply = "run" => phase = "ready"
    /\ Capped
    /\ NoSilentClamp
    /\ BuildCapped

\* A configuration that passes validateLangLimits is sound.
LEMMA ValidIsSound ==
    ASSUME conf \in Configs, validateLangLimits(resolveLangLimits(conf))
    PROVE  Sound(resolveLangLimits(conf))
  <1> DEFINE l == resolveLangLimits(conf)
  <1>0. Second \in Int /\ MiB \in Int
    BY UnitAssumption
  <1>1. /\ conf.minTimeout \in Int /\ conf.maxTimeout \in Int
        /\ conf.minMemory \in Int /\ conf.maxMemory \in Int
    BY InputAssumption DEF Configs
  <1>2. /\ conf.minTimeout * Second \in Int /\ conf.maxTimeout * Second \in Int
        /\ conf.minMemory * MiB \in Int /\ conf.maxMemory * MiB \in Int
    BY <1>0, <1>1
  <1>3. /\ Wrap(conf.minTimeout * Second) \in Int64
        /\ Wrap(conf.maxTimeout * Second) \in Int64
        /\ Wrap(conf.minMemory * MiB) \in Int64
        /\ Wrap(conf.maxMemory * MiB) \in Int64
    BY <1>2, WrapInt64
  <1>4. /\ MaxTimeout \in 1..(Half - 1) /\ MinTimeout \in 1..MaxTimeout
        /\ MaxMemoryBytes \in 1..(Half - 1) /\ MinMemoryBytes \in 1..MaxMemoryBytes
    BY DefaultAssumption, UnitAssumption
  <1>5. ValidRange(l.timeout) /\ ValidRange(l.memory)
    BY DEF validateLangLimits
  <1>6. l.timeout.max \in 1..(Half - 1) /\ l.timeout.min \in 1..l.timeout.max
    <2>1. l.timeout = ResolveRange(Wrap(conf.minTimeout * Second),
                                   Wrap(conf.maxTimeout * Second),
                                   MinTimeout, MaxTimeout)
      BY DEF resolveLangLimits
    <2> QED
      BY <1>3, <1>4, <1>5, <2>1, RangePositive
  <1>7. l.memory.max \in 1..(Half - 1) /\ l.memory.min \in 1..l.memory.max
    <2>1. l.memory = ResolveRange(Wrap(conf.minMemory * MiB),
                                  Wrap(conf.maxMemory * MiB),
                                  MinMemoryBytes, MaxMemoryBytes)
      BY DEF resolveLangLimits
    <2> QED
      BY <1>3, <1>4, <1>5, <2>1, RangePositive
  <1>8. l.cpus.kind = "num" /\ l.cpus.n > 0 /\ l.pids >= 1
    BY DEF validateLangLimits
  <1>9. l.cpus \in {NaN, Inf} \cup {Num(n) : n \in Int64}
    BY ResolveType
  <1>10. l.cpus.n \in 1..(Half - 1)
    BY <1>8, <1>9, UnitAssumption DEF NaN, Inf, Num, Int64
  <1> QED
    BY <1>6, <1>7, <1>8, <1>10 DEF Sound

\* A positive multiple of a unit is one unit at least.
LEMMA PositiveMultiple ==
    ASSUME NEW n \in Int, NEW unit \in Nat \ {0}, n * unit > 0
    PROVE  n * unit >= unit
  <1>1. n >= 1
    <2> SUFFICES ASSUME n <= 0 PROVE FALSE
      OBVIOUS
    <2>1. n * unit <= 0 * unit
      BY Z3
    <2> QED
      BY <2>1
  <1>2. PICK k \in Nat : n = k + 1
    BY <1>1
  <1>3. n * unit = k * unit + unit
    BY <1>2
  <1>4. k * unit >= 0
    BY Z3
  <1> QED
    BY <1>3, <1>4

\* Its smallest memory limit is a MiB at least, if no product wrapped.
LEMMA MemoryAtLeastMiB ==
    ASSUME conf \in Configs, Unwrapped, ValidRange(resolveLangLimits(conf).memory)
    PROVE  resolveLangLimits(conf).memory.min >= MiB
  <1>0. conf.minMemory \in Int /\ conf.maxMemory \in Int
    BY InputAssumption DEF Configs
  <1>1. /\ MiB \in Nat \ {0}
        /\ MaxMemoryBytes \in Int /\ MinMemoryBytes \in Int
        /\ MinMemoryBytes >= MiB /\ MaxMemoryBytes >= MinMemoryBytes
    BY UnitAssumption, DefaultAssumption
  <1> DEFINE lo == conf.minMemory * MiB
             hi == conf.maxMemory * MiB
  <1>2. lo \in Int /\ hi \in Int
    BY <1>0, <1>1
  <1>3. (lo > 0 => lo >= MiB) /\ (hi > 0 => hi >= MiB)
    BY <1>0, <1>1, PositiveMultiple
  <1>4. resolveLangLimits(conf).memory =
          ResolveRange(lo, hi, MinMemoryBytes, MaxMemoryBytes)
    BY DEF resolveLangLimits, Unwrapped, Overflows
  <1> HIDE DEF lo, hi
  <1> QED
    BY <1>1, <1>2, <1>3, <1>4 DEF ResolveRange, ValidRange, valueWithDefault, Least

\* A quotient of a number by a unit it reaches is positive.
LEMMA WholeUnits ==
    ASSUME NEW n \in Nat, NEW unit \in Nat \ {0}, n >= unit
    PROVE  n \div unit \in Nat /\ n \div unit >= 1
  OBVIOUS

\* Rounding up never gives zero.
LEMMA CeilPositive ==
    ASSUME NEW n \in Nat \ {0}, NEW unit \in Nat \ {0}
    PROVE  CeilDiv(n, unit) >= 1
  <1>1. n + unit - 1 \in Nat /\ n + unit - 1 >= unit
    OBVIOUS
  <1> QED
    BY <1>1, WholeUnits DEF CeilDiv

\* A second tier that passes validateLangCompileLimits caps the build.
LEMMA ValidBuildIsCapped ==
    ASSUME conf \in Configs,
           validateLangCompileLimits(resolveLangCompileLimits(conf.compile))
    PROVE  LET jail == BuildJail(resolveLangCompileLimits(conf.compile))
           IN  /\ jail.timeLimit >= 1 /\ jail.memMax >= 1 /\ jail.pidsMax >= 1
               /\ jail.cpuMsPerSec >= 1 /\ jail.size >= 1
               /\ ~Overflows(conf.compile.memory, MiB) => jail.rlimitAs >= 1
  <1> DEFINE c == conf.compile
             l == resolveLangCompileLimits(c)
             jail == BuildJail(l)
  <1>1. l \in [timeout : Int64, memory : Int64, pids : Int,
               cpus : {NaN, Inf} \cup {Num(n) : n \in Int64}, size : Int64]
    BY ResolveCompileType
  <1>2. /\ l.timeout >= 0 /\ l.memory >= 0 /\ l.pids >= 1
        /\ l.cpus.kind = "num" /\ l.cpus.n > 0 /\ l.size > 0
    BY DEF validateLangCompileLimits
  <1>3. MaxTimeout # 0 /\ MaxMemoryBytes # 0
    BY DefaultAssumption
  <1>4. l.timeout # 0 /\ l.memory # 0
    BY <1>3 DEF resolveLangCompileLimits, valueWithDefault
  <1>5. /\ Second \in Nat \ {0} /\ MiB \in Nat \ {0} /\ Milli \in Nat \ {0}
        /\ Half \in Nat
    BY UnitAssumption
  <1>6. l.timeout \in Nat \ {0} /\ l.memory \in Nat \ {0} /\ l.size >= 1
    BY <1>1, <1>2, <1>4, <1>5 DEF Int64
  <1>7. l.cpus.n \in Nat \ {0}
    <2> DEFINE x == l.cpus
    <2>1. x \in {NaN, Inf} \cup {Num(n) : n \in Int64}
      BY <1>1
    <2>2. x.kind = "num" /\ x.n > 0
      BY <1>2
    <2> HIDE DEF x
    <2>3. x.n \in Nat \ {0}
      BY <1>5, <2>1, <2>2 DEF Int64, NaN, Inf, Num
    <2> QED
      BY <2>3 DEF x
  <1>8. ~Overflows(c.memory, MiB) => l.memory >= MiB
    <2> SUFFICES ASSUME Wrap(c.memory * MiB) = c.memory * MiB PROVE l.memory >= MiB
      BY DEF Overflows
    <2>1. c.memory \in Int
      BY InputAssumption DEF Configs
    <2> DEFINE p == c.memory * MiB
    <2>2. p \in Int /\ (p > 0 => p >= MiB)
      BY <2>1, <1>5, PositiveMultiple
    <2>3. l.memory = IF p = 0 THEN MaxMemoryBytes ELSE p
      BY DEF resolveLangCompileLimits, valueWithDefault
    <2>4. MaxMemoryBytes \in Int /\ MaxMemoryBytes >= MiB
      BY DefaultAssumption, UnitAssumption
    <2> HIDE DEF p
    <2> QED
      BY <1>6, <2>2, <2>3, <2>4
  <1> HIDE DEF l
  <1>9. /\ jail.timeLimit = CeilDiv(l.timeout, Second) /\ jail.memMax = l.memory
        /\ jail.rlimitAs = l.memory \div MiB /\ jail.pidsMax = l.pids
        /\ jail.cpuMsPerSec = CeilDiv(l.cpus.n, Milli) /\ jail.size = l.size
    BY DEF BuildJail
  <1>10. jail.timeLimit >= 1 /\ jail.cpuMsPerSec >= 1
    BY <1>5, <1>6, <1>7, <1>9, CeilPositive
  <1>11. jail.memMax >= 1 /\ jail.pidsMax >= 1 /\ jail.size >= 1
    BY <1>2, <1>6, <1>9
  <1>12. l.memory >= MiB => jail.rlimitAs >= 1
    BY <1>5, <1>6, <1>9, WholeUnits
  <1> QED
    BY <1>8, <1>10, <1>11, <1>12 DEF l

\* Nothing runs before the language is loaded.
LEMMA LimitsInit == Init => LimitsInv
  <1> SUFFICES ASSUME Init PROVE LimitsInv
    OBVIOUS
  <1>1. TypeOK
    BY UnitAssumption, InputAssumption
       DEF Init, TypeOK, NoLimits, NoCompileLimits, NoReq, NoEnforced, Int64, Num
  <1> QED
    BY <1>1 DEF Init, LimitsInv, Capped, NoSilentClamp, RlimitPositive, BuildCapped

\* The steps that resolve and validate.
LEMMA LimitsLoad == LimitsInv /\ Load => LimitsInv'
  <1> SUFFICES ASSUME LimitsInv, Load PROVE LimitsInv'
    OBVIOUS
  <1>1. /\ conf \in Configs /\ conf' = conf /\ reply' = reply /\ backend' = backend
        /\ req' = req /\ enforced' = enforced /\ limits' = resolveLangLimits(conf)
        /\ phase = "start" /\ phase' \in {"ready", "refused"}
        /\ phase' = "ready" => validateLangLimits(limits')
    BY DEF LimitsInv, TypeOK, Load, LoadDocker, LoadNsjail
  <1>2. reply # "run"
    BY <1>1 DEF LimitsInv
  <1>3. \/ compileLimits' = compileLimits /\ backend = "docker"
        \/ /\ compileLimits' = resolveLangCompileLimits(conf.compile)
           /\ phase' = "ready" => validateLangCompileLimits(compileLimits')
    BY DEF Load, LoadDocker, LoadNsjail
  <1>4. TypeOK'
    BY <1>1, <1>3, ResolveType, ResolveCompileType DEF LimitsInv, TypeOK
  <1>5. phase' = "ready" => Sound(limits')
    BY <1>1, ValidIsSound
  <1>6. Unwrapped' <=> Unwrapped
    BY <1>1 DEF Unwrapped, Overflows, Wrap
  <1>7. phase' = "ready" /\ Unwrapped => limits'.memory.min >= MiB
    BY <1>1, MemoryAtLeastMiB DEF validateLangLimits
  <1>8. BuildCapped'
    <2> SUFFICES ASSUME phase' = "ready", backend' = "nsjail" PROVE BuildCapped'
      BY DEF BuildCapped
    <2>1. /\ compileLimits' = resolveLangCompileLimits(conf.compile)
          /\ validateLangCompileLimits(resolveLangCompileLimits(conf.compile))
      BY <1>1, <1>3
    <2> QED
      BY <1>1, <2>1, ValidBuildIsCapped DEF BuildCapped, Overflows, Wrap
  <1> QED
    BY <1>1, <1>2, <1>4, <1>5, <1>6, <1>7, <1>8
       DEF LimitsInv, Capped, NoSilentClamp, RlimitPositive

\* A quotient of naturals is a natural.
LEMMA QuotientNat ==
    ASSUME NEW n \in Nat, NEW unit \in Nat \ {0}
    PROVE  n \div unit \in Nat
  OBVIOUS

\* The step that lets a request run.
LEMMA LimitsExecute == LimitsInv /\ Execute => LimitsInv'
  <1> SUFFICES ASSUME LimitsInv, Execute PROVE LimitsInv'
    OBVIOUS
  <1> DEFINE T(t) == effectiveTimeout(Wrap(t * Second), limits.timeout)
             M(m) == effectiveMemoryBytes(m, limits.memory)
  <1>1. PICK t \in ReqSeconds, m \in ReqBytes, quota \in ToQuota(limits.cpus) :
           /\ Accepted(t, m, limits)
           /\ req' = [t |-> t, m |-> m]
           /\ enforced' = [timeout |-> T(t), memory |-> M(m), pids |-> limits.pids,
                           quota |-> quota, rlimitAs |-> M(m) \div MiB]
    BY DEF Execute
  <1>2. /\ phase = "ready" /\ phase' = "ready" /\ reply' = "run"
        /\ conf' = conf /\ limits' = limits
        /\ backend' = backend /\ compileLimits' = compileLimits
    BY DEF Execute
  <1>3. TypeOK /\ Sound(limits) /\ (Unwrapped => limits.memory.min >= MiB)
    BY <1>2 DEF LimitsInv
  <1>4. /\ limits.timeout \in [min : Int64, max : Int64]
        /\ limits.memory \in [min : Int64, max : Int64]
        /\ limits.pids \in Int
    BY <1>3 DEF TypeOK
  <1>5. t \in Int /\ m \in Int64
    BY InputAssumption DEF Int64
  <1>6. Wrap(t * Second) \in Int64
    <2>1. t * Second \in Int
      BY <1>5, UnitAssumption
    <2> QED
      BY <2>1, WrapInt64
  <1>7. /\ T(t) \in 1..limits.timeout.max
        /\ t # 0 => T(t) = Wrap(t * Second)
    <2>1. T(t) \in 1..limits.timeout.max
      BY <1>3, <1>4, <1>6, EffectiveInRange DEF Sound
    <2>2. t # 0 => /\ limits.timeout.min <= Wrap(t * Second)
                   /\ Wrap(t * Second) <= limits.timeout.max
      BY <1>1 DEF Accepted
    <2>3. t # 0 => Wrap(t * Second) > 0
      BY <2>2, <1>3, <1>4, <1>6, UnitAssumption DEF Sound, Int64
    <2> QED
      BY <2>1, <2>2, <2>3, <1>3, <1>4, <1>6, EffectiveInRange DEF Sound
  <1>8. /\ M(m) \in 1..limits.memory.max
        /\ m # 0 => M(m) = m
    <2>1. M(m) \in 1..limits.memory.max
      BY <1>3, <1>4, <1>5, EffectiveInRange DEF Sound
    <2>2. m # 0 => limits.memory.min <= m /\ m <= limits.memory.max
      BY <1>1 DEF Accepted
    <2>3. m # 0 => m > 0
      BY <2>2, <1>3, <1>4, <1>5, UnitAssumption DEF Sound, Int64
    <2> QED
      BY <2>1, <2>2, <2>3, <1>3, <1>4, <1>5, EffectiveInRange DEF Sound
  <1>9. quota \in 1..(Half - 1)
    BY <1>1, <1>3 DEF Sound, ToQuota
  <1>10. M(m) \div MiB \in Nat /\ (Unwrapped => M(m) \div MiB >= 1)
    <2>1. M(m) \in Nat /\ MiB \in Nat \ {0}
      BY <1>3, <1>8, UnitAssumption DEF Sound
    <2>2. Unwrapped => M(m) >= MiB
      <3>1. CASE m = 0
        <4>1. M(m) = limits.memory.max
          BY <3>1 DEF effectiveMemoryBytes
        <4> QED
          BY <4>1, <1>3, <2>1, UnitAssumption DEF Sound
      <3>2. CASE m # 0
        BY <3>2, <1>1, <1>3, <1>5, <1>8, UnitAssumption DEF Accepted, Sound, Int64
      <3> QED
        BY <3>1, <3>2
    <2> HIDE DEF M
    <2>3. M(m) \div MiB \in Nat
      BY <2>1, QuotientNat
    <2>4. M(m) >= MiB => M(m) \div MiB >= 1
      BY <2>1, WholeUnits
    <2> QED
      BY <2>2, <2>3, <2>4
  <1> HIDE DEF T, M
  <1>11. TypeOK'
    <2>1. req' \in [t : ReqSeconds \cup {0}, m : ReqBytes \cup {0}]
      BY <1>1
    <2>2. /\ T(t) \in 0..(Half - 1) /\ M(m) \in 0..(Half - 1)
          /\ quota \in 0..(Half - 1)
      BY <1>3, <1>7, <1>8, <1>9, UnitAssumption DEF Sound
    <2>3. enforced' \in [timeout : 0..(Half - 1), memory : 0..(Half - 1), pids : Int,
                         quota : 0..(Half - 1), rlimitAs : Nat]
      BY <1>1, <1>4, <1>10, <2>2
    <2> QED
      BY <1>2, <1>3, <2>1, <2>3 DEF TypeOK
  <1>12. RlimitPositive'
    BY <1>1, <1>2, <1>10 DEF RlimitPositive, Unwrapped, Overflows, Wrap
  <1>13. Capped'
    BY <1>1, <1>2, <1>3, <1>7, <1>8, <1>9, <1>12 DEF Capped, Sound
  <1>14. NoSilentClamp'
    <2>1. \/ t = 0
          \/ T(t) = t * Second
          \/ Overflows(t, Second)
      BY <1>7 DEF Overflows
    <2>2. req'.t = t /\ enforced'.timeout = T(t) /\ req'.m = m /\ enforced'.memory = M(m)
      BY <1>1
    <2> QED
      BY <1>2, <1>8, <2>1, <2>2 DEF NoSilentClamp, Overflows, Wrap
  <1>15. BuildCapped'
    BY <1>2 DEF LimitsInv, BuildCapped, Overflows, Wrap
  <1> QED
    BY <1>2, <1>3, <1>11, <1>12, <1>13, <1>14, <1>15
       DEF LimitsInv, Unwrapped, Overflows, Wrap, Sound

\* Every step keeps the invariant.
LEMMA LimitsStep == LimitsInv /\ [Next]_vars => LimitsInv'
  <1> SUFFICES ASSUME LimitsInv, [Next]_vars PROVE LimitsInv'
    OBVIOUS
  <1>1. CASE Refuse
    <2>1. PICK t \in ReqSeconds, m \in ReqBytes : req' = [t |-> t, m |-> m]
      BY <1>1 DEF Refuse
    <2>2. TypeOK'
      BY <1>1, <2>1, UnitAssumption DEF Refuse, NoEnforced, LimitsInv, TypeOK
    <2> QED
      BY <1>1, <2>2 DEF Refuse, LimitsInv, Sound, Unwrapped, Overflows, Wrap, Capped,
                        NoSilentClamp, RlimitPositive, BuildCapped
  <1>2. CASE UNCHANGED vars
    BY <1>2 DEF vars, LimitsInv, TypeOK, Sound, Unwrapped, Overflows, Wrap, Capped,
                NoSilentClamp, RlimitPositive, BuildCapped
  <1> QED
    BY <1>1, <1>2, LimitsLoad, LimitsExecute DEF Next

\* The inductive invariant.
LEMMA LimitsCorrect == Spec => []LimitsInv
  BY LimitsInit, LimitsStep, PTL DEF Spec

\* Type correctness.
THEOREM TypeCorrect == Spec => []TypeOK
  BY LimitsCorrect, PTL DEF LimitsInv

\* No configuration and no request gives a run without a limit.
THEOREM AlwaysCapped == Spec => []Capped
  BY LimitsCorrect, PTL DEF LimitsInv

\* A request that is accepted runs with exactly the limits it asked for, in
\* true units, unless its own timeout_seconds overflowed.
THEOREM RequestsAreHonoured == Spec => []NoSilentClamp
  BY LimitsCorrect, PTL DEF LimitsInv

\* No compile_limits that pass validation leave the build without a limit.
THEOREM BuildAlwaysCapped == Spec => []BuildCapped
  BY LimitsCorrect, PTL DEF LimitsInv
-----------------------------------------------------------------------------
(* A language that is refused.                                             *)

\* What fits is not changed by the conversion.
LEMMA WrapSmall == ASSUME NEW n \in Int64 PROVE Wrap(n) = n
  <1>1. n + Half \in 0..(2 * Half - 1)
    BY UnitAssumption DEF Int64
  <1>2. (n + Half) % (2 * Half) = n + Half
    BY <1>1, UnitAssumption
  <1> QED
    BY <1>1, <1>2, UnitAssumption DEF Wrap, Int64

\* A range is invalid for a bound that was written.
LEMMA InvalidRange ==
    ASSUME NEW min \in Int64, NEW max \in Int64,
           NEW ceiling \in 1..(Half - 1), NEW floor \in 1..ceiling,
           ~ValidRange(ResolveRange(min, max, floor, ceiling))
    PROVE  LET range == ResolveRange(min, max, floor, ceiling)
           IN  min < 0 \/ max < 0 \/ (min # 0 /\ range.min > range.max)
  BY UnitAssumption DEF ValidRange, ResolveRange, valueWithDefault, Least, Int64

\* A number that was left out becomes its default.
LEMMA InvalidCount ==
    ASSUME NEW n \in Int, NEW default \in 1..(Half - 1), ~(valueWithDefault(n, default) >= 1)
    PROVE  n < 0
  BY UnitAssumption DEF valueWithDefault

\* So does a size, whose product with a MiB fits.
LEMMA InvalidSize ==
    ASSUME NEW n \in Int, ~(Wrap(valueWithDefault(n, DefaultSize) * MiB) > 0)
    PROVE  Wrap(n * MiB) < 0 \/ (n # 0 /\ Wrap(n * MiB) = 0)
  <1>1. MiB \in Int /\ DefaultSize \in Int /\ DefaultSize * MiB \in Int
    BY UnitAssumption, DefaultAssumption
  <1>2. CASE n = 0
    <2>1. DefaultSize * MiB > 0
      <3>1. DefaultSize \in Nat \ {0} /\ MiB \in Nat \ {0}
        BY UnitAssumption, DefaultAssumption
      <3> QED
        BY <3>1, Z3
    <2>2. DefaultSize * MiB \in Int64
      BY <1>1, <2>1, UnitAssumption, DefaultAssumption DEF Int64
    <2>3. Wrap(DefaultSize * MiB) = DefaultSize * MiB
      BY <2>2, WrapSmall
    <2>4. valueWithDefault(n, DefaultSize) = DefaultSize
      BY <1>2 DEF valueWithDefault
    <2> QED
      BY <1>1, <2>1, <2>3, <2>4
  <1>3. CASE n # 0
    <2>1. valueWithDefault(n, DefaultSize) = n
      BY <1>3 DEF valueWithDefault
    <2>2. Wrap(n * MiB) \in Int
      <3>1. n * MiB \in Int
        BY <1>1
      <3> QED
        BY <3>1, WrapInt64, UnitAssumption DEF Int64
    <2> DEFINE w == Wrap(n * MiB)
    <2>3. w \in Int /\ ~(w > 0)
      BY <2>1, <2>2
    <2> HIDE DEF w
    <2>4. w < 0 \/ w = 0
      BY <2>3
    <2> QED
      BY <1>3, <2>4 DEF w
  <1> QED
    BY <1>2, <1>3

\* And a number of CPUs.
LEMMA InvalidCpus ==
    ASSUME NEW x, x \in {NaN, Inf} \cup {Num(n) : n \in Int64},
           LET y == IF x = Num(0) THEN Num(DefaultMaxCPUs) ELSE x
           IN  ~(y.kind = "num" /\ y.n > 0)
    PROVE  x.kind # "num" \/ x.n < 0
  <1>1. DefaultMaxCPUs \in Int /\ DefaultMaxCPUs > 0
    BY DefaultAssumption, UnitAssumption
  <1>2. x # Num(0)
    BY <1>1 DEF Num
  <1>3. CASE x \in {NaN, Inf}
    BY <1>3 DEF NaN, Inf
  <1>4. ASSUME NEW n \in Int64, x = Num(n) PROVE x.kind # "num" \/ x.n < 0
    <2>1. n # 0 /\ ~(n > 0) /\ n \in Int
      BY <1>2, <1>4, UnitAssumption DEF Num, Int64
    <2> QED
      BY <1>4, <2>1 DEF Num
  <1> QED
    BY <1>3, <1>4

\* What is wrong with the limits of a run, or of a build, that are refused.
RunBlamed ==
    \/ \E n \in {Wrap(conf.minTimeout * Second), Wrap(conf.maxTimeout * Second),
                 Wrap(conf.minMemory * MiB), Wrap(conf.maxMemory * MiB),
                 conf.pids, Wrap(conf.size * MiB)} : n < 0
    \/ conf.cpus.kind # "num" \/ conf.cpus.n < 0
    \/ conf.size # 0 /\ Wrap(conf.size * MiB) = 0
    \/ conf.minTimeout # 0 /\ limits.timeout.min > limits.timeout.max
    \/ conf.minMemory # 0 /\ limits.memory.min > limits.memory.max

BuildBlamed ==
    LET c == conf.compile
    IN  \/ \E n \in {Wrap(c.timeout * Second), Wrap(c.memory * MiB),
                     c.pids, Wrap(c.size * MiB)} : n < 0
        \/ c.cpus.kind # "num" \/ c.cpus.n < 0
        \/ c.size # 0 /\ Wrap(c.size * MiB) = 0

\* validateLangLimits fails for a value that was written.
LEMMA InvalidIsBlamed ==
    ASSUME conf \in Configs, limits = resolveLangLimits(conf), ~validateLangLimits(limits)
    PROVE  RunBlamed
  <1> DEFINE a == Wrap(conf.minTimeout * Second)
             b == Wrap(conf.maxTimeout * Second)
             c == Wrap(conf.minMemory * MiB)
             d == Wrap(conf.maxMemory * MiB)
  <1>0. Second \in Int /\ MiB \in Int /\ Half \in Nat
    BY UnitAssumption
  <1>1. /\ conf.minTimeout \in Int /\ conf.maxTimeout \in Int
        /\ conf.minMemory \in Int /\ conf.maxMemory \in Int
        /\ conf.pids \in Int /\ conf.size \in Int
    BY InputAssumption DEF Configs
  <1>2. conf.cpus \in {NaN, Inf} \cup {Num(n) : n \in Int64}
    BY InputAssumption DEF Configs, Int64
  <1>3. a \in Int64 /\ b \in Int64 /\ c \in Int64 /\ d \in Int64
    <2>1. /\ conf.minTimeout * Second \in Int /\ conf.maxTimeout * Second \in Int
          /\ conf.minMemory * MiB \in Int /\ conf.maxMemory * MiB \in Int
      BY <1>0, <1>1
    <2> QED
      BY <2>1, WrapInt64
  <1>4. /\ MaxTimeout \in 1..(Half - 1) /\ MinTimeout \in 1..MaxTimeout
        /\ MaxMemoryBytes \in 1..(Half - 1) /\ MinMemoryBytes \in 1..MaxMemoryBytes
        /\ MaxPids \in 1..(Half - 1)
    BY DefaultAssumption, UnitAssumption
  <1>5. /\ limits.timeout = ResolveRange(a, b, MinTimeout, MaxTimeout)
        /\ limits.memory = ResolveRange(c, d, MinMemoryBytes, MaxMemoryBytes)
        /\ limits.pids = valueWithDefault(conf.pids, MaxPids)
        /\ limits.cpus = IF conf.cpus = Num(0) THEN Num(DefaultMaxCPUs) ELSE conf.cpus
        /\ limits.size = Wrap(valueWithDefault(conf.size, DefaultSize) * MiB)
    BY DEF resolveLangLimits
  <1>6. (a # 0 => conf.minTimeout # 0) /\ (c # 0 => conf.minMemory # 0)
    <2>1. Wrap(0) = 0
      BY WrapSmall, UnitAssumption DEF Int64
    <2>2. 0 * Second = 0 /\ 0 * MiB = 0
      BY <1>0
    <2> QED
      BY <2>1, <2>2
  <1> HIDE DEF a, b, c, d
  <1>7. CASE ~ValidRange(limits.timeout)
    <2>1. a < 0 \/ b < 0 \/ (a # 0 /\ limits.timeout.min > limits.timeout.max)
      BY <1>3, <1>4, <1>5, <1>7, InvalidRange
    <2> QED
      BY <1>6, <2>1 DEF RunBlamed, a, b
  <1>8. CASE ~ValidRange(limits.memory)
    <2>1. c < 0 \/ d < 0 \/ (c # 0 /\ limits.memory.min > limits.memory.max)
      BY <1>3, <1>4, <1>5, <1>8, InvalidRange
    <2> QED
      BY <1>6, <2>1 DEF RunBlamed, c, d
  <1>9. CASE ~(limits.pids >= 1)
    <2>1. conf.pids < 0
      BY <1>1, <1>4, <1>5, <1>9, InvalidCount
    <2> QED
      BY <2>1 DEF RunBlamed
  <1>10. CASE ~(limits.cpus.kind = "num" /\ limits.cpus.n > 0)
    <2>1. conf.cpus.kind # "num" \/ conf.cpus.n < 0
      BY <1>2, <1>5, <1>10, InvalidCpus
    <2> QED
      BY <2>1 DEF RunBlamed
  <1>11. CASE ~(limits.size > 0)
    <2>1. Wrap(conf.size * MiB) < 0 \/ (conf.size # 0 /\ Wrap(conf.size * MiB) = 0)
      BY <1>1, <1>5, <1>11, InvalidSize
    <2> QED
      BY <2>1 DEF RunBlamed
  <1> QED
    BY <1>7, <1>8, <1>9, <1>10, <1>11 DEF validateLangLimits

\* validateLangCompileLimits fails for a value that was written.
LEMMA InvalidBuildIsBlamed ==
    ASSUME conf \in Configs, ~validateLangCompileLimits(resolveLangCompileLimits(conf.compile))
    PROVE  BuildBlamed
  <1> DEFINE c == conf.compile
             l == resolveLangCompileLimits(c)
             t == Wrap(c.timeout * Second)
             m == Wrap(c.memory * MiB)
  <1>1. /\ c.timeout \in Int /\ c.memory \in Int /\ c.pids \in Int /\ c.size \in Int
    BY InputAssumption DEF Configs
  <1>2. c.cpus \in {NaN, Inf} \cup {Num(n) : n \in Int64}
    BY InputAssumption DEF Configs, Int64
  <1>3. t \in Int /\ m \in Int
    <2>1. c.timeout * Second \in Int /\ c.memory * MiB \in Int
      BY <1>1, UnitAssumption
    <2> QED
      BY <2>1, WrapInt64, UnitAssumption DEF Int64
  <1>4. /\ MaxTimeout \in Int /\ MaxTimeout > 0 /\ MaxMemoryBytes \in Int
        /\ MaxMemoryBytes > 0 /\ MaxPids \in 1..(Half - 1)
    BY DefaultAssumption, UnitAssumption
  <1>5. /\ l.timeout = valueWithDefault(t, MaxTimeout)
        /\ l.memory = valueWithDefault(m, MaxMemoryBytes)
        /\ l.pids = valueWithDefault(c.pids, MaxPids)
        /\ l.cpus = IF c.cpus = Num(0) THEN Num(DefaultMaxCPUs) ELSE c.cpus
        /\ l.size = Wrap(valueWithDefault(c.size, DefaultSize) * MiB)
    BY DEF resolveLangCompileLimits
  <1>6. ~validateLangCompileLimits(l)
    OBVIOUS
  <1> HIDE DEF l, t, m
  <1>7. CASE ~(l.timeout >= 0)
    <2>1. t < 0
      BY <1>3, <1>4, <1>5, <1>7 DEF valueWithDefault
    <2> QED
      BY <2>1 DEF BuildBlamed, t
  <1>8. CASE ~(l.memory >= 0)
    <2>1. m < 0
      BY <1>3, <1>4, <1>5, <1>8 DEF valueWithDefault
    <2> QED
      BY <2>1 DEF BuildBlamed, m
  <1>9. CASE ~(l.pids >= 1)
    <2>1. c.pids < 0
      BY <1>1, <1>4, <1>5, <1>9, InvalidCount
    <2> QED
      BY <2>1 DEF BuildBlamed
  <1>10. CASE ~(l.cpus.kind = "num" /\ l.cpus.n > 0)
    <2>1. c.cpus.kind # "num" \/ c.cpus.n < 0
      BY <1>2, <1>5, <1>10, InvalidCpus
    <2> QED
      BY <2>1 DEF BuildBlamed
  <1>11. CASE ~(l.size > 0)
    <2>1. Wrap(c.size * MiB) < 0 \/ (c.size # 0 /\ Wrap(c.size * MiB) = 0)
      BY <1>1, <1>5, <1>11, InvalidSize
    <2> QED
      BY <2>1 DEF BuildBlamed
  <1> QED
    BY <1>6, <1>7, <1>8, <1>9, <1>10, <1>11 DEF validateLangCompileLimits

\* A refused language stays as it was loaded.
Judged ==
    phase = "refused" =>
        /\ limits = resolveLangLimits(conf)
        /\ \/ ~validateLangLimits(limits)
           \/ /\ backend = "nsjail"
              /\ ~validateLangCompileLimits(resolveLangCompileLimits(conf.compile))

\* The daemon refuses a language for what an operator wrote about it, never
\* for what was left out, and with Docker never for compile_limits.
THEOREM RefusalsAreExplained == Spec => []RefusalExplained
  <1>1. Init => Judged
    BY DEF Init, Judged
  <1>2. Judged /\ [Next]_vars => Judged'
    <2> SUFFICES ASSUME Judged, [Next]_vars PROVE Judged'
      OBVIOUS
    <2>1. CASE LoadDocker
      BY <2>1 DEF LoadDocker, Judged
    <2>2. CASE LoadNsjail
      BY <2>2 DEF LoadNsjail, Judged
    <2>3. CASE Refuse \/ Execute
      BY <2>3 DEF Refuse, Execute, Judged
    <2>4. CASE UNCHANGED vars
      BY <2>4 DEF vars, Judged
    <2> QED
      BY <2>1, <2>2, <2>3, <2>4 DEF Next, Load
  <1>3. ASSUME TypeOK, Judged PROVE RefusalExplained
    <2> SUFFICES ASSUME phase = "refused" PROVE RefusalExplained
      BY DEF RefusalExplained
    <2>1. conf \in Configs
      BY <1>3 DEF TypeOK
    <2>2. RunBlamed \/ (backend = "nsjail" /\ BuildBlamed)
      BY <1>3, <2>1, InvalidIsBlamed, InvalidBuildIsBlamed DEF Judged
    <2> QED
      BY <2>2 DEF RunBlamed, BuildBlamed, RefusalExplained
  <1> QED
    BY <1>1, <1>2, <1>3, TypeCorrect, PTL DEF Spec
-----------------------------------------------------------------------------
(* What GET /info says.                                                    *)

\* The package defaults are whole seconds, as MinTimeout and MaxTimeout are in
\* limits.go.
WholeDefaults ==
    /\ \E i \in Nat : MinTimeout = i * Second
    /\ \E i \in Nat : MaxTimeout = i * Second

\* Multiples of a unit are ordered as their factors are.
LEMMA MultipleOrder ==
    ASSUME NEW i \in Int, NEW j \in Int, NEW unit \in Nat \ {0}
    PROVE  i * unit <= j * unit <=> i <= j
  <1>1. ASSUME i <= j PROVE i * unit <= j * unit
    <2>1. PICK k \in Nat : j = i + k
      <3>1. j - i \in Nat /\ j = i + (j - i)
        BY <1>1
      <3> QED
        BY <3>1
    <2>2. j * unit = i * unit + k * unit
      BY <2>1
    <2>3. k * unit >= 0 /\ k * unit \in Int /\ i * unit \in Int
      BY Z3
    <2> QED
      BY <2>2, <2>3
  <1>2. ASSUME j < i PROVE j * unit < i * unit
    <2>1. PICK k \in Nat : i = j + (k + 1)
      <3>1. i - j - 1 \in Nat /\ i = j + ((i - j - 1) + 1)
        BY <1>2
      <3> QED
        BY <3>1
    <2>2. i * unit = j * unit + k * unit + unit
      BY <2>1
    <2>3. k * unit >= 0 /\ k * unit \in Int /\ j * unit \in Int
      BY Z3
    <2> QED
      BY <2>2, <2>3
  <1>3. i * unit \in Int /\ j * unit \in Int
    OBVIOUS
  <1> QED
    BY <1>1, <1>2, <1>3

\* Cutting a multiple to whole units gives the factor.
LEMMA MultipleQuotient ==
    ASSUME NEW i \in Int, NEW unit \in Nat \ {0}
    PROVE  (i * unit) \div unit = i
  OBVIOUS

\* A multiple inside a range has its factor inside the range cut to units.
LEMMA CutRange ==
    ASSUME NEW a \in Int, NEW b \in Int, NEW i \in Int, NEW unit \in Nat \ {0},
           a <= i * unit, i * unit <= b
    PROVE  a \div unit <= i /\ i <= b \div unit
  <1>1. PICK q \in Int, r \in 0..(unit - 1) : a = q * unit + r /\ a \div unit = q
    <2>1. a = (a \div unit) * unit + (a % unit)
      BY Z3
    <2>2. a \div unit \in Int /\ a % unit \in 0..(unit - 1)
      BY Z3
    <2> QED
      BY <2>1, <2>2
  <1>2. PICK p \in Int, s \in 0..(unit - 1) : b = p * unit + s /\ b \div unit = p
    <2>1. b = (b \div unit) * unit + (b % unit)
      BY Z3
    <2>2. b \div unit \in Int /\ b % unit \in 0..(unit - 1)
      BY Z3
    <2> QED
      BY <2>1, <2>2
  <1>3. q <= i
    <2>1. q * unit <= i * unit
      <3>1. q * unit \in Int /\ i * unit \in Int /\ r \in Int /\ r >= 0
        OBVIOUS
      <3> QED
        BY <1>1, <3>1
    <2> QED
      BY <2>1, MultipleOrder
  <1>4. i <= p
    <2>1. ~((p + 1) * unit <= i * unit)
      <3>1. p * unit \in Int /\ i * unit \in Int /\ s \in Int /\ s < unit
        OBVIOUS
      <3>2. (p + 1) * unit = p * unit + unit
        OBVIOUS
      <3> QED
        BY <1>2, <3>1, <3>2
    <2>2. ~(p + 1 <= i)
      BY <2>1, MultipleOrder
    <2> QED
      BY <2>2
  <1> QED
    BY <1>1, <1>2, <1>3, <1>4

\* A resolved range of times is one of whole seconds.
LEMMA WholeRange ==
    ASSUME WholeDefaults, conf \in Configs,
           ~Overflows(conf.minTimeout, Second), ~Overflows(conf.maxTimeout, Second)
    PROVE  LET range == resolveLangLimits(conf).timeout
           IN  \E i, j \in Int : range.min = i * Second /\ range.max = j * Second
  <1> DEFINE lo == conf.minTimeout
             hi == conf.maxTimeout
             range == resolveLangLimits(conf).timeout
  <1>1. Second \in Nat \ {0} /\ lo \in Int /\ hi \in Int
    <2>1. lo \in Int /\ hi \in Int
      BY InputAssumption DEF Configs
    <2>2. Second \in Nat \ {0}
      BY UnitAssumption
    <2> QED
      BY <2>1, <2>2
  <1>2. Wrap(lo * Second) = lo * Second /\ Wrap(hi * Second) = hi * Second
    BY DEF Overflows
  <1>3. range = ResolveRange(lo * Second, hi * Second, MinTimeout, MaxTimeout)
    BY <1>2 DEF resolveLangLimits
  <1>4. PICK a, b \in Nat : MinTimeout = a * Second /\ MaxTimeout = b * Second
    BY DEF WholeDefaults
  <1>5. range.max = hi * Second \/ range.max = b * Second
    BY <1>3, <1>4 DEF ResolveRange, valueWithDefault
  <1>6. range.min = lo * Second \/ range.min = a * Second \/ range.min = range.max
    BY <1>3, <1>4 DEF ResolveRange, valueWithDefault, Least
  <1> HIDE DEF range
  <1>7. a \in Int /\ b \in Int
    OBVIOUS
  <1>8. \E j \in Int : range.max = j * Second
    <2>1. CASE range.max = hi * Second
      BY <1>1, <2>1, Zenon
    <2>2. CASE range.max = b * Second
      BY <1>7, <2>2, Zenon
    <2> QED
      BY <1>5, <2>1, <2>2
  <1>9. \E i \in Int : range.min = i * Second
    <2>1. CASE range.min = lo * Second
      BY <1>1, <2>1, Zenon
    <2>2. CASE range.min = a * Second
      BY <1>7, <2>2, Zenon
    <2> QED
      BY <1>6, <1>8, <2>1, <2>2, Zenon
  <1> QED
    BY <1>8, <1>9, Zenon DEF range

\* The last request was judged by the limits of the language.
Advised ==
    /\ phase = "ready" => limits = resolveLangLimits(conf)
    /\ reply # "none" => phase = "ready" /\ req.t \in ReqSeconds /\ req.m \in ReqBytes
    /\ reply = "run" => Accepted(req.t, req.m, limits)
    /\ reply = "bad_request" => ~Accepted(req.t, req.m, limits)

\* GET /info and POST /execute agree, for every configuration and every
\* request, as far as InfoAgrees goes where seconds overflow.
THEOREM InfoIsHonest == ASSUME WholeDefaults PROVE Spec => []InfoAgrees
  <1>1. Init => Advised
    BY DEF Init, Advised
  <1>2. Advised /\ [Next]_vars => Advised'
    <2> SUFFICES ASSUME Advised, [Next]_vars PROVE Advised'
      OBVIOUS
    <2>1. CASE Load
      BY <2>1 DEF Load, LoadDocker, LoadNsjail, Advised
    <2>2. CASE Refuse
      BY <2>2 DEF Refuse, Advised, Accepted
    <2>3. CASE Execute
      BY <2>3 DEF Execute, Advised, Accepted
    <2>4. CASE UNCHANGED vars
      BY <2>4 DEF vars, Advised, Accepted
    <2> QED
      BY <2>1, <2>2, <2>3, <2>4 DEF Next
  <1>3. ASSUME LimitsInv, Advised PROVE InfoAgrees
    <2> DEFINE in(v, range) == v = 0 \/ (range.min <= v /\ v <= range.max)
               info == Info(limits)
               lo == limits.timeout.min
               hi == limits.timeout.max
               t == req.t
               m == req.m
    <2> SUFFICES ASSUME reply # "none" PROVE InfoAgrees
      BY DEF InfoAgrees
    <2>1. /\ phase = "ready" /\ conf \in Configs
          /\ Sound(limits) /\ limits = resolveLangLimits(conf)
          /\ t \in ReqSeconds /\ m \in ReqBytes
      BY <1>3 DEF Advised, LimitsInv, TypeOK
    <2>2. t \in Int /\ m \in Int /\ Second \in Nat \ {0} /\ Half \in Nat
      <3>1. Half \in Nat /\ Second \in Nat \ {0}
        BY UnitAssumption
      <3>2. ReqSeconds \subseteq Int /\ ReqBytes \subseteq -Half..(Half - 1)
        BY InputAssumption
      <3>3. t \in Int /\ m \in -Half..(Half - 1)
        BY <2>1, <3>2, Zenon
      <3> HIDE DEF m
      <3>4. m \in Int
        BY <3>1, <3>3
      <3> QED
        BY <3>1, <3>3, <3>4
    <2>3. /\ lo \in Int /\ hi \in Int /\ lo >= 1 /\ hi < Half
          /\ limits.memory.min \in Int /\ limits.memory.max \in Int /\ limits.memory.min >= 0
      BY <2>1, <2>2 DEF Sound
    <2>4. info = [timeout |-> [min |-> lo \div Second, max |-> hi \div Second],
                  memory |-> limits.memory]
      BY DEF Info
    <2>5. in(t, info.timeout) <=> t = 0 \/ (lo \div Second <= t /\ t <= hi \div Second)
      BY <2>4
    <2>6. in(m, info.memory)
             <=> m = 0 \/ (limits.memory.min <= m /\ m <= limits.memory.max)
      BY <2>4
    <2> HIDE DEF lo, hi, t, m, in, info
    <2>7. ASSUME Accepted(t, m, limits)
          PROVE  (in(t, info.timeout) \/ Overflows(t, Second)) /\ in(m, info.memory)
      <3>1. in(m, info.memory)
        BY <2>6, <2>7 DEF Accepted
      <3>2. ASSUME t # 0, Wrap(t * Second) = t * Second PROVE in(t, info.timeout)
        <4>1. lo <= t * Second /\ t * Second <= hi
          BY <2>7, <3>2 DEF Accepted, lo, hi
        <4> QED
          BY <2>2, <2>3, <2>5, <4>1, CutRange
      <3> QED
        BY <2>5, <3>1, <3>2 DEF Overflows
    <2>8. ASSUME in(t, info.timeout), in(m, info.memory),
                 ~Overflows(conf.minTimeout, Second), ~Overflows(conf.maxTimeout, Second)
          PROVE  Accepted(t, m, limits)
      <3>1. PICK i, j \in Int : lo = i * Second /\ hi = j * Second
        BY <2>1, <2>8, WholeRange DEF lo, hi
      <3>2. lo \div Second = i /\ hi \div Second = j
        BY <2>2, <3>1, MultipleQuotient
      <3>3. m >= 0 /\ (m # 0 => limits.memory.min <= m /\ m <= limits.memory.max)
        BY <2>2, <2>3, <2>6, <2>8
      <3>4. ASSUME t # 0
            PROVE  t >= 0 /\ lo <= Wrap(t * Second) /\ Wrap(t * Second) <= hi
        <4>1. i <= t /\ t <= j
          BY <2>5, <2>8, <3>2, <3>4
        <4>2. i * Second <= t * Second /\ t * Second <= j * Second
          BY <2>2, <4>1, MultipleOrder
        <4> DEFINE n == t * Second
        <4>3. n \in Int /\ lo <= n /\ n <= hi
          BY <2>2, <3>1, <4>2
        <4> HIDE DEF n
        <4>4. n \in Int64 /\ n > 0
          BY <2>2, <2>3, <4>3 DEF Int64
        <4>5. Wrap(n) = n
          BY <4>4, WrapSmall
        <4>6. t >= 0
          <5>1. 0 * Second <= t * Second
            BY <2>2, <4>4 DEF n
          <5> QED
            BY <2>2, <5>1, MultipleOrder
        <4> QED
          BY <4>3, <4>5, <4>6 DEF n
      <3> QED
        BY <2>2, <3>3, <3>4 DEF Accepted, lo, hi
    <2> QED
      BY <1>3, <2>7, <2>8 DEF InfoAgrees, Advised, in, info, t, m
  <1> QED
    BY <1>1, <1>2, <1>3, LimitsCorrect, PTL DEF Spec
=============================================================================
