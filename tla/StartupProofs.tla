--------------------------- MODULE StartupProofs ----------------------------
(***************************************************************************)
(* Proofs about Startup and Cgroup for any registry, any environment and   *)
(* any state of the host.                                                  *)
(***************************************************************************)
EXTENDS Startup, TLAPS

USE DEF CgroupVars

\* A number from the environment is an integer not below its minimum, if the
\* default is one.
LEMMA ParsedNumber ==
    ASSUME NEW value, value = <<>> \/ value[1] \in Int,
           NEW default \in Int, NEW min \in Int, default >= min
    PROVE  /\ parseIntEnvOrDefault(value, default, min) \in Int
           /\ parseIntEnvOrDefault(value, default, min) >= min
  BY DEF parseIntEnvOrDefault

\* The initial states are well typed.
LEMMA TypeInit == Init => TypeOK
  <1>1. NoConfig \in Configs
    BY DEF NoConfig, Configs
  <1> QED
    BY <1>1 DEF Init, TypeOK

\* The Config that LoadConfig makes.
LEMMA LoadedConfig ==
    ASSUME TypeOK, LoadConfig
    PROVE  /\ cfg' \in Configs
           /\ cfg'.pool >= 1 /\ cfg'.token = env.token
  <1>1. /\ env.token \in BOOLEAN /\ env.override \in Cgroups \cup {NoCgroup}
        /\ env.backend \in {"docker", "nsjail", "other"}
    BY StartupAssumption DEF TypeOK
  <1>2. /\ parseIntEnvOrDefault(env.pool, NumCPU, 1) \in Int
        /\ parseIntEnvOrDefault(env.pool, NumCPU, 1) >= 1
    <2>1. env.pool = <<>> \/ env.pool[1] \in Int
      BY StartupAssumption DEF TypeOK
    <2>2. NumCPU \in Int /\ NumCPU >= 1
      BY StartupAssumption
    <2> QED
      BY <2>1, <2>2, ParsedNumber
  <1>3. /\ parseIntEnvOrDefault(env.queue, NumCPU, 0) \in Int
        /\ parseIntEnvOrDefault(env.queue, NumCPU, 0) >= 0
    <2>1. env.queue = <<>> \/ env.queue[1] \in Int
      BY StartupAssumption DEF TypeOK
    <2>2. NumCPU \in Int /\ NumCPU >= 0
      BY StartupAssumption
    <2> QED
      BY <2>1, <2>2, ParsedNumber
  <1> DEFINE p == parseIntEnvOrDefault(env.pool, NumCPU, 1)
             q == parseIntEnvOrDefault(env.queue, NumCPU, 0)
             c == [token |-> env.token, backend |-> env.backend, pool |-> p,
                   queue |-> q, override |-> env.override]
  <1>4. cfg' = c
    BY DEF LoadConfig
  <1>5. p \in Nat /\ q \in Nat /\ p >= 1
    BY <1>2, <1>3
  <1> HIDE DEF p, q
  <1> QED
    BY <1>1, <1>4, <1>5 DEF Configs

\* Every step keeps the types.
LEMMA TypeStep == TypeOK /\ [Next]_vars => TypeOK'
  <1> SUFFICES ASSUME TypeOK, [Next]_vars PROVE TypeOK'
    OBVIOUS
  <1>0. ASSUME UNCHANGED registry PROVE Languages' = Languages /\ Named' = Named
    BY <1>0 DEF Languages, Named
  <1>1. CASE LoadConfig
    BY <1>0, <1>1, LoadedConfig DEF LoadConfig, ReturnError, TypeOK
  <1>2. CASE PickBackend
    BY <1>0, <1>2 DEF PickBackend, ReturnError, TypeOK
  <1>3. CASE NewClient
    BY <1>0, <1>3 DEF NewClient, ReturnError, TypeOK
  <1>4. CASE LoadRegistry
    BY <1>0, <1>4 DEF LoadRegistry, Launched, ReturnError, CloseClient, TypeOK
  <1>5. ASSUME NEW l \in Languages, Examine(l) PROVE TypeOK'
    BY <1>0, <1>5 DEF Examine, TypeOK
  <1>6. ASSUME NEW l \in Languages, NEW v \in todo[l], EnsureImage(l, v) PROVE TypeOK'
    <2>1. <<l, v>> \in Named
      <3>1. v \in registry[l].versions
        BY <1>6 DEF TypeOK
      <3>2. <<l, v>> \in {l} \X registry[l].versions
        BY <3>1
      <3> QED
        BY <3>2 DEF Named
    <2>2. images' \subseteq Named /\ discarded' \subseteq Named
      BY <1>0, <1>6, <2>1 DEF EnsureImage, Ensured, TypeOK
    <2>3. /\ DOMAIN todo' = Languages
          /\ \A k \in Languages : todo'[k] \subseteq registry[k].versions
      BY <1>0, <1>6 DEF EnsureImage, TypeOK
    <2>4. check' \in [Languages -> {"none", "start", "images", "done", "failed"}]
      BY <1>0, <1>6 DEF EnsureImage, TypeOK
    <2> QED
      BY <1>0, <1>6, <2>2, <2>3, <2>4 DEF EnsureImage, TypeOK
  <1>7. ASSUME NEW l \in Languages, Register(l) PROVE TypeOK'
    BY <1>0, <1>7 DEF Register, TypeOK
  <1>8. CASE Wait
    BY <1>0, <1>8 DEF Wait, ReturnError, CloseClient, TypeOK
  <1>9. CASE LookPath
    BY <1>0, <1>9 DEF LookPath, ReturnError, TypeOK
  <1>10. CASE SetupCgroup
    BY <1>0, <1>10 DEF SetupCgroup, TypeOK
  <1>11. ASSUME NEW l \in Languages, CheckRootfs(l) PROVE TypeOK'
    BY <1>0, <1>11 DEF CheckRootfs, ReturnError, TypeOK
  <1>12. CASE NsjailReady
    BY <1>0, <1>12 DEF NsjailReady, TypeOK
  <1>13. CASE UNCHANGED vars
    BY <1>0, <1>13 DEF vars, TypeOK
  <1> QED
    BY <1>1, <1>2, <1>3, <1>4, <1>5, <1>6, <1>7, <1>8, <1>9, <1>10, <1>11, <1>12, <1>13
       DEF Next

\* Type correctness of the start-up.
THEOREM TypeCorrect == Spec => []TypeOK
  BY TypeInit, TypeStep, PTL DEF Spec
-----------------------------------------------------------------------------
(* What a daemon that got through its start-up knows.                      *)

\* The configuration and the client, by the place in run.
Prepared ==
    /\ main \notin {"load", "exited"} => cfg.pool >= 1 /\ (cfg.token \/ env.allow)
    /\ main \in {"load", "backend", "client", "lookpath", "cgroup"} => client = "none"
    /\ main = "client" => cfg.backend = "docker"
    /\ main \in {"lookpath", "cgroup"} => cfg.backend = "nsjail"
    /\ main \in {"registry", "check", "ready"} =>
         (client = "open" <=> cfg.backend = "docker")
    /\ main = "exited" => client # "open"
    /\ discarded # {} => main \in {"check", "ready", "exited"} /\ cfg.backend = "docker"

\* Every version of l that is no longer to be examined has its image, or had a
\* pull whose failure nobody looked at.
Imaged(l) == \A v \in registry[l].versions \ todo[l] : <<l, v>> \in images \cup discarded

\* What the goroutine of l, or the loop, has established.
Examined(l) ==
    /\ check[l] \in {"images", "done"} => WellFormed(l) /\ Imaged(l)
    /\ check[l] = "done" => l \in specs
    /\ l \in specs =>
         WellFormed(l) /\ \A v \in registry[l].versions : <<l, v>> \in images \cup discarded

StartInv ==
    /\ Prepared
    /\ \A l \in Languages : Examined(l)
    /\ main = "ready" => specs = Languages

\* Initially nothing was examined.
LEMMA StartInit == Init => StartInv
  BY DEF Init, StartInv, Prepared, Examined

\* A language that no step is about keeps what was established.
LEMMA ExaminedFrame ==
    ASSUME NEW l, Examined(l), registry' = registry,
           images \cup discarded \subseteq images' \cup discarded',
           check'[l] = check[l], todo'[l] = todo[l], l \in specs' <=> l \in specs
    PROVE  Examined(l)'
  BY DEF Examined, WellFormed, Imaged

\* Every step keeps it.
LEMMA StartStep == TypeOK /\ StartInv /\ [Next]_vars => StartInv'
  <1> SUFFICES ASSUME TypeOK, StartInv, [Next]_vars PROVE StartInv'
    OBVIOUS
  <1>0. registry' = registry /\ Languages' = Languages
    BY DEF Next, vars, LoadConfig, PickBackend, NewClient, LoadRegistry, Examine, Register,
           CheckRootfs, EnsureImage, Wait, LookPath, SetupCgroup, NsjailReady, Languages
  <1>1. ASSUME UNCHANGED <<images, discarded, check, todo, specs>>
        PROVE  \A l \in Languages : Examined(l)'
    BY <1>0, <1>1, ExaminedFrame DEF StartInv
  <1>2. CASE LoadConfig
    BY <1>0, <1>1, <1>2, LoadedConfig
       DEF LoadConfig, ReturnError, StartInv, Prepared
  <1>3. CASE PickBackend
    BY <1>0, <1>1, <1>3 DEF PickBackend, ReturnError, StartInv, Prepared, TypeOK
  <1>4. CASE NewClient
    BY <1>0, <1>1, <1>4 DEF NewClient, ReturnError, StartInv, Prepared
  <1>5. CASE LookPath
    BY <1>0, <1>1, <1>5 DEF LookPath, ReturnError, StartInv, Prepared
  <1>6. CASE SetupCgroup
    BY <1>0, <1>1, <1>6 DEF SetupCgroup, StartInv, Prepared
  <1>7. CASE LoadRegistry
    <2>1. ASSUME NEW l \in Languages PROVE Examined(l)'
      <3>1. check'[l] = check[l] \/ check'[l] \in {"start", "none"}
        BY <1>7 DEF LoadRegistry, Launched, TypeOK
      <3> QED
        BY <1>0, <1>7, <3>1 DEF LoadRegistry, StartInv, Examined, WellFormed, Imaged
    <2> QED
      BY <1>0, <1>7, <2>1
         DEF LoadRegistry, ReturnError, CloseClient, StartInv, Prepared
  <1>8. ASSUME NEW l \in Languages, Examined(l)',
               \A k \in Languages \ {l} : check'[k] = check[k] /\ todo'[k] = todo[k]
                                          /\ (k \in specs' <=> k \in specs),
               images \cup discarded \subseteq images' \cup discarded'
        PROVE  \A k \in Languages : Examined(k)'
    BY <1>0, <1>8, ExaminedFrame DEF StartInv
  <1>9. ASSUME NEW l \in Languages, Examine(l) PROVE StartInv'
    <2>1. Examined(l)'
      BY <1>0, <1>9 DEF Examine, StartInv, Examined, WellFormed, Imaged, TypeOK
    <2>2. \A k \in Languages \ {l} : check'[k] = check[k] /\ todo'[k] = todo[k]
      BY <1>9 DEF Examine, TypeOK
    <2> QED
      BY <1>0, <1>8, <1>9, <2>1, <2>2 DEF Examine, Docker, StartInv, Prepared
  <1>10. ASSUME NEW l \in Languages, NEW v \in todo[l], EnsureImage(l, v) PROVE StartInv'
    <2>1. images \cup discarded \subseteq images' \cup discarded'
      BY <1>10 DEF EnsureImage, Ensured
    <2>2. \/ check'[l] = "failed" /\ todo' = todo
          \/ check' = check /\ <<l, v>> \in images' \cup discarded' /\ todo'[l] = todo[l] \ {v}
      BY <1>10 DEF EnsureImage, Ensured, TypeOK
    <2>3. Examined(l)'
      BY <1>0, <1>10, <2>1, <2>2 DEF EnsureImage, StartInv, Examined, WellFormed, Imaged
    <2>4. \A k \in Languages \ {l} : check'[k] = check[k] /\ todo'[k] = todo[k]
      BY <1>10 DEF EnsureImage, TypeOK
    <2> QED
      BY <1>0, <1>8, <1>10, <2>1, <2>3, <2>4 DEF EnsureImage, Docker, StartInv, Prepared
  <1>11. ASSUME NEW l \in Languages, Register(l) PROVE StartInv'
    <2>1. Examined(l)'
      BY <1>0, <1>11 DEF Register, StartInv, Examined, WellFormed, Imaged, TypeOK
    <2>2. \A k \in Languages \ {l} : check'[k] = check[k] /\ (k \in specs' <=> k \in specs)
      BY <1>11 DEF Register, TypeOK
    <2> QED
      BY <1>0, <1>8, <1>11, <2>1, <2>2 DEF Register, Docker, StartInv, Prepared
  <1>12. CASE Wait
    <2>1. ~Cancelled => specs = Languages
      BY <1>12 DEF Wait, Cancelled, StartInv, Examined, TypeOK
    <2> QED
      BY <1>0, <1>1, <1>12, <2>1
         DEF Wait, Docker, ReturnError, CloseClient, StartInv, Prepared
  <1>13. ASSUME NEW l \in Languages, CheckRootfs(l) PROVE StartInv'
    <2>1. Examined(l)'
      BY <1>0, <1>13 DEF CheckRootfs, StartInv, Examined, WellFormed, Imaged
    <2>2. \A k \in Languages \ {l} : k \in specs' <=> k \in specs
      BY <1>13 DEF CheckRootfs
    <2>3. cfg.backend = "nsjail" /\ client # "open"
      BY <1>13 DEF CheckRootfs, StartInv, Prepared
    <2> QED
      BY <1>0, <1>8, <1>13, <2>1, <2>2, <2>3 DEF CheckRootfs, ReturnError, StartInv, Prepared
  <1>14. CASE NsjailReady
    BY <1>0, <1>1, <1>14 DEF NsjailReady, StartInv, Prepared
  <1>15. CASE UNCHANGED vars
    BY <1>0, <1>1, <1>15 DEF vars, StartInv, Prepared
  <1> QED
    BY <1>2, <1>3, <1>4, <1>5, <1>6, <1>7, <1>9, <1>10, <1>11, <1>12, <1>13, <1>14, <1>15
       DEF Next

\* A daemon that starts knows every language of its registry and has an image
\* for each version, but for those whose pull failed inside the stream that
\* ensureImage discards; one that does not start leaves no Docker client open.
\* This is so in whatever order the goroutines of the constructor end.
THEOREM StartupIsComplete == Spec => []ReadyIsComplete
  <1>1. ASSUME TypeOK, StartInv PROVE ReadyIsComplete
    <2>1. cfg.queue \in Nat
      BY <1>1 DEF TypeOK, Configs
    <2>2. main = "exited" => client # "open"
      BY <1>1 DEF StartInv, Prepared
    <2>3. ASSUME main = "ready"
          PROVE  /\ cfg.pool >= 1 /\ (cfg.token \/ env.allow)
                 /\ client = "open" <=> cfg.backend = "docker"
      BY <1>1, <2>3 DEF StartInv, Prepared
    <2>4. ASSUME main = "ready"
          PROVE  /\ specs = Languages
                 /\ \A l \in Languages :
                       /\ registry[l].default \in registry[l].versions
                       /\ \A v \in registry[l].versions :
                             \/ <<l, v>> \in images
                             \/ cfg.backend = "docker" /\ <<l, v>> \in discarded
      BY <1>1, <2>4 DEF StartInv, Prepared, Examined, WellFormed, TypeOK
    <2> QED
      BY <2>1, <2>2, <2>3, <2>4 DEF ReadyIsComplete
  <1> QED
    BY <1>1, StartInit, StartStep, TypeCorrect, PTL DEF Spec
-----------------------------------------------------------------------------
(* The cgroup.                                                             *)

\* What each step of setupDelegatedCgroup has established for the next.
CgroupInv ==
    /\ host \in [delegated : SUBSET Cgroups, crowded : SUBSET Cgroups]
    /\ once # "done" => mount = NoCgroup
    /\ once \in {"leaf", "enable"} => target \in host.delegated
    /\ once = "enable" => seat = [cgroup |-> target, leaf |-> TRUE]
    /\ CgroupSound

\* Initially there is no mount.
LEMMA CgroupInitOK == Init => CgroupInv
  BY DEF Init, CgroupInit, CgroupInv, CgroupSound

\* Every step of delegatedCgroupMount keeps it.
LEMMA CgroupStep ==
    ASSUME CgroupInv, NEW override, CgroupNext(override)
    PROVE  CgroupInv'
  <1> USE CgroupAssumption DEF CgroupInv, CgroupSound
  <1>1. CASE Pick(override)
    BY <1>1 DEF Pick, FileError, Unavailable
  <1>2. CASE CheckControllers
    BY <1>2 DEF CheckControllers, FileError, Unavailable
  <1>3. CASE SeatSelfInLeaf
    BY <1>3 DEF SeatSelfInLeaf, FileError, Unavailable
  <1>4. CASE EnableSubtreeControl
    BY <1>4 DEF EnableSubtreeControl, MayPassOn, FileError, Unavailable
  <1> QED
    BY <1>1, <1>2, <1>3, <1>4 DEF CgroupNext

\* A jail whose rlimit_as is lifted is limited by a cgroup that works, and the
\* fallback has a reason outside the daemon.
THEOREM CgroupIsSound == Spec => []CgroupSound
  <1>1. CgroupInv /\ [Next]_vars => CgroupInv'
    <2> SUFFICES ASSUME CgroupInv, [Next]_vars PROVE CgroupInv'
      OBVIOUS
    <2>1. CASE SetupCgroup
      BY <2>1, CgroupStep DEF SetupCgroup
    <2>2. CASE UNCHANGED CgroupVars
      BY <2>2 DEF CgroupInv, CgroupSound
    <2> QED
      BY <2>1, <2>2
         DEF Next, vars, LoadConfig, PickBackend, NewClient, LoadRegistry, Examine, Register,
             CheckRootfs, EnsureImage, Wait, LookPath, NsjailReady
  <1>2. CgroupInv => CgroupSound
    BY DEF CgroupInv
  <1> QED
    BY <1>1, <1>2, CgroupInitOK, PTL DEF Spec
=============================================================================
