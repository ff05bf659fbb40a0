------------------------------ MODULE Startup -------------------------------
(***************************************************************************)
(* The first half of run in cmd/runboxd/main.go: config.Load, then the     *)
(* constructor of the backend.  NewDockerSandbox examines the languages of *)
(* the registry in goroutines of an errgroup, pulling the images that are  *)
(* missing, and the first error cancels the rest; NewNsjailSandbox sets up *)
(* the cgroup and examines them one by one.  Whatever fails ends the       *)
(* process.                                                                *)
(***************************************************************************)
EXTENDS Integers, FiniteSets, Cgroup

CONSTANTS
    Registries,     \* registry files: functions from languages to Language
    Environments,   \* environment variables the daemon may be started with
    NumCPU          \* runtime.NumCPU()

ASSUME StartupAssumption ==
    /\ NumCPU \in Nat \ {0}
    /\ \A reg \in Registries : \A l \in DOMAIN reg :
          /\ DOMAIN reg[l] = {"versions", "default", "valid"}
          /\ reg[l].valid \in BOOLEAN
    /\ \A e \in Environments :
          /\ {e.token, e.allow} \subseteq BOOLEAN
          /\ e.backend \in {"docker", "nsjail", "other"}
          /\ e.pool = <<>> \/ e.pool[1] \in Int
          /\ e.queue = <<>> \/ e.queue[1] \in Int
          /\ e.override \in Cgroups \cup {NoCgroup}

VARIABLES
    env,        \* the environment
    registry,   \* the registry file
    images,     \* <<language, version>> whose image, or rootfs, is there
    discarded,  \* those whose pull failed in a stream that nobody looked at
    main,       \* the next step of run
    exit,       \* "none", "ok" or "error": how run returned
    cfg,        \* the Config
    client,     \* the Docker client: "none", "open" or "closed"
    check,      \* check[l]: the goroutine that examines language l
    todo,       \* todo[l]: versions it has still to examine
    specs       \* the languages the sandbox knows

vars == <<env, registry, images, discarded, main, exit, cfg, client, check, todo,
          specs, CgroupVars>>

Languages == DOMAIN registry

\* The images, or root file systems, that the registry names.
Named == UNION {{l} \X registry[l].versions : l \in Languages}

NoConfig == [token |-> FALSE, backend |-> "", pool |-> 0, queue |-> 0,
             override |-> NoCgroup]

Init ==
    /\ env \in Environments
    /\ registry \in Registries
    /\ images \in SUBSET Named
    /\ discarded = {}
    /\ main = "load"
    /\ exit = "none"
    /\ cfg = NoConfig
    /\ client = "none"
    /\ check = [l \in Languages |-> "none"]
    /\ todo = [l \in Languages |-> {}]
    /\ specs = {}
    /\ CgroupInit
-----------------------------------------------------------------------------
\* A mistake: the minimum is not looked at.
parseIntNoMinimum(value, defaultValue, minValue) ==
    IF value = <<>> THEN defaultValue ELSE value[1]

\* parseIntEnvOrDefault; <<>> is a variable that is unset or no integer.
parseIntEnvOrDefault(value, defaultValue, minValue) ==
    IF value = <<>> \/ value[1] < minValue THEN defaultValue ELSE value[1]

\* run returns an error; its deferred calls are those registered so far.
ReturnError == main' = "exited" /\ exit' = "error"

\* config.Load, which refuses to start open unless it is told to.
LoadConfig ==
    /\ main = "load"
    /\ cfg' = [token    |-> env.token,
               backend  |-> env.backend,
               pool     |-> parseIntEnvOrDefault(env.pool, NumCPU, 1),
               queue    |-> parseIntEnvOrDefault(env.queue, NumCPU, 0),
               override |-> env.override]
    /\ IF ~env.token /\ ~env.allow THEN ReturnError
                                   ELSE main' = "backend" /\ UNCHANGED exit
    /\ UNCHANGED <<env, registry, images, discarded, client, check, todo, specs, CgroupVars>>

\* getSandboxConfig and sandbox.New
PickBackend ==
    /\ main = "backend"
    /\ CASE cfg.backend = "docker" -> main' = "client" /\ UNCHANGED exit
         [] cfg.backend = "nsjail" -> main' = "lookpath" /\ UNCHANGED exit
         [] OTHER                  -> ReturnError
    /\ UNCHANGED <<env, registry, images, discarded, cfg, client, check, todo, specs, CgroupVars>>

\* The deferred Close of NewDockerSandbox.
CloseClient == client' = IF client = "open" THEN "closed" ELSE client

NewClient ==
    /\ main = "client"
    /\ \/ main' = "registry" /\ client' = "open" /\ UNCHANGED exit
       \/ ReturnError /\ UNCHANGED client
    /\ UNCHANGED <<env, registry, images, discarded, cfg, check, todo, specs, CgroupVars>>

\* With Docker, g.Go for every language.
Launched ==
    [l \in Languages |-> IF cfg.backend = "docker" THEN "start" ELSE "none"]

\* registry.Load
LoadRegistry ==
    /\ main = "registry"
    /\ \/ main' = "check" /\ check' = Launched /\ UNCHANGED <<exit, client>>
       \/ ReturnError /\ CloseClient /\ UNCHANGED check
    /\ UNCHANGED <<env, registry, images, discarded, cfg, todo, specs, CgroupVars>>
-----------------------------------------------------------------------------
(* NewDockerSandbox: a goroutine for every language.                       *)

Docker == main = "check" /\ cfg.backend = "docker"

\* gctx is cancelled by the first error.
Cancelled == \E l \in Languages : check[l] = "failed"

\* The default version exists and the limits are valid.
WellFormed(l) == registry[l].default \in registry[l].versions /\ registry[l].valid

Examine(l) ==
    /\ Docker
    /\ check[l] = "start"
    /\ check' = [check EXCEPT ![l] = IF WellFormed(l) THEN "images" ELSE "failed"]
    /\ todo' = [todo EXCEPT ![l] = registry[l].versions]
    /\ UNCHANGED <<env, registry, images, discarded, main, exit, cfg, client, specs, CgroupVars>>

\* A mistake: an error of ImageInspect that is not NotFound is passed over.
EnsuredByInspect(l, v) ==
    \/ images' = images \cup {<<l, v>>} /\ UNCHANGED discarded
    \/ UNCHANGED <<images, discarded>>

\* ensureImage returns nil: the image is there, or is pulled; or Docker reports
\* inside the stream of the pull that it failed, and nobody looks there.
Ensured(l, v) ==
    \/ images' = images \cup {<<l, v>>} /\ UNCHANGED discarded
    \/ /\ <<l, v>> \notin images
       /\ discarded' = discarded \cup {<<l, v>>}
       /\ UNCHANGED images

\* ensureImage, unless gctx is cancelled; inspecting the image or pulling it
\* may fail.
EnsureImage(l, v) ==
    /\ Docker
    /\ check[l] = "images"
    /\ v \in todo[l]
    /\ \/ /\ ~Cancelled
          /\ Ensured(l, v)
          /\ todo' = [todo EXCEPT ![l] = @ \ {v}]
          /\ UNCHANGED check
       \/ /\ check' = [check EXCEPT ![l] = "failed"]
          /\ images' \in {images, images \cup {<<l, v>>}}
          /\ UNCHANGED <<todo, discarded>>
    /\ UNCHANGED <<env, registry, main, exit, cfg, client, specs, CgroupVars>>

\* specs[entry.Name] = spec, under the mutex.
Register(l) ==
    /\ Docker
    /\ check[l] = "images"
    /\ todo[l] = {}
    /\ specs' = specs \cup {l}
    /\ check' = [check EXCEPT ![l] = "done"]
    /\ UNCHANGED <<env, registry, images, discarded, main, exit, cfg, client, todo, CgroupVars>>

\* A mistake: a goroutine that fails is not counted as ended.
WaitForDone ==
    /\ Docker
    /\ \A l \in Languages : check[l] = "done"
    /\ main' = "ready"
    /\ UNCHANGED <<env, registry, images, discarded, exit, cfg, client, check, todo,
                   specs, CgroupVars>>

\* g.Wait
Wait ==
    /\ Docker
    /\ \A l \in Languages : check[l] \in {"done", "failed"}
    /\ IF Cancelled THEN ReturnError /\ CloseClient
                    ELSE main' = "ready" /\ UNCHANGED <<exit, client>>
    /\ UNCHANGED <<env, registry, images, discarded, cfg, check, todo, specs, CgroupVars>>
-----------------------------------------------------------------------------
(* NewNsjailSandbox.                                                       *)

LookPath ==
    /\ main = "lookpath"
    /\ \/ main' = "cgroup" /\ UNCHANGED exit
       \/ ReturnError
    /\ UNCHANGED <<env, registry, images, discarded, cfg, client, check, todo, specs, CgroupVars>>

\* delegatedCgroupMount; without a mount the daemon goes on.
SetupCgroup ==
    /\ main = "cgroup"
    /\ CgroupNext(cfg.override)
    /\ main' = IF once' = "done" THEN "registry" ELSE main
    /\ UNCHANGED <<env, registry, images, discarded, exit, cfg, client, check, todo, specs>>

\* One language after the other, its limits and the rootfs of its versions.
CheckRootfs(l) ==
    /\ main = "check" /\ cfg.backend = "nsjail"
    /\ l \notin specs
    /\ IF WellFormed(l) /\ \A v \in registry[l].versions : <<l, v>> \in images
         THEN specs' = specs \cup {l} /\ UNCHANGED <<main, exit>>
         ELSE ReturnError /\ UNCHANGED specs
    /\ UNCHANGED <<env, registry, images, discarded, cfg, client, check, todo, CgroupVars>>

NsjailReady ==
    /\ main = "check" /\ cfg.backend = "nsjail"
    /\ specs = Languages
    /\ main' = "ready"
    /\ UNCHANGED <<env, registry, images, discarded, exit, cfg, client, check, todo,
                   specs, CgroupVars>>

Next ==
    \/ LoadConfig \/ PickBackend \/ NewClient \/ LoadRegistry
    \/ \E l \in Languages : \/ Examine(l) \/ Register(l) \/ CheckRootfs(l)
                            \/ \E v \in todo[l] : EnsureImage(l, v)
    \/ Wait \/ LookPath \/ SetupCgroup \/ NsjailReady

Spec == Init /\ [][Next]_vars

(* The process is scheduled, the file system and Docker answer.  (Neither   *)
(* ImageInspect nor the pass of the reaper that follows has a timeout.)    *)
FairSpec == Spec /\ WF_vars(Next)
-----------------------------------------------------------------------------
(* Properties.                                                             *)

\* What config.Load can return.
Configs == [token : BOOLEAN, backend : {"", "docker", "nsjail", "other"},
            pool : Nat, queue : Nat, override : Cgroups \cup {NoCgroup}]

\* The type of the state.
TypeOK ==
    /\ env \in Environments
    /\ registry \in Registries
    /\ images \subseteq Named
    /\ discarded \subseteq Named
    /\ main \in {"load", "backend", "client", "lookpath", "cgroup", "registry",
                 "check", "ready", "exited"}
    /\ exit \in {"none", "error"}
    /\ cfg \in Configs
    /\ client \in {"none", "open", "closed"}
    /\ check \in [Languages -> {"none", "start", "images", "done", "failed"}]
    /\ DOMAIN todo = Languages
    /\ \A l \in Languages : todo[l] \subseteq registry[l].versions
    /\ specs \subseteq Languages

\* A daemon that got through its start-up can serve what GET /info will list:
\* every language of the registry is known, with a default version and an
\* image or rootfs for each version, whatever order the goroutines came in.
\* The one exception is an image whose pull began and then failed: ensureImage
\* drains the stream in which Docker says so (docker.go:399) and returns nil.
\* Its pool lets somebody in, and nobody without a token unless the operator
\* said so.  It has an open Docker client exactly if Docker is its backend; a
\* daemon that does not start leaves none open.
ReadyIsComplete ==
    /\ main = "ready" =>
         /\ specs = Languages
         /\ \A l \in Languages :
               /\ registry[l].default \in registry[l].versions
               /\ \A v \in registry[l].versions :
                     <<l, v>> \in images \/ (cfg.backend = "docker" /\ <<l, v>> \in discarded)
         /\ cfg.pool >= 1 /\ cfg.queue >= 0
         /\ cfg.token \/ env.allow
         /\ client = "open" <=> cfg.backend = "docker"
    /\ main = "exited" => client # "open"

\* One language that fails does not leave the start-up waiting for the rest.
Decided == <>(main \in {"ready", "exited"})
=============================================================================
