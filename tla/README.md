# A verification project for runboxd

runboxd is an HTTP daemon that runs source code in a sandbox and reports stdout,
stderr, an exit code and a status. These TLA+ modules model the parts of it in
which something can go wrong that a test hardly reaches: requests racing for
slots, a reaper beside live runs, a deadline, a client and a program that end at
the same time, a daemon or a command that stops halfway, and arithmetic at the edge
of its range; and, composed from what these parts promise, a daemon that starts, serves
and shuts down. TLC checks them on small instances (`tlc -config X.cfg M`), TLAPS proves
every safety property and refinement of the passing runs for every value of the constants
(`tlapm M.tla`).

## 1. Inventory

| Component | State | Operations | Interacts with |
|---|---|---|---|
| Worker pool (`internal/api/workerpool.go`) | channel `sem`, atomic `waiting` | take a slot, wait, shed (429), give up (408), release | the request's context; the handler it wraps |
| Docker backend (`internal/sandbox/docker.go`) | workspace directory, labelled container, `execCtx` | construct (inspect and pull images), `Run`, `LangSpec`, `Info`, `ReapOrphans`, `Close` | Docker API, file system, the reaper, the request's context |
| Reaper (`reapOrphans`, `reapLoop` in `cmd/runboxd/main.go`) | the list it works through | one pass at start-up, one per tick of the ticker | containers of live and of dead runs |
| nsjail backend (`internal/sandbox/nsjail.go`) | workspace, nsjail process, its log, the stage's context | construct (check rootfs trees), `Run` in two stages: build, run | nsjail, file system, the request's context |
| Resource limits (`limits.go`, `effective*`, `validateLimits`) | `LangLimits` and `LangCompileLimits` per language | resolve, validate, advertise, check, clamp, convert | `image.yml`, `/info`, `/execute`, both backends |
| HTTP API (`internal/api`) | none beyond the pool | authenticate, decode, validate, call `Run`, map errors | pool, backend |
| cgroup delegation (`cgroup.go`) | one cached result | set up once | nsjail backend |
| Daemon (`cmd/runboxd/main.go`), configuration | listener, signal context | start, serve, shut down within 8 s | everything above |
| Registry, image specifications, `runboxctl images` | lock file, generated Dockerfiles, registry, rootfs and digest files | gen-lock, gen-images, build, export-rootfs, validate, list | Docker, file system; read by both backends |
| Conformance tests (`internal/langtest`) | fixtures | run a language's cases | a backend |

What is hard here:

- *Interleaving.* The pool is a channel, a counter and a context without a common
  lock. The reaper and the runs share containers and no memory at all.
- *Races at an end.* The program exits, the limit passes, the client leaves, the
  reaper arrives. `Run` sees an exit code, a context and a log, and has to say
  which it was.
- *Partial failure.* Every call to Docker may fail, some after they had their
  effect; the deferred clean-up, of containers and of workspaces, may fail as well.
- *Crash.* Nothing is persisted but the containers, the workspaces and, under
  nsjail, the processes themselves. The `runboxctl images` commands persist a chain
  of files, and each decides from hashes what it need not do again.
- *Start and end.* Goroutines that pull images fail one by one; a cgroup is set up in
  steps that are not undone; a shutdown has 8 seconds, a reaper to wait for and a
  client to close in the right order.
- *Numbers.* Seconds and MiB become int64 nanoseconds and bytes, a float becomes a
  quota, and a zero means "unlimited" to Docker and nsjail.

What makes each part correct: the pool never exceeds or loses a slot, keeps its
queue bound, serves in order, answers everybody; a backend's status says what
happened, every run returns, nothing is left behind for ever, and the reaper
leaves the living alone; limits are never absent and are the ones advertised; what
an images command skips is current and whole, and what it does not touch it keeps; a
daemon that starts can serve what it lists, its answers mean what their codes say, and
it stops when it is told to. The
list of hazards, each at its line and with the properties that cover it, is in
`PROJECT.json`.

## 2. Modules

| Module | Models | Extended by |
|---|---|---|
| `WorkerPool` | `Middleware` of the pool, one atomic operation per action | `WorkerPoolProofs`, `MCWorkerPool` |
| `BoundedPool` | what the pool promises, without channel or counter | instantiated in `WorkerPool`, `Daemon` |
| `LimitRules` | the pure functions of `limits.go` and the two clamps | the next three modules |
| `DockerSandbox` | `Run` of the Docker backend, `reapOrphans`, crash and restart | `DockerSandboxProofs`, `MCDockerSandbox` |
| `NsjailSandbox` | `Run` of the nsjail backend | `NsjailSandboxProofs`, `MCNsjailSandbox` |
| `Limits` | the way of a limit from `image.yml` to what is enforced | `LimitsProofs`, `MCLimits` |
| `ImagePipeline` | gen-lock, gen-images, build-images, export-rootfs | `ImagePipelineProofs`, `MCImagePipeline` |
| `SandboxContract` | what `Sandbox.Run` promises, whatever the backend | instantiated in `DockerSandbox`, `NsjailSandbox`, `Daemon` |
| `Cgroup` | `setupDelegatedCgroup` | `Startup` |
| `Startup` | `run` up to the sandbox: configuration, both constructors | `StartupProofs`, `MCStartup` |
| `Daemon` | `run` from there on: reaper, `POST /execute`, shutdown | `DaemonProofs`, `MCDaemon` |

`PROJECT.json` maps every definition to the lines it models. Definitions whose
comment begins "A mistake", or that stand in a section of mistakes, are variants
that a plausible bug would turn the code into; they are in no specification and
serve to check that the properties notice them.

### WorkerPool

A request moves through `pc`: `try` (the non-blocking send), `add`
(`waiting.Add(1)` and its comparison), `shed` (the increment still to be undone),
`select` (the blocking select), `blocked` (parked), `granted` or `cancelled`
(woken, `Add(-1)` still to come), `run`. Go's channel is the number of buffered
elements `sem` and the queue of parked senders `sendq`: a receive from a full
channel hands the place to the first parked sender in the same step, and a send
succeeds at once only if the buffer has room. That the two atomic operations on
`waiting` are separate steps is the point of the model. A request's identity is
reused after its answer, so a behaviour is an endless stream of requests.
`ToInt32` is the conversion of the configured queue size.

### DockerSandbox

Each action is one call to Docker or one local step of `Run`: `MakeDir`,
`FillDir` (setupWorkspace), `Create`, `CheckContext`, `Attach`, `Start`,
`WriteStdin`, `WaitResult` or `WaitError` (the select), `Inspect`, `ReadLogs`,
then the deferred `Remove` and `Cleanup`. The `...Fails` actions are the error
returns; a failing `ContainerCreate` or `ContainerStart` may have had its effect.
`os.RemoveAll` may fail, and its error is ignored: `dir` is `made` until it is called
and `none` or `left` afterwards. No code comes back to a directory that was left.
Docker (`ctr`, `age`, `fate`) is external and is what the code observes of it.

The reaper has two passes, start-up and ticker, that can overlap as in `main.go`:
list, read the clock and keep what is old enough, remove one by one. It knows age
and nothing else. A `Crash` is the end of the process, including a shutdown that
ran out of its 8 seconds: runs in progress are `lost`, their deferred calls do not
happen, and `Restart` begins with a start-up pass.

Time is `Tick`. Two assumptions tie Go code to it (`Prompt`): a goroutine with
something to do does so within a tick, and Docker takes at most `StartDelay` ticks
from the creation of a container to its start and `StopDelay` from the end of a
program to the end of its logs. A `large` stdin is one that does not fit in the
socket's buffers; its `io.Copy` ends only when the program reads it.

### NsjailSandbox

`Prepare`, `Spawn` and the `Collect...` actions are used by both stages, as `stage`
says. A jail is ended by its command (`JailExit`), by nsjail's `time_limit`
(`TimeLimitFires`, which leaves the line in the log: `token`), or by
exec.CommandContext (`ContextKills`) once the stage's context is cancelled or past
its deadline, `KillGrace` behind the time limit. nsjail may hang and ignore its
own limit. A failing start, or a log that cannot be read, is a fault. The workspace is
removed, or left, as under Docker; here the program itself can be the reason, for the
build directory is mounted writable and the jail maps to the daemon's own user. After a
crash the jail lives on under nsjail's limit alone.

### Limits

One behaviour is one language's configuration, its resolution and validation when
the daemon starts (`LoadDocker`, `LoadNsjail`), and any sequence of requests
(`Refuse`, `Execute`). Only the nsjail backend looks at `compile_limits`;
`BuildJail` is what `writeNsjailConfig` makes of them for the build stage.
int64 is scaled to `-Half..Half-1` and the units with it, so products wrap on small
numbers; `Overflows` says of a number of seconds or MiB that they did. A float is NaN, an infinity or a number; comparisons with NaN are false,
as in Go. `enforced` has the values in the units of `getHostConfig` and of
`writeNsjailConfig`.

### ImagePipeline

The state is what the commands leave for each other: the lockfile, a Dockerfile and
a wrapper per image, the registry, Docker's images, the hashes in `.image_cache`, the
rootfs trees and their digest files. A file is reduced to the revision of the sources
it was made from, a hash to what was hashed, a pin to its presence (a new digest
changes a Dockerfile just as a new revision does). `cmd` and `job` are the command
that runs and the next step of each image. An action is one effect:
`WriteDockerfile` and `WriteWrapper` are two, and an export is `CheckExport`, `Clear`,
`Extract`, `Unpacked`, `WriteDigest`. gen-images is sequential; the others work on
their images concurrently. `Stop` is a kill or an error that is returned at once and
undoes nothing, `FailJob` an error in one goroutine of an errgroup. A `RemoveAll` that
fails has removed a part. gen-lock drops what it cannot refresh when it is told to, and
also when the old lockfile could not be loaded, which it only logs: `StartLock` sets
`cmd.flag` for either. A version whose base image is empty is `skipped` and not kept.

One command runs at a time and sources are edited between commands; writing one small
file is one step. gen-images is given the lockfile, as in the Makefile. Two constants
delimit what holds: `Forces` (export-rootfs may be given `--force`) and `Reverts`
(sources may return to an earlier revision). `built` remembers that the last command
was a build-images of the whole registry without an error, which is when `make rootfs`
goes on to export-rootfs.

### SandboxContract

What `handleExecute` relies on and the Go interface cannot say. A call is refused
with nothing touched, or answered once, or lost with the daemon; a program starts
only while its call goes on and its workspace is there; when the call is answered
the removal of the workspace has been tried (`files` is `none` or `left`, never `made`);
a status is reported only of a program that was started.
The program itself may outlive the call: the removal of a container can fail, and
`Collect` is then the reaper's. `Unstarted` is the exception a backend declares:
FALSE for Docker; TRUE for nsjail, whose run stage drops the error of a start that
failed (finding `nsjail_ok`). Each backend's module maps its state to the contract
(`callOf`, `answerOf`, `programOf`) and `KeepsContract` says that every step is one
of the contract or a stutter.

### Cgroup and Startup

`Startup` runs through `main`: configuration (`LoadConfig`, with the minima of
`parseIntEnvOrDefault` and the refusal to start open), the choice of the backend, and
its constructor. For Docker `check[l]` is the goroutine of language `l`: it examines
the entry, inspects or pulls one image after the other, and registers itself; the
first error cancels the others, whose call to Docker may succeed or fail at that
moment, and `Wait` is `g.Wait`. `Ensured` is how `ensureImage` returns nil: with the image
there, or with a pull that failed after it had begun, which Docker reports inside the
stream that the code drains to `io.Discard`; `discarded` remembers those. For nsjail the cgroup comes first: `Cgroup` has one
action per step of `setupDelegatedCgroup`, each with the failure of its files. What
the kernel allows (`MayPassOn`) is external: a cgroup with a process in it passes no
controllers on. Nothing is undone when a step fails; the jails then have rlimit_as.

### Daemon

The composition. The pool is an instance of `BoundedPool`, which `WorkerPool` is shown
to implement; a call of `Run` is an instance of `SandboxContract`, which both backends
are shown to keep; so the instance is small and stands for either. `main` goes through
the rest of `run`: reaper goroutine and first pass, listener, the select, `Shutdown`,
and the deferred calls in the order in which they run. `reaper` is `reapLoop`. A
request passes `Receive` (requireAuth), `Admit` or `TurnAway` (the pool's middleware),
`ReadBody`, `Check`, `Run`, `Write` if the answer does not fit in the buffers, and
`Reply`, which frees the slot or hands it over. Clients leave at any time and need never
send a body nor read an answer. A request may still come on a connection that was accepted
before `Accept` failed or `Shutdown` began (`Reachable`). After `ShutdownExpires`
the handlers go on until the process ends, and what is in flight then is `lost`.

## 3. Runs

| Run | Result | Instance |
|---|---|---|
| `pool` | all hold; about 41,000 states | 4 requests, 1 slot, 2 places |
| `docker` | all hold; about 651,000 states | one run, all fates, every kind of stdin, a fault, a crash, limit 1 or 2, age limit 5 |
| `docker_oom`, `docker_stdin`, `docker_answered` | violated | one run without faults or crashes |
| `nsjail` | all hold; about 21,000 states | one run, limits 1..3, build limit 2, grace 2, a fault, a crash |
| `nsjail_ok` | violated | the same without a hang or a crash |
| `limits` | all hold; about 328,000 states | 5 seconds, 5 sizes, 4 counts, 6 CPU values, one tier at a time, each with one that wraps; both backends; 48 requests |
| `images` | all hold; about 5,411,000 states | two languages with a version each, one of them edited once |
| `images_rootfs` | violated | the same with `--force` |
| `startup` | all hold; about 855,000 states | 144 environments, 3 registries of two languages and three images, 2 cgroups |
| `daemon` | all hold; about 386,000 states | 2 requests, 1 slot, 1 place, 2 ticks of grace |

The type invariants of `WorkerPool`, both backends and `Limits`, and the accounting
behind the pool's bounds, are proved (section 5) and not repeated in the runs.

**pool.** `NoSlotWhileParked` excludes a lost wakeup and barging; `Bounded` is the two
promised bounds, on the handlers that run and the requests that wait;
`ShedJustified` says what a 429 means, `FIFO` the order of service, `Answered` that
everybody gets an answer, and `Implements` that all of this is the abstract pool.
Four requests are
one more than the slot and the queue hold, so that all three ways out of the
middleware compete; with two parked the order of service can go wrong.

**docker.** `StatusTruthful` says what a status, an internal error included,
lets a client conclude; `LiveKeepsContainer` that the reaper takes nothing from a
live run; `OrphansExplained` that no return forgets its workspace or its container: one
that nobody tried to remove is the work of a crash, or of a call that failed. The age limit of 5 is the smallest that
exceeds the longest run of the instance (1 + 2 + 1 ticks): at 4 the reaper does
interfere. Runs share the reaper and the daemon only; one run is enough for what a
pass can do to it, and the theorem `ReaperSparesLive` covers any number. A run whose
stdin is not read is left out of `LiveKeepsContainer`: in the end the reaper removes
its container, which breaks the connection that `io.Copy` writes to, and that is how
`RunsReturn` holds even for a program that never ends and never reads.
`ContainersRemoved` is the purpose of the reaper, `KeepsContract` the refinement.

**nsjail.** `TimeLimitReported` and `StatusTruthful` are about the reconstruction of
the cause from exit code, log and context; `BackstopOnlyForHung` is the comment at
`nsjail.go:278`; `RunAfterBuild` orders the stages; `RunsEnd` says that
Run returns and no jail runs for ever, and `KeepsContract`, the refinement, that
no jail outlives the call and the removal of the workspace is tried before the answer. Runs share nothing but the daemon's life, so
one is enough. The requested timeouts 0, 1, 2, 5 are: none, the minimum, inside the
range, above it.

**limits.** `Capped`: no configuration and no request leads to a run without a
limit, and the division to MiB does not give zero. `BuildCapped`: nor to a build without one, though nothing clamps
`compile_limits`. `NoSilentClamp`: a request that runs gets the seconds and bytes it
asked for, in true units; what is outside the range is refused. `RefusalExplained`: the
daemon refuses a language only for a value somebody wrote, never because of a default.
`InfoAgrees`: `/info` describes what `/execute` accepts. `NoSilentClamp` and `InfoAgrees`
name their exceptions: a `timeout_seconds` whose product overflows int64 may land in the range, runs
with another timeout than it asked for, and is outside what `/info` says; and an operator's
overflowing bound is advertised cut to whole seconds. A second of 3 units does not divide
2^10, so 343 s wrap to 5 units and 171 s to a negative time; 256 MiB wrap to zero. The values include unset, negative,
below, inside and above the defaults, each side of the minimum and the maximum. The
two tiers are resolved and validated separately, so one of them is varied while the
other is unset.
Deadlock is not checked, because a refused language stops the daemon.

**images.** `RegistryBuildable`: whatever was stopped before, the registry lists only
images that have their two files; one without would fail build-images for all.
`NothingDropped` is the comment at `genimages.go:86`, and the purpose of
keeping digests that cannot be refreshed: of a lockfile that could be loaded, without
`--drop-stale`, and for versions that have a base image. `BuildSkipSound`: an image that
build-images would skip is the one its directory describes, although image and hash
are written in two steps; `SkippedRootfsWhole`: a rootfs that export-rootfs would skip
is complete. `MakeExportsCurrent` joins the commands: when build-images succeeded, every
image is that of its directory, skipped or not, so the digest that `make rootfs` records
is that of what it unpacked; the code records it without looking at the image. The
skips are stated for sources that move on: with `Reverts = TRUE` TLC
finds a build that is stopped before it writes its hash, a return to the revision of
the old hash, and a skip of the wrong image. Images share the command, the lockfile
and the registry and nothing else, so two are enough, and one that changes beside one
that does not is what `--lang` is about. All three kinds of Dockerfile and wrapper
occur: none, matching, and of different revisions. There is no liveness here: a
command may be stopped and nobody has to start one.

**startup.** `ReadyIsComplete`: whatever order the goroutines come in and whichever
fails, a sandbox that is returned knows every language and has an image or a rootfs
for every version (an image whose pull failed unnoticed excepted), and the pool lets
somebody in; the client is closed on
exactly the error returns. `CgroupSound` is what `writeNsjailConfig` counts on when
it lifts rlimit_as, and the converse, that the fallback is never the
daemon's own doing. `Decided`: a failing language does not leave `g.Wait` waiting.
Registries have a good language beside one that is good, has no default version, or has
invalid limits; any subset of the images is there.

**daemon.** `SlotMeansHandler`: every return of the handler gives its slot back.
`CodesTruthful`: 200 and 500 are answers of `Run`, a 4xx has touched nothing.
`OnlyAuthorised`: a request without the token is never in the pool.
`ShutdownIsGraceful`: nil means that everybody was answered; otherwise the whole grace
period has passed or the listener broke; and the client is not closed
under a pass of the reaper. `Stops`: a serving daemon stops at a signal whatever clients, programs and Docker
do. `OnlyClientsBlock`: a client that does not send its body or does not read its answer
is the only thing that keeps others waiting. Two requests, one slot and one place make them meet in every step (one served while
the other contends, waits, is handed the slot or is shed); `pool` checks larger
crowds. Deadlock is not checked in these two, for a start-up and a daemon end.

### Fairness

`Answered`: weak fairness of each request's own step; Go runs every runnable
goroutine and handlers return. Clients are never forced to send or to cancel.
Docker: weak fairness of each run's steps, of both passes, of restart and of time.
Program and client steps (`Exit`, `ReadStdin`, `Cancel`) have none: a program may
run for ever. A run that waits for its program (`Blocked`) is not helped either: the
error that could end the wait need not happen. Removal by the reaper has strong fairness, which says that Docker does
not refuse the same removal every time; without it no code could promise that a
container goes away. nsjail: weak fairness of `Run`, of the time limit of an nsjail
that does not hang, of the arrival of a kill, and of time.
Start-up: weak fairness of the whole, that is, Docker and the file system answer;
nothing in the code bounds an inspection or a pull. Daemon: weak fairness of `run`, of
its timer, and of the goroutine of each request where it need not wait for its client
(`HandlerStep`: `Run` returns, as the runs of both backends show, and reading from or
writing to a connection that is gone returns too); a
call of the reaper to Docker ends once its context is cancelled, and strong fairness of
`ReapLoopEnds`, because Go's select does not prefer the ticker for ever. The first pass
(`Sweep`), the listener, the sending of bodies and the reading of answers have none, nor has the 408 of a client that
left: net/http watches a connection only after the body was read.

## 4. Findings

Each is a run whose property, taken from a document or a comment of the repository,
is violated by what the code does.

- `docker_oom`: a language may allow more than the reaper's one minute; a live run
  then loses its container and is reported as out of memory.
- `docker_stdin`: the wall-clock limit does not cover the writing of stdin.
- `docker_answered`: a program that ended in time is answered with an internal error
  if the limit passes while its logs are read.
- `nsjail_ok`: status ok for a program that never ran.
- `images_rootfs`: a forced export that is stopped halfway leaves a partial rootfs
  that every later export skips as up to date.

Met while modelling, visible in the models and without a run of their own: a value
outside a language's range is refused with 400 (`Refuse` in `Limits`), where
`README.md:103` and `docs/authoring-languages.md:126` say that it is clamped; a signal
during the first pass of the reaper is noticed only after it; a client that leaves the
queue before its body was read is served all the same; an export-rootfs between
gen-images and build-images records the new digest for the old image; invalid
`compile_limits` of an interpreted language, which the documents say are ignored, keep
the nsjail backend from starting; 429 while
the queue has a free place, because `waiting` still holds the increment of another
request that is being shed; a `timeout_seconds` so large that its product with
`time.Second` wraps into the accepted range is accepted and runs with that other timeout;
a client that does not read a large answer keeps its slot, since the server has no
`WriteTimeout`; a pull that fails after it began goes unnoticed (`docker.go:399`), and the
daemon starts without the image; the error of `os.RemoveAll` on a workspace is ignored
(`docker.go:181` and `:416`, `nsjail.go:228`), and nothing collects what it leaves;
gen-lock drops the pins it cannot refresh when the old lockfile could not be loaded, and
that of a version with an empty base image; gen-lock with `--lang` drops the pins of
the other languages; the skip of the wrong image described under `images`; a
`MAX_QUEUE_SIZE` of 2^31 or more becomes negative (`ToInt32`); a program that exits
with 100 by itself is a compile error under Docker (`statusForExit`); a program that
ends before its stdin is written is an internal error (`WriteStdinFails`); the exit
code of an nsjail that could not set up its jail is a runtime error (`SetupFailed`).

## 5. Proofs

All theorems are for every value of the constants allowed by the ASSUMEs of the
modules: any number of requests, runs or images, any sizes, limits and delays. Every
safety invariant, action property and refinement of the passing runs is stated by one. A
hypothesis beyond the ASSUMEs stands in the theorem, and below with the reason for it.

**WorkerPoolProofs.** `Accounting` proves `IndInv`: `TypeOK`, the two accounting
equations, `SendersAreBlocked` and `NoSlotWhileParked`. None of them is inductive
alone: `Release` hands a slot to the first parked sender, and that this keeps
`SlotAccounting` needs the sender to be a blocked request; that a parked sender is
woken whenever a slot is freed needs the channel to be full while somebody is
parked. The lemmas `CountMove`, `CountsMove` and `CountsHandOff` say how the
cardinalities change when one or two requests move. `TypeCorrect`, `NoLostWakeup`
and `ConcurrencyBounded` follow. `QueueBounded` needs an invariant of its own,
since `waiting` also counts requests that are not queued; `PoolIsBounded` is both.
`ShedIsJustified` is an action property and assumes `MaxQueueSize < Int32Half`: beyond
it it is false. `ServedInOrder` is `FIFO`: of two parked senders the second cannot
leave the queue for a slot before the first. `PoolImplements` is `Implements`, the
refinement of `BoundedPool`: a step of a request changes its phase in one place or not
at all (`PhaseMove`), except that `Release` also moves the sender it wakes, and each
guard of the abstract step is one of the accounting equations read through
`PhaseCounts`.

**SandboxContract.** `MoveIsStep` and `StillIsStutter` say what a backend has to show:
each of its steps moves one run along the contract, or none.

**DockerSandboxProofs.** `TypeCorrect`, and `ReaperSparesLive`: `LiveKeepsContainer`
under `PromptDeployment` (`StartDelay + max + StopDelay < ReapMaxAge`), for runs whose
stdin fits in the buffers. The invariant bounds the age of a
container by the phase of its run: the ticks spent opening it, plus the time on the
deadline, plus the ticks spent closing it; and what a pass has decided to remove is
at least `ReapMaxAge` old. `docker_oom` and `docker_stdin` show that both
conditions are needed. `ShapeInv` ties each place in `Run` to what exists there: the
directory, the container, a result; that a container outlives its run only through a
failed removal is one of its parts. `OrphansAreExplained` and `DockerKeepsContract`
follow from it without a hypothesis. `StatusesAreTruthful` needs more: `VerdictInv`
keeps what the wait and the inspection saw tied to how the program really ended, and
since the reaper's kill looks like the kernel's to `Run`, the proof goes through
`LiveInv` and so assumes `PromptDeployment`.

**NsjailSandboxProofs.** `TypeCorrect`; `StatusIsTruthful`, `TimeLimitIsReported`
and `BuildPrecedesRun` from `VerdictInv`, which holds run by run: `Fresh` (before a
jail of the current stage exists there is no verdict, no token and no deadline),
`Witnesses` (what a token, a deadline and an end of the jail stand for) and the two
properties. `BackstopIsLast` assumes `JailDelay < KillGrace`. `NsjailKeepsContract`
rests on a `ShapeInv` like Docker's; the build stage is a stutter of the contract, whose
program is that of the run.

**LimitsProofs.** `TypeCorrect`, `AlwaysCapped`, `BuildAlwaysCapped`
and `RequestsAreHonoured` from `LimitsInv`: the limits of a language that is ready are
`Sound`, that is, positive ranges and a finite quota, and its smallest memory is at
least a MiB if no product wrapped. `RequestsAreHonoured` compares with the product in
true units; only a request's own overflow is excepted. `RefusalsAreExplained` needs the defaults to be
valid themselves, `DefaultSize * MiB` within int64 included (`DefaultAssumption`): only
then is a refusal always the fault of a field the author wrote. `InfoIsHonest` assumes
`WholeDefaults`, that `MinTimeout` and `MaxTimeout` are whole seconds as in `limits.go`;
configurations and requests are any. A product in a range has its factor in the range cut
to whole units (`CutRange`), whatever the bounds are; the converse needs bounds that are
whole seconds (`WholeRange`), so it is stated for operators whose seconds fit.

**ImagePipelineProofs.** `TypeCorrect`; `RegistryIsBuildable` from `BuildableInv` (what
gen-images has listed, on disk or in memory, has both its files); `NothingIsDropped` from
`KeptInv` (a gen-images of some images starts from the whole registry, and a gen-lock of
all, that has the old lockfile and is not told to drop anything, keeps every pin it has
looked at and not skipped).
`BuildSkipIsSound` rests on an order, `GrowInv`: for each image, what a hash records is
not newer than what was built, which is not newer than the generated files, which are not
newer than the sources; equal at both ends then means equal throughout. The order is what
a revert of the sources breaks, so this theorem and the next two assume `~Reverts`.
`MakeExportsAreCurrent` adds `FreshInv`, what the build before the export has done to each
image so far. `SkippedRootfsIsWhole` adds `WholeInv`, that a digest that still describes its image is
beside a whole tree and one being replaced is not, and assumes `~Forces`:
`images_rootfs` shows it false with `--force`.

**StartupProofs.** `TypeCorrect`; `StartupIsComplete` from `StartInv`: `Prepared` (what
the steps before the checks left) and, language by language and whatever the other
goroutines do, `Examined`: a language that is done is well formed and has every image of
its registry entry, or has discarded the news that it was not pulled. `CgroupIsSound` from `CgroupInv`, what each step of
`setupDelegatedCgroup` established for the next.

**DaemonProofs.** `SlotsMeanHandlers`, `CodesAreTruthful`, `OnlyAuthorisedEnter` and
`ShutdownsAreGraceful` from `DaemonInv`. While the process lives it relates three
accounts of a request: where the handler is, the phase the pool has it in (`Placed`), and
what `Run` and the client know (`Reported`); `Guarded` is that authentication comes
first, and `Ordered` how far the shutdown is. The exit of the process ends all handlers
in one step and with them this relation, so from then on the invariant is what the
properties say. `SandboxesAreBounded` is the promise of the whole: at most `Size` calls
of `Run` are in progress. The daemon is composed of the pool's abstract specification and of
the sandbox's contract; `PoolImplements`, `DockerKeepsContract` and
`NsjailKeepsContract` are why what is proved of it is a statement about the code.

What the proofs changed in the models: overlapping arms of a CASE, of which TLC took the
first and TLA+ any, exclude each other now; the assumptions on `DefaultSize` and
on the finiteness of `Requests`, which TLC's instances met silently, are stated.

Model-checked only: liveness under fairness (`Answered`, `RunsReturn`,
`ContainersRemoved`, `RunsEnd`, `Decided`, `Stops`, `OnlyClientsBlock`), which is beyond
the prover.

## 6. Not modelled

Contents: source code, output and its truncation (`limitWriter`, stdcopy), the text
of Dockerfiles and of nsjail configurations, JVM flags, JSON bodies and paths of
workspace files. `/healthz`, `/readyz`, `Info` and `Ping`, which change nothing. The
validation of an image specification, `validate` and `list`, which write nothing; two
images commands at once. A number of CPUs whose quota does not fit in int64. The
conformance tests (`internal/langtest`): a harness that reads fixtures, runs them one
at a time and compares; it has no state and no concurrency, and its own tests reach it.
Fakes and the load test. Isolation itself is the business of Docker, nsjail and the
kernel. A workspace directory left by a crash or by a failing removal is in the models, but
no code collects it. Under nsjail, `cmd.Run` may wait for a process that keeps an output pipe
open after nsjail was killed; whether one can is a matter of nsjail.

## 7. Plan

Done: pool, both backends with the reaper, limits of both tiers, images pipeline, the
contract of the sandbox and its refinements, start-up with cgroup delegation, and the
daemon composed of them; theorems for every safety property and refinement above.

Left: facts that reach across modules, such as a Docker backend behind the pool leaving
at most as many containers as slots plus failed removals.
