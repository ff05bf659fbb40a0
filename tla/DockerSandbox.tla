--------------------------- MODULE DockerSandbox ----------------------------
(***************************************************************************)
(* The Docker backend (internal/sandbox/docker.go) with the reaper loop of *)
(* the daemon (cmd/runboxd/main.go).                                       *)
(*                                                                         *)
(* A run r is one call of Run.  It makes a workspace, creates a labelled   *)
(* container, attaches and starts it, feeds stdin, waits until the program *)
(* ends or the wall-clock limit passes, reads the logs, and on every       *)
(* return path asks to remove the container and then the workspace (the    *)
(* deferred calls).  Beside the runs, the reaper lists the labelled        *)
(* containers and removes the old ones: it cannot tell a live one from a   *)
(* leftover.  The daemon may die at any moment and is started again.       *)
(*                                                                         *)
(* Each action is one call to Docker or one local step; between two of     *)
(* them anything else may happen.  Time is a Tick that ages containers and *)
(* runs the deadlines down.  Docker itself is external: it is what Run and *)
(* reapOrphans can observe of it, including calls that fail.               *)
(***************************************************************************)
EXTENDS Integers, FiniteSets, LimitRules

CONSTANTS
    Runs,           \* the calls of Run
    Requested,      \* the timeouts requests ask for (0: none)
    TimeoutRange,   \* [min, max]: the language's timeout limits
    ReapMaxAge,     \* reapMaxAge in ticks
    StartDelay,     \* most ticks from the creation of a container to its start
    StopDelay,      \* most ticks from the end of a program to the end of its logs
    StdinKinds,     \* subset of {"none", "fits", "large"}
    Fates,          \* subset of ProgramFates: how programs may end
    MaxFaulty,      \* how many runs may meet failing Docker calls
    MaxCrashes      \* how often the daemon may die

(* How the process in a container ended: its exit code, whether the kernel *)
(* killed it for memory, and whether Docker then reports OOMKilled (the    *)
(* code says the flag is unreliable).  100 is what the image's wrapper     *)
(* exits with when the compile step fails, and what a program may use too. *)
Ended(code, memory, flag) == [code |-> code, memory |-> memory, flag |-> flag]

Exit0      == Ended(0, FALSE, FALSE)
Exit1      == Ended(1, FALSE, FALSE)
Exit100    == Ended(100, FALSE, FALSE)
Own137     == Ended(137, FALSE, FALSE)
OomFlagged == Ended(137, TRUE, TRUE)
OomSilent  == Ended(137, TRUE, FALSE)
ChildOom   == Ended(0, TRUE, TRUE)
ProgramFates ==
    {Exit0, Exit1, Exit100, Own137, OomFlagged, OomSilent, ChildOom}

\* A container removed by force while its process runs: SIGKILL, code 137.
Killed == Own137

NotEnded == Ended(-1, FALSE, FALSE)

ASSUME RangeAssumption ==
    TimeoutRange \in [min : Nat, max : Nat \ {0}] /\ ValidRange(TimeoutRange)
ASSUME RequestedAssumption == Requested \subseteq Nat
ASSUME TimeAssumption ==
    ReapMaxAge \in Nat \ {0} /\ StartDelay \in Nat /\ StopDelay \in Nat
ASSUME EnvironmentAssumption ==
    /\ StdinKinds \subseteq {"none", "fits", "large"}
    /\ Fates \subseteq ProgramFates
    /\ MaxFaulty \in Nat
    /\ MaxCrashes \in Nat

VARIABLES
    pc,         \* pc[r]: the next step of run r
    stdin,      \* stdin[r]: what the request sends to the program
    limit,      \* limit[r]: effectiveTimeout of the request
    cancelled,  \* cancelled[r]: the request's context is done
    elapsed,    \* elapsed[r]: ticks since execCtx began, limit[r]+1 if more
    lag,        \* lag[r]: ticks spent opening or closing the container
    result,     \* result[r]: the status Run returns
    dir,        \* dir[r]: the workspace: "none", "made", or "left" by RemoveAll
    ctr,        \* ctr[r]: the container in Docker
    age,        \* age[r]: ticks since ctr[r] was created, at most ReapMaxAge
    fate,       \* fate[r]: how the container's process ended
    faulty,     \* runs that met a failing Docker call
    daemon,     \* the runboxd process
    crashes,    \* how often it died
    pass,       \* pass[p]: the state of reaper pass p
    todo        \* todo[p]: the containers pass p has still to look at

runVars    == <<pc, stdin, limit, cancelled, elapsed, lag, result, dir, faulty>>
dockerVars == <<ctr, age, fate>>
reaperVars == <<pass, todo>>
daemonVars == <<daemon, crashes>>
vars == <<runVars, dockerVars, reaperVars, daemonVars>>

\* reapOrphans runs once at startup and then from the ticker of reapLoop.
Passes == {"startup", "loop"}

Opening == {"created", "attach", "start"}
Executing == {"stdin", "wait"}
Closing == {"inspect", "logs"}

\* Where Run still needs its container.
Needs == Opening \cup Executing \cup Closing

Active == {"mkdir", "fill", "create", "remove", "cleanup"} \cup Needs

Statuses == {"ok", "runtime_error", "timeout", "oom", "compile_error",
             "internal_error", "unsupported"}

Exists(r) == ctr[r] \in {"created", "running", "exited"}

Init ==
    /\ pc = [r \in Runs |-> "idle"]
    /\ stdin = [r \in Runs |-> "none"]
    /\ limit = [r \in Runs |-> TimeoutRange.max]
    /\ cancelled = [r \in Runs |-> FALSE]
    /\ elapsed = [r \in Runs |-> 0]
    /\ lag = [r \in Runs |-> 0]
    /\ result = [r \in Runs |-> "none"]
    /\ dir = [r \in Runs |-> "none"]
    /\ ctr = [r \in Runs |-> "none"]
    /\ age = [r \in Runs |-> 0]
    /\ fate = [r \in Runs |-> NotEnded]
    /\ faulty = {}
    /\ daemon = "starting"
    /\ crashes = 0
    /\ pass = [p \in Passes |-> "idle"]
    /\ todo = [p \in Passes |-> {}]
-----------------------------------------------------------------------------
(* Idioms of Run.                                                          *)

Goto(r, l) == pc' = [pc EXCEPT ![r] = l]

\* return status from the place where the deferred calls start at label l.
Return(r, status, l) ==
    /\ result' = [result EXCEPT ![r] = status]
    /\ Goto(r, l)

\* A call to Docker on behalf of r fails for a reason outside the model.
Fault(r) ==
    /\ r \in faulty \/ Cardinality(faulty) < MaxFaulty
    /\ faulty' = faulty \cup {r}

\* The call fails because of x, or by a fault.
FailsBy(r, x) == (x /\ UNCHANGED faulty) \/ Fault(r)

\* Docker removes the container by force; a running process is killed.
ForceRemove(r) ==
    /\ ctr' = [ctr EXCEPT ![r] = IF Exists(r) THEN "removed" ELSE @]
    /\ fate' = [fate EXCEPT ![r] = IF ctr[r] = "running" THEN Killed ELSE @]
    /\ UNCHANGED age

DeadlinePassed(r) == elapsed[r] >= limit[r]

\* os.RemoveAll of the workspace; its error is ignored.
RemoveAll(r) == \E d \in {"none", "left"} : dir' = [dir EXCEPT ![r] = d]

\* statusForExit
statusForExit(code) ==
    CASE code = 0   -> "ok"
      [] code = 100 -> "compile_error"
      [] OTHER      -> "runtime_error"
-----------------------------------------------------------------------------
(* Mistakes this code could have; the properties are checked to reject     *)
(* them.                                                                   *)

\* setupWorkspace without its deferred RemoveAll.
FillDirLeaks(r) ==
    /\ pc[r] = "fill"
    /\ \/ Goto(r, "create") /\ UNCHANGED result
       \/ Return(r, "internal_error", "done")
    /\ UNCHANGED <<stdin, limit, cancelled, elapsed, lag, dir, faulty,
                   dockerVars, reaperVars, daemonVars>>

\* setupWorkspace removes what it made, and Run drops its error.
FillDirErrorDropped(r) ==
    /\ pc[r] = "fill"
    /\ UNCHANGED dir \/ RemoveAll(r)
    /\ Goto(r, "create")
    /\ UNCHANGED <<stdin, limit, cancelled, elapsed, lag, result, faulty,
                   dockerVars, reaperVars, daemonVars>>

\* Only Docker's OOMKilled flag counts.
InspectTrustsFlag(r) ==
    /\ pc[r] = "inspect"
    /\ \E oomKilled \in BOOLEAN :
          /\ \/ /\ oomKilled = (ctr[r] # "removed" /\ fate[r].flag)
                /\ UNCHANGED faulty
             \/ ~oomKilled /\ Fault(r)
          /\ IF oomKilled THEN Return(r, "oom", "remove")
                          ELSE Goto(r, "logs") /\ UNCHANGED result
    /\ UNCHANGED <<stdin, limit, cancelled, elapsed, lag, dir,
                   dockerVars, reaperVars, daemonVars>>

\* An age limit that is one tick short.
isOrphanEarly(r) == age[r] + 1 >= ReapMaxAge

\* The comparison of isOrphan the wrong way round.
isOrphanReversed(r) == age[r] < ReapMaxAge

\* ContainerList without All: only running containers are seen.
ReapListRunning(p) ==
    /\ pass[p] = "idle"
    /\ daemon = "starting" \/ (p = "loop" /\ daemon = "serving")
    /\ pass' = [pass EXCEPT ![p] = "listed"]
    /\ todo' = [todo EXCEPT ![p] = {r \in Runs : ctr[r] = "running"}]
    /\ UNCHANGED <<runVars, dockerVars, daemonVars>>
-----------------------------------------------------------------------------
(* Run, step by step.                                                      *)

\* lookupSpec found the language; the request's values are read.
Begin(r) ==
    /\ daemon = "serving"
    /\ pc[r] = "idle"
    /\ \E req \in Requested :
          limit' = [limit EXCEPT ![r] = effectiveTimeout(req, TimeoutRange)]
    /\ \E kind \in StdinKinds : stdin' = [stdin EXCEPT ![r] = kind]
    /\ Goto(r, "mkdir")
    /\ UNCHANGED <<cancelled, elapsed, lag, result, dir, faulty,
                   dockerVars, reaperVars, daemonVars>>

\* lookupSpec failed.
BeginUnsupported(r) ==
    /\ daemon = "serving"
    /\ pc[r] = "idle"
    /\ Return(r, "unsupported", "done")
    /\ UNCHANGED <<stdin, limit, cancelled, elapsed, lag, dir, faulty,
                   dockerVars, reaperVars, daemonVars>>

\* setupWorkspace: os.MkdirTemp ...
MakeDir(r) ==
    /\ pc[r] = "mkdir"
    /\ \/ /\ dir' = [dir EXCEPT ![r] = "made"]
          /\ Goto(r, "fill")
          /\ UNCHANGED result
       \/ /\ Return(r, "internal_error", "done")
          /\ UNCHANGED dir
    /\ UNCHANGED <<stdin, limit, cancelled, elapsed, lag, faulty,
                   dockerVars, reaperVars, daemonVars>>

\* ... then the files; an error makes it remove what was made.
FillDir(r) ==
    /\ pc[r] = "fill"
    /\ \/ /\ Goto(r, "create")
          /\ UNCHANGED <<dir, result>>
       \/ /\ RemoveAll(r)
          /\ Return(r, "internal_error", "done")
    /\ UNCHANGED <<stdin, limit, cancelled, elapsed, lag, faulty,
                   dockerVars, reaperVars, daemonVars>>

\* ContainerCreate with createCtx, which the request cannot cancel.
Create(r) ==
    /\ pc[r] = "create"
    /\ ctr' = [ctr EXCEPT ![r] = "created"]
    /\ age' = [age EXCEPT ![r] = 0]
    /\ lag' = [lag EXCEPT ![r] = 0]
    /\ Goto(r, "created")
    /\ UNCHANGED <<stdin, limit, cancelled, elapsed, result, dir, faulty, fate,
                   reaperVars, daemonVars>>

\* It fails, or its 30 seconds pass; Docker may have made the container, and
\* Run has no ID to remove it by.
CreateFails(r) ==
    /\ pc[r] = "create"
    /\ Fault(r)
    /\ \/ UNCHANGED <<ctr, age>>
       \/ /\ ctr' = [ctr EXCEPT ![r] = "created"]
          /\ age' = [age EXCEPT ![r] = 0]
    /\ Return(r, "internal_error", "cleanup")
    /\ UNCHANGED <<stdin, limit, cancelled, elapsed, lag, dir, fate,
                   reaperVars, daemonVars>>

\* if ctx.Err() != nil
CheckContext(r) ==
    /\ pc[r] = "created"
    /\ IF cancelled[r]
         THEN Return(r, "internal_error", "remove")
         ELSE /\ Goto(r, IF stdin[r] = "none" THEN "start" ELSE "attach")
              /\ UNCHANGED result
    /\ UNCHANGED <<stdin, limit, cancelled, elapsed, lag, dir, faulty,
                   dockerVars, reaperVars, daemonVars>>

Attach(r) ==
    /\ pc[r] = "attach"
    /\ \/ /\ ~cancelled[r] /\ ctr[r] = "created"
          /\ Goto(r, "start")
          /\ UNCHANGED <<result, faulty>>
       \/ /\ FailsBy(r, cancelled[r] \/ ctr[r] = "removed")
          /\ Return(r, "internal_error", "remove")
    /\ UNCHANGED <<stdin, limit, cancelled, elapsed, lag, dir,
                   dockerVars, reaperVars, daemonVars>>

\* ContainerStart; execCtx starts to run down when it returns.
Start(r) ==
    /\ pc[r] = "start"
    /\ ~cancelled[r]
    /\ ctr[r] = "created"
    /\ ctr' = [ctr EXCEPT ![r] = "running"]
    /\ elapsed' = [elapsed EXCEPT ![r] = 0]
    /\ Goto(r, IF stdin[r] = "none" THEN "wait" ELSE "stdin")
    /\ UNCHANGED <<stdin, limit, cancelled, lag, result, dir, faulty, age, fate,
                   reaperVars, daemonVars>>

\* The call returns an error; Docker may have started the container.
StartFails(r) ==
    /\ pc[r] = "start"
    /\ FailsBy(r, cancelled[r] \/ ctr[r] = "removed")
    /\ \/ UNCHANGED ctr
       \/ ctr[r] = "created" /\ ctr' = [ctr EXCEPT ![r] = "running"]
    /\ Return(r, "internal_error", "remove")
    /\ UNCHANGED <<stdin, limit, cancelled, elapsed, lag, dir, age, fate,
                   reaperVars, daemonVars>>

\* io.Copy to the attached connection and CloseWrite.  Neither looks at
\* execCtx: what does not fit in the buffers waits until the program reads.
WriteStdin(r) ==
    /\ pc[r] = "stdin"
    /\ ctr[r] = "running" \/ stdin[r] = "fits"
    /\ Goto(r, "wait")
    /\ UNCHANGED <<stdin, limit, cancelled, elapsed, lag, result, dir, faulty,
                   dockerVars, reaperVars, daemonVars>>

\* The connection is gone with the process behind it.
WriteStdinFails(r) ==
    /\ pc[r] = "stdin"
    /\ FailsBy(r, ctr[r] # "running")
    /\ Return(r, "internal_error", "remove")
    /\ UNCHANGED <<stdin, limit, cancelled, elapsed, lag, dir,
                   dockerVars, reaperVars, daemonVars>>

\* case err := <-wait.Error
WaitError(r) ==
    /\ pc[r] = "wait"
    /\ FailsBy(r, DeadlinePassed(r) \/ cancelled[r] \/ ctr[r] = "removed")
    /\ Return(r, IF DeadlinePassed(r) /\ ~cancelled[r] THEN "timeout"
                                                      ELSE "internal_error",
              "remove")
    /\ UNCHANGED <<stdin, limit, cancelled, elapsed, lag, dir,
                   dockerVars, reaperVars, daemonVars>>

\* case res := <-wait.Result (Go picks either when both are ready)
WaitResult(r) ==
    /\ pc[r] = "wait"
    /\ ctr[r] \in {"exited", "removed"}
    /\ lag' = [lag EXCEPT ![r] = 0]
    /\ Goto(r, "inspect")
    /\ UNCHANGED <<stdin, limit, cancelled, elapsed, result, dir, faulty,
                   dockerVars, reaperVars, daemonVars>>

\* ContainerInspect; an error only loses the flag.
Inspect(r) ==
    /\ pc[r] = "inspect"
    /\ \E oomKilled \in BOOLEAN :
          /\ \/ /\ oomKilled = (ctr[r] # "removed" /\ fate[r].flag)
                /\ UNCHANGED faulty
             \/ ~oomKilled /\ Fault(r)
          /\ IF oomKilled \/ fate[r].code = 137
               THEN Return(r, "oom", "remove")
               ELSE Goto(r, "logs") /\ UNCHANGED result
    /\ UNCHANGED <<stdin, limit, cancelled, elapsed, lag, dir,
                   dockerVars, reaperVars, daemonVars>>

\* ContainerLogs and StdCopy, both under execCtx.
ReadLogs(r) ==
    /\ pc[r] = "logs"
    /\ \/ /\ ~DeadlinePassed(r) /\ ~cancelled[r] /\ ctr[r] # "removed"
          /\ Return(r, statusForExit(fate[r].code), "remove")
          /\ UNCHANGED faulty
       \/ /\ FailsBy(r, DeadlinePassed(r) \/ cancelled[r] \/ ctr[r] = "removed")
          /\ Return(r, "internal_error", "remove")
    /\ UNCHANGED <<stdin, limit, cancelled, elapsed, lag, dir,
                   dockerVars, reaperVars, daemonVars>>

\* The deferred ContainerRemove, with a context of its own.
Remove(r) ==
    /\ pc[r] = "remove"
    /\ Goto(r, "cleanup")
    /\ \/ ForceRemove(r) /\ UNCHANGED faulty
       \/ Fault(r) /\ UNCHANGED dockerVars
    /\ UNCHANGED <<stdin, limit, cancelled, elapsed, lag, result, dir,
                   reaperVars, daemonVars>>

\* The deferred os.RemoveAll; Run returns.
Cleanup(r) ==
    /\ pc[r] = "cleanup"
    /\ RemoveAll(r)
    /\ Goto(r, "done")
    /\ UNCHANGED <<stdin, limit, cancelled, elapsed, lag, result, faulty,
                   dockerVars, reaperVars, daemonVars>>

Step(r) ==
    \/ MakeDir(r) \/ FillDir(r)
    \/ Create(r) \/ CreateFails(r) \/ CheckContext(r)
    \/ Attach(r) \/ Start(r) \/ StartFails(r)
    \/ (stdin[r] = "fits" /\ WriteStdin(r)) \/ WriteStdinFails(r)
    \/ WaitError(r) \/ WaitResult(r) \/ Inspect(r) \/ ReadLogs(r)
    \/ Remove(r) \/ Cleanup(r)
-----------------------------------------------------------------------------
(* The reaper: reapOrphans, from main's run and from reapLoop.             *)

\* The startup pass runs once before the server listens; the ticker of
\* reapLoop, started just before it, may fire at any time.
ReapList(p) ==
    /\ pass[p] = "idle"
    /\ daemon = "starting" \/ (p = "loop" /\ daemon = "serving")
    /\ pass' = [pass EXCEPT ![p] = "listed"]
    /\ todo' = [todo EXCEPT ![p] = {r \in Runs : Exists(r)}]
    /\ UNCHANGED <<runVars, dockerVars, daemonVars>>

\* ContainerList fails: the pass ends, and with it the start-up.
ReapListFails(p) ==
    /\ pass[p] = "idle"
    /\ p = "startup" /\ daemon = "starting"
    /\ daemon' = "serving"
    /\ UNCHANGED <<runVars, dockerVars, reaperVars, crashes>>

\* isOrphan(c.Created, now, maxAge) for each item, with now read once.
isOrphan(r) == age[r] >= ReapMaxAge

ReapCutoff(p) ==
    /\ pass[p] = "listed"
    /\ pass' = [pass EXCEPT ![p] = "removing"]
    /\ todo' = [todo EXCEPT ![p] = {r \in @ : isOrphan(r)}]
    /\ UNCHANGED <<runVars, dockerVars, daemonVars>>

\* ContainerRemove of one item; an error is logged and skipped.
ReapRemove(p, r) ==
    /\ pass[p] = "removing"
    /\ r \in todo[p]
    /\ ForceRemove(r)
    /\ todo' = [todo EXCEPT ![p] = @ \ {r}]
    /\ UNCHANGED <<runVars, pass, daemonVars>>

ReapRemoveFails(p, r) ==
    /\ pass[p] = "removing"
    /\ r \in todo[p]
    /\ todo' = [todo EXCEPT ![p] = @ \ {r}]
    /\ UNCHANGED <<runVars, dockerVars, pass, daemonVars>>

ReapEnd(p) ==
    /\ pass[p] = "removing"
    /\ todo[p] = {}
    /\ pass' = [pass EXCEPT ![p] = "idle"]
    /\ daemon' = IF p = "startup" THEN "serving" ELSE daemon
    /\ UNCHANGED <<runVars, dockerVars, todo, crashes>>

Reap(p) ==
    \/ ReapList(p) \/ ReapListFails(p) \/ ReapCutoff(p) \/ ReapEnd(p)
    \/ \E r \in Runs : ReapRemove(p, r) \/ ReapRemoveFails(p, r)
-----------------------------------------------------------------------------
(* The environment: clients, programs, the process, time.                  *)

Cancel(r) ==
    /\ pc[r] \in Active
    /\ ~cancelled[r]
    /\ cancelled' = [cancelled EXCEPT ![r] = TRUE]
    /\ UNCHANGED <<pc, stdin, limit, elapsed, lag, result, dir, faulty,
                   dockerVars, reaperVars, daemonVars>>

\* The program reads a stdin that did not fit.
ReadStdin(r) == stdin[r] = "large" /\ WriteStdin(r)

Exit(r) ==
    /\ ctr[r] = "running"
    /\ ctr' = [ctr EXCEPT ![r] = "exited"]
    /\ \E f \in Fates : fate' = [fate EXCEPT ![r] = f]
    /\ UNCHANGED <<runVars, age, reaperVars, daemonVars>>

\* The process dies, or a shutdown runs out of its 8 seconds: deferred calls
\* of the runs in progress do not happen.
Crash ==
    /\ daemon # "down"
    /\ crashes < MaxCrashes
    /\ daemon' = "down"
    /\ crashes' = crashes + 1
    /\ pc' = [r \in Runs |-> IF pc[r] \in Active THEN "lost" ELSE pc[r]]
    /\ pass' = [p \in Passes |-> "idle"]
    /\ todo' = [p \in Passes |-> {}]
    /\ UNCHANGED <<stdin, limit, cancelled, elapsed, lag, result, dir, faulty,
                   dockerVars>>

Restart ==
    /\ daemon = "down"
    /\ daemon' = "starting"
    /\ UNCHANGED <<runVars, dockerVars, reaperVars, crashes>>

(* A run at its deadline in the select, or with a stdin that fits, does    *)
(* not sleep through a tick: the timer and the scheduler are prompt next   *)
(* to a tick.  Docker is as slow as StartDelay and StopDelay let it be.    *)
Prompt(r) ==
    /\ pc[r] = "wait" => ~DeadlinePassed(r)
    /\ pc[r] = "stdin" => stdin[r] = "large"
    /\ pc[r] \in Opening => lag[r] < StartDelay
    /\ pc[r] \in Closing => lag[r] < StopDelay

Tick ==
    /\ \A r \in Runs : Prompt(r)
    /\ age' = [r \in Runs |-> IF Exists(r) THEN Least(age[r] + 1, ReapMaxAge)
                                           ELSE age[r]]
    /\ elapsed' = [r \in Runs |->
                     IF pc[r] \in Executing \cup Closing
                       THEN Least(elapsed[r] + 1, limit[r] + 1)
                       ELSE elapsed[r]]
    /\ lag' = [r \in Runs |-> IF pc[r] \in Opening \cup Closing THEN lag[r] + 1
                                                                ELSE lag[r]]
    /\ UNCHANGED <<pc, stdin, limit, cancelled, result, dir, faulty, ctr, fate,
                   reaperVars, daemonVars>>

Next ==
    \/ \E r \in Runs : \/ Begin(r) \/ BeginUnsupported(r) \/ Step(r)
                       \/ Cancel(r) \/ ReadStdin(r) \/ Exit(r)
    \/ \E p \in Passes : Reap(p)
    \/ Crash \/ Restart \/ Tick

Spec == Init /\ [][Next]_vars

\* Run waits for the program, to read or to end, and only a fault could end
\* the wait now.
Blocked(r) ==
    /\ ctr[r] = "running"
    /\ \/ pc[r] = "stdin" /\ stdin[r] = "large"
       \/ pc[r] = "wait" /\ ~DeadlinePassed(r) /\ ~cancelled[r]

(* Goroutines and the daemon's supervisor are scheduled, the ticker fires  *)
(* and time passes.  Docker's removals may fail, but not every time.       *)
(* Programs need not end, clients need do nothing, and no fault has to     *)
(* happen.                                                                 *)
Fairness ==
    /\ \A r \in Runs : WF_vars(~Blocked(r) /\ Step(r))
    /\ \A p \in Passes : WF_vars(Reap(p))
    /\ \A r \in Runs : SF_vars(\E p \in Passes : ReapRemove(p, r))
    /\ WF_vars(Restart)
    /\ WF_vars(Tick)

FairSpec == Spec /\ Fairness
-----------------------------------------------------------------------------
(* Properties.                                                             *)

\* The type of the state; the limit that effectiveTimeout gives a run is never
\* zero and never above the language's maximum.
TypeOK ==
    /\ pc \in [Runs -> {"idle", "done", "lost"} \cup Active]
    /\ stdin \in [Runs -> {"none", "fits", "large"}]
    /\ limit \in [Runs -> 1..TimeoutRange.max]
    /\ cancelled \in [Runs -> BOOLEAN]
    /\ elapsed \in [Runs -> 0..(TimeoutRange.max + 1)]
    /\ lag \in [Runs -> Nat]
    /\ result \in [Runs -> {"none"} \cup Statuses]
    /\ dir \in [Runs -> {"none", "made", "left"}]
    /\ ctr \in [Runs -> {"none", "created", "running", "exited", "removed"}]
    /\ age \in [Runs -> 0..ReapMaxAge]
    /\ fate \in [Runs -> ProgramFates \cup {NotEnded}]
    /\ faulty \in SUBSET Runs
    /\ daemon \in {"down", "starting", "serving"}
    /\ crashes \in 0..MaxCrashes
    /\ pass \in [Passes -> {"idle", "listed", "removing"}]
    /\ todo \in [Passes -> SUBSET Runs]

\* The reaper spares the living: no container is taken from a run that still
\* needs it (TestReapOrphansSparesLive).  reapOrphans knows only the age of a
\* container, so this rests on reapMaxAge being longer than a run may take.
\* A run that writes more stdin than the buffers hold is left out: it may take
\* any time (see WithinWallClock).
LiveKeepsContainer ==
    \A r \in Runs :
        pc[r] \in Needs /\ stdin[r] # "large" => ctr[r] # "removed"

\* What the status of run r says of its program.
Truthful(r) ==
    /\ result[r] = "ok" => fate[r].code = 0
    /\ result[r] = "runtime_error" => fate[r].code \notin {-1, 0, 100, 137}
    /\ result[r] = "compile_error" => fate[r].code = 100
    /\ result[r] = "timeout" => DeadlinePassed(r)
    /\ result[r] = "oom" => fate[r].memory \/ fate[r].code = 137
    /\ result[r] = "internal_error" =>
         \/ cancelled[r]
         \/ r \in faulty
         \/ ctr[r] = "none"
         \/ fate[r] # NotEnded /\ (stdin[r] # "none" \/ DeadlinePassed(r))

\* A status is true of the program, however the end of the program, the
\* deadline, a cancellation, the reaper and failing calls interleave.
\* sandbox.go: ok is "ran to completion, exit 0", runtime_error "ran, exited
\* non-zero", timeout "exceeded wall-clock limit".  A run blames the sandbox
\* only with a reason: the client left, a Docker call failed, the workspace
\* could not be made, or the program had ended, and its stdin was not yet
\* written or the limit passed while the logs were read.
StatusTruthful == \A r \in Runs : Truthful(r)

\* Nothing outlives its run without a reason, on every return path of Run:
\* only a crash leaves a workspace that os.RemoveAll was not called on, and
\* only a crash or a failing Docker call a container that no run will remove.
\* (Nobody comes back to a workspace that RemoveAll left.)
OrphansExplained ==
    \A r \in Runs :
        /\ dir[r] = "made" => pc[r] \in Active \cup {"lost"}
        /\ Exists(r) /\ pc[r] \notin Active => pc[r] = "lost" \/ r \in faulty

\* Every run returns, unless the daemon dies under it.
RunsReturn == \A r \in Runs : pc[r] \in Active ~> pc[r] \in {"done", "lost"}

\* No container stays for ever: what a failed removal, a lost answer to
\* ContainerCreate or a crash left behind is reaped.
ContainersRemoved == \A r \in Runs : Exists(r) ~> ~Exists(r)

\* The state of a run as handleExecute may think of it.
callOf(r) ==
    CASE pc[r] \in Active -> "busy"
      [] pc[r] = "done"   -> "answered"
      [] OTHER            -> pc[r]

answerOf(r) ==
    IF pc[r] # "done"
      THEN "none"
      ELSE CASE result[r] = "unsupported"    -> "unsupported"
             [] result[r] = "internal_error" -> "error"
             [] OTHER                        -> "status"

programOf(r) ==
    CASE ctr[r] = "none"    -> "none"
      [] ctr[r] = "removed" -> "gone"
      [] OTHER              -> "live"

Contract == INSTANCE SandboxContract WITH
    Unstarted <- FALSE,
    call <- [r \in Runs |-> callOf(r)],
    answer <- [r \in Runs |-> answerOf(r)],
    files <- dir,
    program <- [r \in Runs |-> programOf(r)]

\* The Docker backend keeps the contract of Sandbox.Run: one answer, RemoveAll
\* called on the workspace before it, no container without a workspace, none
\* created after the answer or by the reaper, and no status without one.
KeepsContract == Contract!Spec

\* README.md:70 promises a wall-clock time limit, and sandbox.go:15 says that
\* a program that exceeds it is killed: while Run waits for the program, no
\* more than the limit has passed.
WithinWallClock ==
    \A r \in Runs : pc[r] \in Executing => elapsed[r] <= limit[r]

\* sandbox.go:16: oom is "exceeded memory limit, killed"; docker.go:273 argues
\* that on the wait.Result path exit code 137 can mean nothing else.
OomMeansMemory ==
    \A r \in Runs : result[r] = "oom" => fate[r].memory

\* README.md:125: 5xx is used only for internal sandbox faults; a run that
\* nothing failed for and nobody cancelled is not one.
FailedExecutionIsAnswered ==
    \A r \in Runs :
        result[r] = "internal_error" =>
            cancelled[r] \/ r \in faulty \/ ctr[r] = "none"
=============================================================================
