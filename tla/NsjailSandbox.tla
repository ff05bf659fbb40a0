--------------------------- MODULE NsjailSandbox ----------------------------
(***************************************************************************)
(* The nsjail backend (internal/sandbox/nsjail.go).  A run r is one call   *)
(* of Run: it makes a workspace, for a compiled language runs a build      *)
(* jail, then the run jail, and tries to remove the workspace on every     *)
(* return.                                                                 *)
(*                                                                         *)
(* A jail is an nsjail process started with exec.CommandContext.  Three    *)
(* things race to end it: the program inside, nsjail's own time_limit,     *)
(* which leaves a line in nsjail's log, and the context of the stage,      *)
(* whose deadline is a grace period behind the time limit and which the    *)
(* client can cancel.  Run sees an exit code, the log and the context, and *)
(* has to tell what happened.  nsjail is external; a tick is a second.     *)
(***************************************************************************)
EXTENDS Integers, FiniteSets, LimitRules

CONSTANTS
    Runs,           \* the calls of Run
    Requested,      \* the timeouts requests ask for (0: none)
    TimeoutRange,   \* [min, max]: the language's timeout limits
    CompileTimeout, \* compileLimits.Timeout
    KillGrace,      \* nsjailKillGrace
    JailDelay,      \* most ticks from the time limit to the end of the jail
    Fates,          \* subset of JailFates: how jails may end by themselves
    MayHang,        \* runs whose nsjail may fail to keep its time limit
    MaxFaulty,      \* how many runs may meet a failing start or log read
    MaxCrashes      \* how often the daemon may die

(* How a jail ended: the exit code that Run sees, -1 for a signal.  nsjail *)
(* passes on the code of its child, 137 for a SIGKILL, and has a code of   *)
(* its own when it cannot set the jail up.                                 *)
Exit0       == 0
Exit1       == 1
Killed137   == 137
SetupFailed == 255
Signalled   == -1
NotEnded    == -2
JailFates   == {Exit0, Exit1, Killed137, SetupFailed}

ASSUME RangeAssumption ==
    TimeoutRange \in [min : Nat, max : Nat \ {0}] /\ ValidRange(TimeoutRange)
ASSUME CompileAssumption   == CompileTimeout \in Nat \ {0}
ASSUME RequestedAssumption == Requested \subseteq Nat
ASSUME GraceAssumption     == KillGrace \in Nat /\ JailDelay \in Nat
ASSUME EnvironmentAssumption ==
    /\ Fates \subseteq JailFates
    /\ MayHang \subseteq Runs
    /\ MaxFaulty \in Nat
    /\ MaxCrashes \in Nat

VARIABLES
    pc,         \* pc[r]: the next step of run r
    compiled,   \* compiled[r]: the language has a build command
    stage,      \* stage[r]: "build" or "run"
    limit,      \* limit[r]: effectiveTimeout of the request
    cancelled,  \* cancelled[r]: the request's context is done
    ctxErr,     \* ctxErr[r]: Err() of the stage's context
    result,     \* result[r]: the status Run returns
    dir,        \* dir[r]: the workspace: "none", "made", or "left" by RemoveAll
    jail,       \* jail[r]: the stage's nsjail process
    elapsed,    \* elapsed[r]: ticks since the stage began, capped
    hung,       \* hung[r]: nsjail does not keep its time limit
    fate,       \* fate[r]: how the jail ended
    token,      \* token[r]: the log says that the time limit fired
    faulty,     \* runs that met a failing start or log read
    daemon,     \* the runboxd process is up
    crashes     \* how often it died

runVars    == <<pc, compiled, stage, limit, cancelled, ctxErr, result, dir, faulty>>
jailVars   == <<jail, elapsed, hung, fate, token>>
daemonVars == <<daemon, crashes>>
vars == <<runVars, jailVars, daemonVars>>

Active == {"setup", "prepare", "spawn", "wait", "cleanup"}

Statuses == {"ok", "runtime_error", "timeout", "oom", "compile_error",
             "internal_error", "unsupported"}

Init ==
    /\ pc = [r \in Runs |-> "idle"]
    /\ compiled \in [Runs -> BOOLEAN]
    /\ stage = [r \in Runs |-> "build"]
    /\ limit = [r \in Runs |-> TimeoutRange.max]
    /\ cancelled = [r \in Runs |-> FALSE]
    /\ ctxErr = [r \in Runs |-> "nil"]
    /\ result = [r \in Runs |-> "none"]
    /\ dir = [r \in Runs |-> "none"]
    /\ jail = [r \in Runs |-> "none"]
    /\ elapsed = [r \in Runs |-> 0]
    /\ hung = [r \in Runs |-> FALSE]
    /\ fate = [r \in Runs |-> NotEnded]
    /\ token = [r \in Runs |-> FALSE]
    /\ faulty = {}
    /\ daemon = TRUE
    /\ crashes = 0
-----------------------------------------------------------------------------
(* Idioms of Run.                                                          *)

Goto(r, l) == pc' = [pc EXCEPT ![r] = l]

Return(r, status, l) ==
    /\ result' = [result EXCEPT ![r] = status]
    /\ Goto(r, l)

Fault(r) ==
    /\ r \in faulty \/ Cardinality(faulty) < MaxFaulty
    /\ faulty' = faulty \cup {r}

\* time_limit of the configuration that writeNsjailConfig writes for a stage.
TimeLimit(r) == IF stage[r] = "build" THEN CompileTimeout ELSE limit[r]

\* A mistake: the context has no grace behind nsjail's own limit.
DeadlineNoGrace(r) == TimeLimit(r)

\* The deadline of buildCtx and runCtx.
Deadline(r) == TimeLimit(r) + KillGrace

\* os.RemoveAll of the workspace; its error is ignored.  The program can
\* cause one: /build is mounted rw, under the uid of the daemon.
RemoveAll(r) == \E d \in {"none", "left"} : dir' = [dir EXCEPT ![r] = d]

\* The jail is gone, and Run's cmd.Run can return.
JailEnds(r, f) ==
    /\ jail[r] = "running"
    /\ jail' = [jail EXCEPT ![r] = "ended"]
    /\ fate' = [fate EXCEPT ![r] = f]

\* A mistake: the exit code is looked at before the time limit.
statusForNsjailExitCodeFirst(code, timedOut) ==
    CASE code = 0   -> "ok"
      [] code = 137 -> "oom"
      [] OTHER      -> IF timedOut THEN "timeout" ELSE "runtime_error"

\* statusForNsjailExit
statusForNsjailExit(code, timedOut) ==
    CASE timedOut                -> "timeout"
      [] ~timedOut /\ code = 0   -> "ok"
      [] ~timedOut /\ code = 137 -> "oom"
      [] OTHER                   -> "runtime_error"

\* A mistake: any end of the context counts as the deadline.
TimedOutByAnyContext(r, timedOut) ==
    /\ timedOut = (token[r] \/ ctxErr[r] # "nil")
    /\ UNCHANGED faulty

\* timedOut: the log has nsjail's line, or the stage's context passed its
\* deadline.  A log that cannot be read has no line.
TimedOut(r, timedOut) ==
    \/ timedOut = (token[r] \/ ctxErr[r] = "deadline") /\ UNCHANGED faulty
    \/ timedOut = (ctxErr[r] = "deadline") /\ Fault(r)
-----------------------------------------------------------------------------
(* Mistakes this code could have; the properties are checked to reject     *)
(* them.                                                                   *)

\* An error return between setupWorkspace and its deferred RemoveAll.
PrepareLeaks(r) ==
    /\ pc[r] = "prepare"
    /\ ctxErr' = [ctxErr EXCEPT ![r] = IF cancelled[r] THEN "canceled" ELSE "nil"]
    /\ elapsed' = [elapsed EXCEPT ![r] = 0]
    /\ jail' = [jail EXCEPT ![r] = "none"]
    /\ fate' = [fate EXCEPT ![r] = NotEnded]
    /\ token' = [token EXCEPT ![r] = FALSE]
    /\ hung' = [hung EXCEPT ![r] = FALSE]
    /\ \/ Goto(r, "spawn") /\ UNCHANGED result
       \/ Return(r, "internal_error", "done")
    /\ UNCHANGED <<compiled, stage, limit, cancelled, dir, faulty, daemonVars>>

\* The exit code of the build is not looked at.
CollectBuildIgnoresExit(r) ==
    /\ pc[r] = "wait" /\ stage[r] = "build"
    /\ jail[r] = "ended"
    /\ \E timedOut \in BOOLEAN :
          /\ TimedOut(r, timedOut)
          /\ IF timedOut
               THEN Return(r, "timeout", "cleanup") /\ UNCHANGED stage
               ELSE /\ Goto(r, "prepare")
                    /\ stage' = [stage EXCEPT ![r] = "run"]
                    /\ UNCHANGED result
    /\ UNCHANGED <<compiled, limit, cancelled, ctxErr, dir, jailVars, daemonVars>>

\* The command is given the request's context and not the stage's.
ContextKillsOnCancelOnly(r) ==
    /\ pc[r] = "wait"
    /\ cancelled[r]
    /\ JailEnds(r, Signalled)
    /\ UNCHANGED <<runVars, elapsed, hung, token, daemonVars>>
-----------------------------------------------------------------------------
(* Run, step by step.                                                      *)

\* lookupSpec found the language; the request's values are read.
Begin(r) ==
    /\ daemon
    /\ pc[r] = "idle"
    /\ \E req \in Requested :
          limit' = [limit EXCEPT ![r] = effectiveTimeout(req, TimeoutRange)]
    /\ Goto(r, "setup")
    /\ UNCHANGED <<compiled, stage, cancelled, ctxErr, result, dir, faulty,
                   jailVars, daemonVars>>

\* lookupSpec failed.
BeginUnsupported(r) ==
    /\ daemon
    /\ pc[r] = "idle"
    /\ Return(r, "unsupported", "done")
    /\ UNCHANGED <<compiled, stage, limit, cancelled, ctxErr, dir, faulty,
                   jailVars, daemonVars>>

\* setupWorkspace, which tries to remove what it made when it fails.
Setup(r) ==
    /\ pc[r] = "setup"
    /\ \/ /\ dir' = [dir EXCEPT ![r] = "made"]
          /\ stage' = [stage EXCEPT ![r] = IF compiled[r] THEN "build" ELSE "run"]
          /\ Goto(r, "prepare")
          /\ UNCHANGED result
       \/ /\ RemoveAll(r)
          /\ Return(r, "internal_error", "done")
          /\ UNCHANGED stage
    /\ UNCHANGED <<compiled, limit, cancelled, ctxErr, faulty, jailVars, daemonVars>>

\* The build directory and the configuration of the stage's jail, which may
\* fail, then the stage's context.
Prepare(r) ==
    /\ pc[r] = "prepare"
    /\ ctxErr' = [ctxErr EXCEPT ![r] = IF cancelled[r] THEN "canceled" ELSE "nil"]
    /\ elapsed' = [elapsed EXCEPT ![r] = 0]
    /\ jail' = [jail EXCEPT ![r] = "none"]
    /\ fate' = [fate EXCEPT ![r] = NotEnded]
    /\ token' = [token EXCEPT ![r] = FALSE]
    /\ hung' = [hung EXCEPT ![r] = FALSE]
    /\ \/ Goto(r, "spawn") /\ UNCHANGED result
       \/ Return(r, "internal_error", "cleanup")
    /\ UNCHANGED <<compiled, stage, limit, cancelled, dir, faulty, daemonVars>>

\* cmd.Run starts nsjail ...
Spawn(r) ==
    /\ pc[r] = "spawn"
    /\ ctxErr[r] = "nil"
    /\ jail' = [jail EXCEPT ![r] = "running"]
    /\ Goto(r, "wait")
    /\ UNCHANGED <<compiled, stage, limit, cancelled, ctxErr, result, dir, faulty,
                   elapsed, hung, fate, token, daemonVars>>

\* ... or returns an error that is no ExitError: the context is already done,
\* or the process cannot be started.  The build stage returns it; the run
\* stage goes on with exit code 0.
SpawnFails(r) ==
    /\ pc[r] = "spawn"
    /\ (ctxErr[r] # "nil" /\ UNCHANGED faulty) \/ Fault(r)
    /\ Return(r, IF stage[r] = "build"
                   THEN "internal_error"
                   ELSE statusForNsjailExit(0, ctxErr[r] = "deadline"),
              "cleanup")
    /\ UNCHANGED <<compiled, stage, limit, cancelled, ctxErr, dir, jailVars,
                   daemonVars>>

\* After the build jail: time limit, then exit code, then the run stage.
CollectBuild(r) ==
    /\ pc[r] = "wait" /\ stage[r] = "build"
    /\ jail[r] = "ended"
    /\ \E timedOut \in BOOLEAN :
          /\ TimedOut(r, timedOut)
          /\ CASE timedOut ->
                    Return(r, "timeout", "cleanup") /\ UNCHANGED stage
               [] ~timedOut /\ fate[r] # 0 ->
                    Return(r, "compile_error", "cleanup") /\ UNCHANGED stage
               [] OTHER ->
                    /\ Goto(r, "prepare")
                    /\ stage' = [stage EXCEPT ![r] = "run"]
                    /\ UNCHANGED result
    /\ UNCHANGED <<compiled, limit, cancelled, ctxErr, dir, jailVars, daemonVars>>

\* The context was done while the build jail ended with 0: cmd.Run returns
\* the context's error.  (The run stage ignores that error too.)
CollectBuildError(r) ==
    /\ pc[r] = "wait" /\ stage[r] = "build"
    /\ jail[r] = "ended"
    /\ fate[r] = 0
    /\ ctxErr[r] # "nil"
    /\ Return(r, "internal_error", "cleanup")
    /\ UNCHANGED <<compiled, stage, limit, cancelled, ctxErr, dir, faulty,
                   jailVars, daemonVars>>

CollectRun(r) ==
    /\ pc[r] = "wait" /\ stage[r] = "run"
    /\ jail[r] = "ended"
    /\ \E timedOut \in BOOLEAN :
          /\ TimedOut(r, timedOut)
          /\ Return(r, statusForNsjailExit(fate[r], timedOut), "cleanup")
    /\ UNCHANGED <<compiled, stage, limit, cancelled, ctxErr, dir, jailVars,
                   daemonVars>>

\* The deferred os.RemoveAll; Run returns.
Cleanup(r) ==
    /\ pc[r] = "cleanup"
    /\ RemoveAll(r)
    /\ Goto(r, "done")
    /\ UNCHANGED <<compiled, stage, limit, cancelled, ctxErr, result, faulty,
                   jailVars, daemonVars>>

Step(r) ==
    \/ Setup(r) \/ Prepare(r) \/ Spawn(r) \/ SpawnFails(r)
    \/ CollectBuild(r) \/ CollectBuildError(r) \/ CollectRun(r)
    \/ Cleanup(r)
-----------------------------------------------------------------------------
(* The jail, and what ends it.                                             *)

\* The command inside ends, or nsjail cannot set the jail up.
JailExit(r) ==
    /\ \E f \in Fates : JailEnds(r, f)
    /\ UNCHANGED <<runVars, elapsed, hung, token, daemonVars>>

\* nsjail's time_limit: the child is killed and the log says so.
TimeLimitFires(r) ==
    /\ ~hung[r]
    /\ elapsed[r] >= TimeLimit(r)
    /\ JailEnds(r, Killed137)
    /\ token' = [token EXCEPT ![r] = TRUE]
    /\ UNCHANGED <<runVars, elapsed, hung, daemonVars>>

Hang(r) ==
    /\ r \in MayHang
    /\ jail[r] = "running" /\ ~hung[r]
    /\ hung' = [hung EXCEPT ![r] = TRUE]
    /\ UNCHANGED <<runVars, jail, elapsed, fate, token, daemonVars>>

\* exec.CommandContext kills nsjail when the stage's context is done.
ContextKills(r) ==
    /\ pc[r] = "wait"
    /\ ctxErr[r] # "nil"
    /\ JailEnds(r, Signalled)
    /\ UNCHANGED <<runVars, elapsed, hung, token, daemonVars>>

Cancel(r) ==
    /\ pc[r] \in Active
    /\ ~cancelled[r]
    /\ cancelled' = [cancelled EXCEPT ![r] = TRUE]
    /\ ctxErr' = [ctxErr EXCEPT ![r] = IF @ = "nil" THEN "canceled" ELSE @]
    /\ UNCHANGED <<pc, compiled, stage, limit, result, dir, faulty, jailVars,
                   daemonVars>>

\* The daemon dies; nsjail processes live on under their time limit.
Crash ==
    /\ daemon
    /\ crashes < MaxCrashes
    /\ daemon' = FALSE
    /\ crashes' = crashes + 1
    /\ pc' = [r \in Runs |-> IF pc[r] \in Active THEN "lost" ELSE pc[r]]
    /\ UNCHANGED <<compiled, stage, limit, cancelled, ctxErr, result, dir, faulty,
                   jailVars>>

Restart ==
    /\ ~daemon
    /\ daemon' = TRUE
    /\ UNCHANGED <<runVars, jailVars, crashes>>

(* Go code and a kill are quick next to a tick; nsjail ends a jail within  *)
(* JailDelay of its time limit unless it hangs.                            *)
Prompt(r) ==
    /\ pc[r] # "spawn"
    /\ pc[r] = "wait" => jail[r] = "running" /\ ctxErr[r] = "nil"
    /\ jail[r] = "running" /\ ~hung[r] => elapsed[r] < TimeLimit(r) + JailDelay

Tick ==
    /\ \A r \in Runs : Prompt(r)
    /\ elapsed' = [r \in Runs |->
                     IF jail[r] = "running" THEN Least(elapsed[r] + 1, Deadline(r))
                                            ELSE elapsed[r]]
    /\ ctxErr' = [r \in Runs |->
                    IF pc[r] = "wait" /\ elapsed'[r] >= Deadline(r)
                      THEN "deadline" ELSE ctxErr[r]]
    /\ UNCHANGED <<pc, compiled, stage, limit, cancelled, result, dir, faulty,
                   jail, hung, fate, token, daemonVars>>

Next ==
    \/ \E r \in Runs :
          \/ Begin(r) \/ BeginUnsupported(r) \/ Step(r)
          \/ JailExit(r) \/ TimeLimitFires(r) \/ Hang(r) \/ ContextKills(r)
          \/ Cancel(r)
    \/ Crash \/ Restart \/ Tick

Spec == Init /\ [][Next]_vars

(* Goroutines are scheduled, a kill arrives, nsjail acts on its limit and  *)
(* time passes.  Programs need not end, clients need do nothing.           *)
Fairness ==
    /\ \A r \in Runs : /\ WF_vars(Step(r))
                       /\ WF_vars(TimeLimitFires(r))
                       /\ WF_vars(ContextKills(r))
    /\ WF_vars(Tick)

FairSpec == Spec /\ Fairness
-----------------------------------------------------------------------------
(* Properties.                                                             *)

\* The type of the state; a limit is never zero and never above the maximum.
TypeOK ==
    /\ pc \in [Runs -> {"idle", "done", "lost"} \cup Active]
    /\ compiled \in [Runs -> BOOLEAN]
    /\ stage \in [Runs -> {"build", "run"}]
    /\ limit \in [Runs -> 1..TimeoutRange.max]
    /\ cancelled \in [Runs -> BOOLEAN]
    /\ ctxErr \in [Runs -> {"nil", "canceled", "deadline"}]
    /\ result \in [Runs -> {"none"} \cup Statuses]
    /\ dir \in [Runs -> {"none", "made", "left"}]
    /\ jail \in [Runs -> {"none", "running", "ended"}]
    /\ elapsed \in [Runs -> Nat]
    /\ hung \in [Runs -> BOOLEAN]
    /\ fate \in [Runs -> JailFates \cup {Signalled, NotEnded}]
    /\ token \in [Runs -> BOOLEAN]
    /\ faulty \in SUBSET Runs
    /\ daemon \in BOOLEAN
    /\ crashes \in 0..MaxCrashes

\* What the status of run r says of its jails.
Truthful(r) ==
    /\ result[r] = "ok" =>
         /\ stage[r] = "run"
         /\ fate[r] = 0 \/ (jail[r] = "none" /\ (cancelled[r] \/ r \in faulty))
    /\ result[r] = "runtime_error" =>
         stage[r] = "run" /\ fate[r] \in {1, 255, -1}
    /\ result[r] = "compile_error" => stage[r] = "build" /\ fate[r] # 0
    /\ result[r] = "timeout" => elapsed[r] >= TimeLimit(r)
    /\ result[r] = "oom" => stage[r] = "run" /\ fate[r] = 137

\* A status is true of the jails, however the end of the program, the time
\* limit, the deadline and a cancellation interleave: ok and runtime_error
\* speak of the run stage, compile_error of a build that failed, timeout of a
\* limit that passed.  (ok without a run: see OkMeansExitZero; an nsjail that
\* cannot set the jail up has its own code 255 reported as runtime_error.)
StatusTruthful == \A r \in Runs : Truthful(r)

\* A program that nsjail stopped at its time limit exits with 137, like one
\* killed for memory: it is still reported as a timeout, unless the log could
\* not be read.
TimeLimitReported ==
    \A r \in Runs :
        token[r] /\ result[r] # "none" => result[r] = "timeout" \/ r \in faulty

\* nsjail.go:279: the context "only fires if nsjail itself hangs", in both
\* stages: it never takes the decision from an nsjail that keeps its limit.
BackstopOnlyForHung ==
    \A r \in Runs : ctxErr[r] = "deadline" => hung[r]

\* The program is run only after a build that ended with 0 inside its limit.
RunAfterBuild ==
    [][\A r \in Runs :
          pc[r] = "wait" /\ stage'[r] # stage[r] =>
              fate[r] = 0 /\ ~token[r] /\ ctxErr[r] # "deadline"]_vars

\* Every run returns, even when nsjail hangs, unless the daemon dies under it;
\* and no jail runs for ever: Run kills it if nsjail hangs, nsjail ends it if
\* the daemon died.  Only both failures together leave one.
RunsEnd ==
    \A r \in Runs :
        /\ pc[r] \in Active ~> pc[r] \in {"done", "lost"}
        /\ jail[r] = "running" ~>
             jail[r] # "running" \/ (hung[r] /\ pc[r] = "lost")

\* The state of a run as handleExecute may think of it.
callOf(r) ==
    CASE pc[r] \in Active -> "busy"
      [] pc[r] = "done"   -> "answered"
      [] OTHER            -> pc[r]

answerOf(r) ==
    IF pc[r] # "done"
      THEN "none"
      ELSE CASE result[r] = "unsupported"    -> "unsupported"
             [] result[r] = "internal_error" -> "error"
             [] OTHER                        -> "status"

programOf(r) ==
    CASE jail[r] = "running" -> "live"
      [] jail[r] = "ended"   -> "gone"
      [] OTHER -> IF compiled[r] /\ stage[r] = "run" THEN "gone" ELSE "none"

Contract == INSTANCE SandboxContract WITH
    Unstarted <- TRUE,
    call <- [r \in Runs |-> callOf(r)],
    answer <- [r \in Runs |-> answerOf(r)],
    files <- dir,
    program <- [r \in Runs |-> programOf(r)]

\* The nsjail backend keeps the contract of Sandbox.Run: one answer,
\* RemoveAll called on the workspace before it, and no jail without a
\* workspace or after the answer.  (It may report a status for a jail that did not start: see
\* OkMeansExitZero.)
KeepsContract == Contract!Spec

\* sandbox.go:13: ok is "ran to completion, exit 0", for every client that is
\* still there to read it.
OkMeansExitZero ==
    \A r \in Runs : result[r] = "ok" /\ ~cancelled[r] => fate[r] = Exit0
=============================================================================
