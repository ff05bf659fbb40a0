------------------------ MODULE NsjailSandboxProofs -------------------------
(***************************************************************************)
(* Proofs about NsjailSandbox for any number of runs, any limits, any      *)
(* number of failing calls, hanging jails and crashes.                     *)
(***************************************************************************)
EXTENDS NsjailSandbox, TLAPS

\* An effective timeout is positive and within the language's maximum.
LEMMA EffectiveTimeoutRange ==
    ASSUME NEW req \in Nat
    PROVE  effectiveTimeout(req, TimeoutRange) \in 1..TimeoutRange.max
  BY RangeAssumption DEF effectiveTimeout, Greatest, Least, ValidRange

\* Every exit has a status.
LEMMA ExitStatus ==
    ASSUME NEW code, NEW timedOut \in BOOLEAN
    PROVE  statusForNsjailExit(code, timedOut) \in Statuses
  BY DEF statusForNsjailExit, Statuses

USE DEF runVars, jailVars, daemonVars

\* The initial states are well typed.
LEMMA TypeInit == Init => TypeOK
  BY RangeAssumption, EnvironmentAssumption DEF Init, TypeOK

\* Every step keeps the types.
LEMMA TypeStep == TypeOK /\ [Next]_vars => TypeOK'
  <1> SUFFICES ASSUME TypeOK, [Next]_vars PROVE TypeOK'
    OBVIOUS
  <1> USE RangeAssumption, CompileAssumption, GraceAssumption, EnvironmentAssumption
  <1>1. ASSUME NEW r \in Runs, Begin(r) PROVE TypeOK'
    <2>1. PICK req \in Requested :
             limit' = [limit EXCEPT ![r] = effectiveTimeout(req, TimeoutRange)]
      BY <1>1 DEF Begin
    <2>2. limit' \in [Runs -> 1..TimeoutRange.max]
      BY <2>1, EffectiveTimeoutRange, RequestedAssumption DEF TypeOK
    <2> QED
      BY <1>1, <2>2 DEF Begin, Goto, TypeOK, Active
  <1>2. ASSUME NEW r \in Runs, BeginUnsupported(r) PROVE TypeOK'
    BY <1>2 DEF BeginUnsupported, Return, Goto, TypeOK, Statuses
  <1>3. ASSUME NEW r \in Runs, Setup(r) PROVE TypeOK'
    <2>1. dir' \in [Runs -> {"none", "made", "left"}]
      BY <1>3 DEF Setup, RemoveAll, TypeOK
    <2>2. stage' \in [Runs -> {"build", "run"}]
      BY <1>3 DEF Setup, TypeOK
    <2>3. pc' \in [Runs -> {"idle", "done", "lost"} \cup Active]
      BY <1>3 DEF Setup, Return, Goto, TypeOK, Active
    <2>4. result' \in [Runs -> {"none"} \cup Statuses]
      BY <1>3 DEF Setup, Return, TypeOK, Statuses
    <2> QED
      BY <1>3, <2>1, <2>2, <2>3, <2>4 DEF Setup, RemoveAll, TypeOK
  <1>4. ASSUME NEW r \in Runs, Prepare(r) PROVE TypeOK'
    <2>1. /\ token' \in [Runs -> BOOLEAN]
          /\ hung' \in [Runs -> BOOLEAN]
      BY <1>4 DEF Prepare, TypeOK
    <2>2. pc' \in [Runs -> {"idle", "done", "lost"} \cup Active]
      BY <1>4 DEF Prepare, Return, Goto, TypeOK, Active
    <2>3. result' \in [Runs -> {"none"} \cup Statuses]
      BY <1>4 DEF Prepare, Return, TypeOK, Statuses
    <2> QED
      BY <1>4, <2>1, <2>2, <2>3 DEF Prepare, TypeOK
  <1>5. ASSUME NEW r \in Runs, Spawn(r) PROVE TypeOK'
    BY <1>5 DEF Spawn, Goto, TypeOK, Active
  <1>6. ASSUME NEW r \in Runs, SpawnFails(r) PROVE TypeOK'
    <2>1. statusForNsjailExit(0, ctxErr[r] = "deadline") \in Statuses
      BY ExitStatus
    <2>2. result' \in [Runs -> {"none"} \cup Statuses]
      BY <1>6, <2>1 DEF SpawnFails, Return, TypeOK, Statuses
    <2> QED
      BY <1>6, <2>2 DEF SpawnFails, Fault, Return, Goto, TypeOK, Active
  <1>7. ASSUME NEW r \in Runs, CollectBuild(r) PROVE TypeOK'
    BY <1>7 DEF CollectBuild, TimedOut, Fault, Return, Goto, TypeOK, Statuses,
       Active
  <1>8. ASSUME NEW r \in Runs, CollectBuildError(r) PROVE TypeOK'
    BY <1>8 DEF CollectBuildError, Return, Goto, TypeOK, Statuses, Active
  <1>9. ASSUME NEW r \in Runs, CollectRun(r) PROVE TypeOK'
    <2>1. PICK timedOut \in BOOLEAN :
             /\ TimedOut(r, timedOut)
             /\ result' = [result EXCEPT ![r] =
                               statusForNsjailExit(fate[r], timedOut)]
      BY <1>9 DEF CollectRun, Return
    <2>2. statusForNsjailExit(fate[r], timedOut) \in Statuses
      BY ExitStatus
    <2>3. result' \in [Runs -> {"none"} \cup Statuses]
      BY <2>1, <2>2 DEF TypeOK
    <2>4. faulty' \in SUBSET Runs
      BY <2>1 DEF TimedOut, Fault, TypeOK
    <2> QED
      BY <1>9, <2>3, <2>4 DEF CollectRun, Return, Goto, TypeOK, Active
  <1>10. ASSUME NEW r \in Runs, Cleanup(r) PROVE TypeOK'
    BY <1>10 DEF Cleanup, RemoveAll, Goto, TypeOK
  <1>11. ASSUME NEW r \in Runs, JailExit(r) PROVE TypeOK'
    BY <1>11 DEF JailExit, JailEnds, TypeOK
  <1>12. ASSUME NEW r \in Runs, TimeLimitFires(r) PROVE TypeOK'
    <2>1. token' \in [Runs -> BOOLEAN]
      BY <1>12 DEF TimeLimitFires, TypeOK
    <2> QED
      BY <1>12, <2>1 DEF TimeLimitFires, JailEnds, JailFates, TypeOK
  <1>13. ASSUME NEW r \in Runs, Hang(r) PROVE TypeOK'
    BY <1>13 DEF Hang, TypeOK
  <1>14. ASSUME NEW r \in Runs, ContextKills(r) PROVE TypeOK'
    BY <1>14 DEF ContextKills, JailEnds, TypeOK
  <1>15. ASSUME NEW r \in Runs, Cancel(r) PROVE TypeOK'
    <2>1. cancelled' \in [Runs -> BOOLEAN]
      BY <1>15 DEF Cancel, TypeOK
    <2> QED
      BY <1>15, <2>1 DEF Cancel, TypeOK
  <1>16. CASE Crash
    <2>1. pc' \in [Runs -> {"idle", "done", "lost"} \cup Active]
      BY <1>16 DEF Crash, TypeOK
    <2>2. daemon' \in BOOLEAN
      BY <1>16 DEF Crash
    <2> QED
      BY <1>16, <2>1, <2>2 DEF Crash, TypeOK
  <1>17. CASE Restart
    BY <1>17 DEF Restart, TypeOK
  <1>18. CASE Tick
    <2>1. elapsed' \in [Runs -> Nat]
      BY <1>18 DEF Tick, TypeOK, Least, Deadline, TimeLimit
    <2>2. ctxErr' \in [Runs -> {"nil", "canceled", "deadline"}]
      BY <1>18 DEF Tick, TypeOK
    <2> QED
      BY <1>18, <2>1, <2>2 DEF Tick, TypeOK
  <1>19. CASE UNCHANGED vars
    BY <1>19 DEF vars, TypeOK
  <1> QED
    BY <1>1, <1>2, <1>3, <1>4, <1>5, <1>6, <1>7, <1>8, <1>9, <1>10, <1>11,
       <1>12, <1>13, <1>14, <1>15, <1>16, <1>17, <1>18, <1>19 DEF Next, Step

\* Type correctness of the nsjail backend.
THEOREM TypeCorrect == Spec => []TypeOK
  BY TypeInit, TypeStep, PTL DEF Spec
-----------------------------------------------------------------------------
(* What Run tells of its jails.  A status is decided from three witnesses, *)
(* the exit code, the log and the context.  The invariant says what each   *)
(* of them means while the call is in progress, and that they no longer    *)
(* change once a status is chosen.                                         *)

\* The part of TimeLimitReported about one run.
Reported(r) ==
    token[r] /\ result[r] # "none" => result[r] = "timeout" \/ r \in faulty

\* Before a jail of the current stage exists there is no verdict on it.
Fresh(r) ==
    /\ pc[r] \in {"idle", "setup", "prepare", "spawn", "wait"} => result[r] = "none"
    /\ pc[r] \in {"idle", "setup", "prepare", "spawn"} =>
         /\ jail[r] # "running"
         /\ ~token[r]
         /\ ctxErr[r] # "deadline"
    /\ pc[r] = "spawn" => jail[r] = "none" /\ fate[r] = NotEnded
    /\ pc[r] = "wait" => jail[r] # "none"

\* What the three witnesses say.
Witnesses(r) ==
    /\ jail[r] = "running" => result[r] = "none" /\ ~token[r]
    /\ jail[r] = "ended" => fate[r] # NotEnded
    /\ token[r] => fate[r] = Killed137 /\ elapsed[r] >= TimeLimit(r)
    /\ ctxErr[r] = "deadline" => elapsed[r] >= TimeLimit(r)
    /\ ctxErr[r] = "canceled" => cancelled[r]

VerdictOf(r) == Fresh(r) /\ Witnesses(r) /\ Truthful(r) /\ Reported(r)

VerdictInv == \A r \in Runs : VerdictOf(r)

\* Nothing that VerdictOf speaks of changes for s; a fault stays a fault.
Same(s) ==
    /\ pc'[s] = pc[s] /\ stage'[s] = stage[s] /\ limit'[s] = limit[s]
    /\ cancelled'[s] = cancelled[s] /\ ctxErr'[s] = ctxErr[s]
    /\ result'[s] = result[s] /\ jail'[s] = jail[s]
    /\ elapsed'[s] = elapsed[s] /\ fate'[s] = fate[s] /\ token'[s] = token[s]
    /\ s \in faulty => s \in faulty'

\* A run that a step does not touch keeps its part of the invariant.
LEMMA Frame ==
    ASSUME NEW s \in Runs, VerdictOf(s), Same(s)
    PROVE  VerdictOf(s)'
  BY DEF VerdictOf, Fresh, Witnesses, Truthful, Reported, Same, TimeLimit

\* Before the first call there are no jails and no statuses.
LEMMA VerdictInit == Init => VerdictInv
  BY DEF Init, VerdictInv, VerdictOf, Fresh, Witnesses, Truthful, Reported

\* Every step keeps the invariant.
LEMMA VerdictStep == TypeOK /\ VerdictInv /\ [Next]_vars => VerdictInv'
  <1> SUFFICES ASSUME TypeOK, VerdictInv, [Next]_vars PROVE VerdictInv'
    OBVIOUS
  <1> USE RangeAssumption, CompileAssumption, GraceAssumption, EnvironmentAssumption
  <1>0. \A r \in Runs : VerdictOf(r)
    BY DEF VerdictInv
  <1>1. ASSUME NEW r \in Runs, Begin(r) PROVE VerdictInv'
    <2>1. VerdictOf(r)'
      BY <1>0, <1>1 DEF Begin, Goto, VerdictOf, Fresh, Witnesses, Truthful,
         Reported, TimeLimit, TypeOK
    <2>2. \A s \in Runs : s # r => Same(s)
      BY <1>1 DEF Begin, Goto, Same, TypeOK
    <2> QED
      BY <1>0, <2>1, <2>2, Frame DEF VerdictInv
  <1>2. ASSUME NEW r \in Runs, BeginUnsupported(r) PROVE VerdictInv'
    <2>1. VerdictOf(r)'
      BY <1>0, <1>2 DEF BeginUnsupported, Return, Goto, VerdictOf, Fresh,
         Witnesses, Truthful, Reported, TimeLimit, TypeOK
    <2>2. \A s \in Runs : s # r => Same(s)
      BY <1>2 DEF BeginUnsupported, Return, Goto, Same, TypeOK
    <2> QED
      BY <1>0, <2>1, <2>2, Frame DEF VerdictInv
  <1>3. ASSUME NEW r \in Runs, Setup(r) PROVE VerdictInv'
    <2>1. VerdictOf(r)'
      BY <1>0, <1>3 DEF Setup, RemoveAll, Return, Goto, VerdictOf, Fresh, Witnesses,
         Truthful, Reported, TimeLimit, TypeOK
    <2>2. \A s \in Runs : s # r => Same(s)
      BY <1>3 DEF Setup, Return, Goto, Same, TypeOK
    <2> QED
      BY <1>0, <2>1, <2>2, Frame DEF VerdictInv
  <1>4. ASSUME NEW r \in Runs, Prepare(r) PROVE VerdictInv'
    <2>1. VerdictOf(r)'
      BY <1>0, <1>4 DEF Prepare, Return, Goto, VerdictOf, Fresh, Witnesses,
         Truthful, Reported, TimeLimit, TypeOK, Exit0, Exit1, Killed137,
         SetupFailed, Signalled, NotEnded, JailFates
    <2>2. \A s \in Runs : s # r => Same(s)
      BY <1>4 DEF Prepare, Return, Goto, Same, TypeOK
    <2> QED
      BY <1>0, <2>1, <2>2, Frame DEF VerdictInv
  <1>5. ASSUME NEW r \in Runs, Spawn(r) PROVE VerdictInv'
    <2>1. VerdictOf(r)'
      BY <1>0, <1>5 DEF Spawn, Goto, VerdictOf, Fresh, Witnesses, Truthful,
         Reported, TimeLimit, TypeOK, Exit0, Exit1, Killed137, SetupFailed,
         Signalled, NotEnded, JailFates
    <2>2. \A s \in Runs : s # r => Same(s)
      BY <1>5 DEF Spawn, Goto, Same, TypeOK
    <2> QED
      BY <1>0, <2>1, <2>2, Frame DEF VerdictInv
  <1>6. ASSUME NEW r \in Runs, SpawnFails(r) PROVE VerdictInv'
    <2>1. VerdictOf(r)'
      BY <1>0, <1>6 DEF SpawnFails, Fault, Return, Goto, statusForNsjailExit,
         VerdictOf, Fresh, Witnesses, Truthful, Reported, TimeLimit, TypeOK,
         Exit0, Exit1, Killed137, SetupFailed, Signalled, NotEnded, JailFates
    <2>2. \A s \in Runs : s # r => Same(s)
      BY <1>6 DEF SpawnFails, Fault, Return, Goto, statusForNsjailExit, Same,
         TypeOK
    <2> QED
      BY <1>0, <2>1, <2>2, Frame DEF VerdictInv
  <1>7. ASSUME NEW r \in Runs, CollectBuild(r) PROVE VerdictInv'
    <2>1. VerdictOf(r)'
      BY <1>0, <1>7 DEF CollectBuild, TimedOut, Fault, Return, Goto, VerdictOf,
         Fresh, Witnesses, Truthful, Reported, TimeLimit, TypeOK, Exit0, Exit1,
         Killed137, SetupFailed, Signalled, NotEnded, JailFates
    <2>2. \A s \in Runs : s # r => Same(s)
      BY <1>7 DEF CollectBuild, TimedOut, Fault, Return, Goto, Same, TypeOK
    <2> QED
      BY <1>0, <2>1, <2>2, Frame DEF VerdictInv
  <1>8. ASSUME NEW r \in Runs, CollectBuildError(r) PROVE VerdictInv'
    <2>1. VerdictOf(r)'
      BY <1>0, <1>8 DEF CollectBuildError, Return, Goto, VerdictOf, Fresh,
         Witnesses, Truthful, Reported, TimeLimit, TypeOK, Killed137
    <2>2. \A s \in Runs : s # r => Same(s)
      BY <1>8 DEF CollectBuildError, Return, Goto, Same, TypeOK
    <2> QED
      BY <1>0, <2>1, <2>2, Frame DEF VerdictInv
  <1>9. ASSUME NEW r \in Runs, CollectRun(r) PROVE VerdictInv'
    <2>1. VerdictOf(r)'
      BY <1>0, <1>9 DEF CollectRun, TimedOut, Fault, Return, Goto,
         statusForNsjailExit, VerdictOf, Fresh, Witnesses, Truthful, Reported,
         TimeLimit, TypeOK, Exit0, Exit1, Killed137, SetupFailed, Signalled,
         NotEnded, JailFates
    <2>2. \A s \in Runs : s # r => Same(s)
      BY <1>9 DEF CollectRun, TimedOut, Fault, Return, Goto,
         statusForNsjailExit, Same, TypeOK
    <2> QED
      BY <1>0, <2>1, <2>2, Frame DEF VerdictInv
  <1>10. ASSUME NEW r \in Runs, Cleanup(r) PROVE VerdictInv'
    <2>1. VerdictOf(r)'
      BY <1>0, <1>10 DEF Cleanup, RemoveAll, Goto, VerdictOf, Fresh, Witnesses, Truthful,
         Reported, TimeLimit, TypeOK
    <2>2. \A s \in Runs : s # r => Same(s)
      BY <1>10 DEF Cleanup, Goto, Same, TypeOK
    <2> QED
      BY <1>0, <2>1, <2>2, Frame DEF VerdictInv
  <1>11. ASSUME NEW r \in Runs, JailExit(r) PROVE VerdictInv'
    <2>1. VerdictOf(r)'
      BY <1>0, <1>11 DEF JailExit, JailEnds, VerdictOf, Fresh, Witnesses,
         Truthful, Reported, TimeLimit, TypeOK, Exit0, Exit1, Killed137,
         SetupFailed, Signalled, NotEnded, JailFates
    <2>2. \A s \in Runs : s # r => Same(s)
      BY <1>11 DEF JailExit, JailEnds, Same, TypeOK
    <2> QED
      BY <1>0, <2>1, <2>2, Frame DEF VerdictInv
  <1>12. ASSUME NEW r \in Runs, TimeLimitFires(r) PROVE VerdictInv'
    <2>1. VerdictOf(r)'
      BY <1>0, <1>12 DEF TimeLimitFires, JailEnds, VerdictOf, Fresh, Witnesses,
         Truthful, Reported, TimeLimit, TypeOK, Exit0, Exit1, Killed137,
         SetupFailed, Signalled, NotEnded, JailFates
    <2>2. \A s \in Runs : s # r => Same(s)
      BY <1>12 DEF TimeLimitFires, JailEnds, Same, TypeOK
    <2> QED
      BY <1>0, <2>1, <2>2, Frame DEF VerdictInv
  <1>13. ASSUME NEW r \in Runs, Hang(r) PROVE VerdictInv'
    <2>1. VerdictOf(r)'
      BY <1>0, <1>13 DEF Hang, VerdictOf, Fresh, Witnesses, Truthful, Reported,
         TimeLimit, TypeOK
    <2>2. \A s \in Runs : s # r => Same(s)
      BY <1>13 DEF Hang, Same, TypeOK
    <2> QED
      BY <1>0, <2>1, <2>2, Frame DEF VerdictInv
  <1>14. ASSUME NEW r \in Runs, ContextKills(r) PROVE VerdictInv'
    <2>1. VerdictOf(r)'
      BY <1>0, <1>14 DEF ContextKills, JailEnds, VerdictOf, Fresh, Witnesses,
         Truthful, Reported, TimeLimit, TypeOK, Exit0, Exit1, Killed137,
         SetupFailed, Signalled, NotEnded, JailFates
    <2>2. \A s \in Runs : s # r => Same(s)
      BY <1>14 DEF ContextKills, JailEnds, Same, TypeOK
    <2> QED
      BY <1>0, <2>1, <2>2, Frame DEF VerdictInv
  <1>15. ASSUME NEW r \in Runs, Cancel(r) PROVE VerdictInv'
    <2>1. VerdictOf(r)'
      BY <1>0, <1>15 DEF Cancel, VerdictOf, Fresh, Witnesses, Truthful,
         Reported, TimeLimit, TypeOK
    <2>2. \A s \in Runs : s # r => Same(s)
      BY <1>15 DEF Cancel, Same, TypeOK
    <2> QED
      BY <1>0, <2>1, <2>2, Frame DEF VerdictInv
  <1>16. CASE Crash
    BY <1>0, <1>16 DEF Crash, VerdictInv, VerdictOf, Fresh, Witnesses, Truthful,
                       Reported, TimeLimit, TypeOK, Active
  <1>17. CASE Restart
    BY <1>0, <1>17, Frame DEF Restart, VerdictInv, Same
  <1>18. CASE Tick
    BY <1>0, <1>18 DEF Tick, Prompt, Deadline, Least, VerdictInv, VerdictOf,
       Fresh,
                       Witnesses, Truthful, Reported, TimeLimit, TypeOK
  <1>19. CASE UNCHANGED vars
    BY <1>0, <1>19, Frame DEF vars, VerdictInv, Same
  <1> QED
    BY <1>1, <1>2, <1>3, <1>4, <1>5, <1>6, <1>7, <1>8, <1>9, <1>10, <1>11,
       <1>12, <1>13, <1>14, <1>15, <1>16, <1>17, <1>18, <1>19 DEF Next, Step

\* The inductive invariant.
LEMMA Verdicts == Spec => []VerdictInv
  BY TypeCorrect, VerdictInit, VerdictStep, PTL DEF Spec

\* Statuses tell the truth about the jails: no order of program end, time
\* limit, deadline, cancellation and fault makes Run report what did not
\* happen.
THEOREM StatusIsTruthful == Spec => []StatusTruthful
  <1>1. VerdictInv => StatusTruthful
    BY DEF VerdictInv, VerdictOf, StatusTruthful
  <1> QED
    BY <1>1, Verdicts, PTL

\* A time limit is reported as one, although its exit code is that of an
\* out-of-memory kill.
THEOREM TimeLimitIsReported == Spec => []TimeLimitReported
  <1>1. VerdictInv => TimeLimitReported
    BY DEF VerdictInv, VerdictOf, Reported, TimeLimitReported
  <1> QED
    BY <1>1, Verdicts, PTL

\* The program of a compiled language is run only after a build that ended
\* with 0 inside its limit: nothing of a failed, killed or late build is run.
THEOREM BuildPrecedesRun == Spec => RunAfterBuild
  <1>1. TypeOK /\ VerdictInv /\ [Next]_vars =>
          [\A r \in Runs :
              pc[r] = "wait" /\ stage'[r] # stage[r] =>
                  fate[r] = 0 /\ ~token[r] /\ ctxErr[r] # "deadline"]_vars
    <2> SUFFICES ASSUME TypeOK, VerdictInv, Next,
                        NEW r \in Runs, pc[r] = "wait", stage'[r] # stage[r]
                 PROVE  fate[r] = 0 /\ ~token[r] /\ ctxErr[r] # "deadline"
      OBVIOUS
    <2>1. CollectBuild(r)
      <3>1. ASSUME NEW s \in Runs, CollectBuild(s) PROVE s = r
        <4> SUFFICES ASSUME s # r PROVE FALSE
          OBVIOUS
        <4>1. stage' = stage \/ stage' = [stage EXCEPT ![s] = "run"]
          BY <3>1 DEF CollectBuild
        <4> QED
          BY <4>1 DEF TypeOK
      <3>2. ASSUME NEW s \in Runs, Setup(s) PROVE FALSE
        <4>1. pc[s] = "setup" /\ s # r
          BY <3>2 DEF Setup
        <4>2. stage' = stage \/ stage' = [stage EXCEPT ![s] = IF compiled[s] THEN "build" ELSE "run"]
          BY <3>2 DEF Setup
        <4> QED
          BY <4>1, <4>2 DEF TypeOK
      <3> QED
        BY <3>1, <3>2 DEF Next, Step, Begin, BeginUnsupported, Prepare, Spawn,
           SpawnFails, CollectBuildError, CollectRun, Cleanup, JailExit,
           TimeLimitFires, Hang, ContextKills, Cancel, Crash, Restart, Tick
    <2>2. PICK timedOut \in BOOLEAN :
             TimedOut(r, timedOut) /\ ~timedOut /\ fate[r] = 0
      BY <2>1 DEF CollectBuild, TypeOK
    <2>3. ctxErr[r] # "deadline"
      BY <2>2 DEF TimedOut
    <2>4. token[r] => fate[r] = 137
      BY DEF VerdictInv, VerdictOf, Witnesses, Killed137
    <2> QED
      BY <2>2, <2>3, <2>4
  <1> QED
    BY <1>1, TypeCorrect, Verdicts, PTL DEF Spec, RunAfterBuild

-----------------------------------------------------------------------------
(* The grace period.                                                       *)

\* An nsjail that keeps its limit is never ended by the deadline of the
\* stage's context, provided it needs less than nsjailKillGrace to tear a
\* jail down.
THEOREM BackstopIsLast ==
    ASSUME JailDelay < KillGrace
    PROVE  Spec => []BackstopOnlyForHung
  <1>1. Init => BackstopOnlyForHung
    BY DEF Init, BackstopOnlyForHung
  <1>2. TypeOK /\ BackstopOnlyForHung /\ [Next]_vars => BackstopOnlyForHung'
    <2> SUFFICES ASSUME TypeOK, BackstopOnlyForHung, [Next]_vars
                 PROVE  BackstopOnlyForHung'
      OBVIOUS
    <2> USE DEF BackstopOnlyForHung
    <2>1. ASSUME NEW r \in Runs, Prepare(r) PROVE BackstopOnlyForHung'
      BY <2>1 DEF Prepare, TypeOK
    <2>2. ASSUME NEW r \in Runs, Hang(r) PROVE BackstopOnlyForHung'
      BY <2>2 DEF Hang, TypeOK
    <2>3. ASSUME NEW r \in Runs, Cancel(r) PROVE BackstopOnlyForHung'
      BY <2>3 DEF Cancel, TypeOK
    <2>4. CASE Tick
      <3> SUFFICES ASSUME NEW r \in Runs, ctxErr'[r] = "deadline", ~hung[r]
                   PROVE  FALSE
        BY <2>4 DEF Tick
      <3>1. /\ pc[r] = "wait"
            /\ elapsed'[r] >= Deadline(r)
        BY <2>4 DEF Tick, TypeOK
      <3>2. /\ jail[r] = "running"
            /\ elapsed[r] < TimeLimit(r) + JailDelay
        BY <2>4, <3>1 DEF Tick, Prompt
      <3>3. elapsed'[r] \in Nat /\ elapsed'[r] <= elapsed[r] + 1
        BY <2>4, <3>2, RangeAssumption, CompileAssumption, GraceAssumption
           DEF Tick, TypeOK, Least, Deadline, TimeLimit
      <3>4. TimeLimit(r) \in Nat /\ elapsed[r] \in Nat
        BY CompileAssumption, RangeAssumption DEF TypeOK, TimeLimit
      <3> QED
        BY <3>1, <3>2, <3>3, <3>4, GraceAssumption DEF Deadline
    <2> QED
      BY <2>1, <2>2, <2>3, <2>4
         DEF Next, Step, vars, Begin, BeginUnsupported, Setup, Spawn, SpawnFails,
             CollectBuild, CollectBuildError, CollectRun, Cleanup, JailExit,
             TimeLimitFires, ContextKills, Crash, Restart
  <1> QED
    BY <1>1, <1>2, TypeCorrect, PTL DEF Spec

-----------------------------------------------------------------------------
(* The backend keeps the contract of Sandbox.Run: every step of it is one   *)
(* step of SandboxContract for the run that moves, or none.                 *)

\* What the place of a run in Run says about its workspace, its jail and its
\* result.
Shape(r) ==
    /\ pc[r] \in {"idle", "setup"} => jail[r] = "none" /\ stage[r] = "build"
    /\ pc[r] \in {"idle", "setup", "done"} => dir[r] # "made"
    /\ pc[r] \in {"prepare", "spawn", "wait", "cleanup"} => dir[r] = "made"
    /\ pc[r] \in {"prepare", "spawn", "wait"} /\ stage[r] = "build" => compiled[r]
    /\ pc[r] = "prepare" =>
         IF compiled[r] /\ stage[r] = "run" THEN jail[r] = "ended" ELSE jail[r] = "none"
    /\ pc[r] \in {"idle", "setup", "prepare", "spawn", "wait"} => result[r] = "none"
    /\ pc[r] = "cleanup" => result[r] \notin {"none", "unsupported"}

ShapeInv == \A r \in Runs : Shape(r)

\* Run never reports "unsupported" from an exit.
LEMMA ExitIsSupported ==
    ASSUME NEW code, NEW timedOut \in BOOLEAN
    PROVE  statusForNsjailExit(code, timedOut) \in {"ok", "timeout", "oom", "runtime_error"}
  BY DEF statusForNsjailExit

\* Initially nothing has a shape to lose.
LEMMA ShapeInit == Init => ShapeInv
  BY DEF Init, ShapeInv, Shape

\* Every step keeps the shape of every run.
LEMMA ShapeStep == TypeOK /\ ShapeInv /\ [Next]_vars => ShapeInv'
  <1> SUFFICES ASSUME TypeOK, ShapeInv, [Next]_vars PROVE ShapeInv'
    OBVIOUS
  <1>0. \A r \in Runs : Shape(r)
    BY DEF ShapeInv
  <1>1. ASSUME NEW r \in Runs, Shape(r)',
               \A q \in Runs \ {r} : /\ pc'[q] = pc[q] /\ dir'[q] = dir[q]
                                     /\ result'[q] = result[q] /\ jail'[q] = jail[q]
                                     /\ stage'[q] = stage[q] /\ compiled'[q] = compiled[q]
        PROVE  ShapeInv'
    BY <1>0, <1>1 DEF ShapeInv, Shape
  <1>2. ASSUME NEW r \in Runs, Begin(r) \/ BeginUnsupported(r) \/ Setup(r)
        PROVE  ShapeInv'
    <2>1. Shape(r)'
      BY <1>0, <1>2 DEF Begin, BeginUnsupported, Setup, RemoveAll, Return, Goto, Shape, TypeOK
    <2> QED
      BY <1>1, <1>2, <2>1 DEF Begin, BeginUnsupported, Setup, RemoveAll, Return, Goto, TypeOK
  <1>3. ASSUME NEW r \in Runs, Prepare(r) \/ Spawn(r) PROVE ShapeInv'
    <2>1. Shape(r)'
      BY <1>0, <1>3 DEF Prepare, Spawn, Return, Goto, Shape, TypeOK
    <2> QED
      BY <1>1, <1>3, <2>1 DEF Prepare, Spawn, Return, Goto, TypeOK
  <1>4. ASSUME NEW r \in Runs, SpawnFails(r) PROVE ShapeInv'
    <2>1. statusForNsjailExit(0, ctxErr[r] = "deadline") \in
             {"ok", "timeout", "oom", "runtime_error"}
      BY ExitIsSupported
    <2>2. Shape(r)'
      BY <1>0, <1>4, <2>1 DEF SpawnFails, Return, Goto, Shape, TypeOK
    <2> QED
      BY <1>1, <1>4, <2>2 DEF SpawnFails, Return, Goto, TypeOK
  <1>5. ASSUME NEW r \in Runs, CollectBuild(r) \/ CollectBuildError(r) PROVE ShapeInv'
    <2>1. Shape(r)'
      BY <1>0, <1>5 DEF CollectBuild, CollectBuildError, Return, Goto, Shape, TypeOK
    <2> QED
      BY <1>1, <1>5, <2>1 DEF CollectBuild, CollectBuildError, Return, Goto, TypeOK
  <1>6. ASSUME NEW r \in Runs, CollectRun(r) PROVE ShapeInv'
    <2>1. PICK timedOut \in BOOLEAN :
             Return(r, statusForNsjailExit(fate[r], timedOut), "cleanup")
      BY <1>6 DEF CollectRun
    <2>2. statusForNsjailExit(fate[r], timedOut) \in
             {"ok", "timeout", "oom", "runtime_error"}
      BY ExitIsSupported
    <2>3. Shape(r)'
      BY <1>0, <1>6, <2>1, <2>2 DEF CollectRun, Return, Goto, Shape, TypeOK
    <2> QED
      BY <1>1, <1>6, <2>1, <2>3 DEF CollectRun, Return, Goto, TypeOK
  <1>7. ASSUME NEW r \in Runs, Cleanup(r) PROVE ShapeInv'
    <2>1. Shape(r)'
      BY <1>0, <1>7 DEF Cleanup, RemoveAll, Goto, Shape, TypeOK
    <2> QED
      BY <1>1, <1>7, <2>1 DEF Cleanup, RemoveAll, Goto, TypeOK
  <1>8. ASSUME NEW r \in Runs, NEW f, JailEnds(r, f),
               UNCHANGED <<pc, dir, result, stage, compiled>>
        PROVE  ShapeInv'
    BY <1>0, <1>8 DEF JailEnds, ShapeInv, Shape, TypeOK
  <1>9. ASSUME NEW r \in Runs, JailExit(r) \/ TimeLimitFires(r) \/ ContextKills(r)
        PROVE  ShapeInv'
    BY <1>8, <1>9 DEF JailExit, TimeLimitFires, ContextKills
  <1>10. ASSUME UNCHANGED <<pc, dir, result, stage, compiled, jail>> PROVE ShapeInv'
    BY <1>0, <1>10 DEF ShapeInv, Shape
  <1>11. ASSUME NEW r \in Runs, Hang(r) \/ Cancel(r) PROVE ShapeInv'
    BY <1>10, <1>11 DEF Hang, Cancel
  <1>12. CASE Crash
    BY <1>0, <1>12 DEF Crash, ShapeInv, Shape, Active, TypeOK
  <1>13. CASE Restart \/ Tick \/ UNCHANGED vars
    BY <1>10, <1>13 DEF Restart, Tick, vars
  <1> QED
    BY <1>2, <1>3, <1>4, <1>5, <1>6, <1>7, <1>9, <1>11, <1>12, <1>13 DEF Next, Step

\* The initial states are initial states of the contract.
LEMMA ContractInit == Init => Contract!Init
  BY DEF Init, Contract!Init, callOf, answerOf, programOf, Active

\* The contract's variables are functions on the runs, before and after a step.
LEMMA ContractFunctional ==
    ASSUME TypeOK, TypeOK'
    PROVE  Contract!Functional /\ Contract!Functional'
  BY DEF TypeOK, Contract!Functional

\* A run that keeps its place, its result and its jail is still to the contract.
LEMMA StillFrame ==
    ASSUME NEW r \in Runs, pc'[r] = pc[r], dir'[r] = dir[r], result'[r] = result[r],
           jail'[r] = jail[r], stage'[r] = stage[r], compiled'[r] = compiled[r]
    PROVE  Contract!Still(r)
  BY DEF Contract!Still, callOf, answerOf, programOf

\* Every step of the backend is a step of the contract or a stutter.
LEMMA ContractStep ==
    ASSUME TypeOK, TypeOK', VerdictInv, ShapeInv, [Next]_vars
    PROVE  [Contract!Next]_(Contract!vars)
  <1> USE DEF Active
  <1>0. \A r \in Runs : Shape(r) /\ (pc[r] = "spawn" => jail[r] = "none")
    BY DEF ShapeInv, VerdictInv, VerdictOf, Fresh
  <1>1. ASSUME NEW r \in Runs, Contract!Moves(r) \/ Contract!Still(r),
               \A q \in Runs \ {r} : Contract!Still(q)
        PROVE  [Contract!Next]_(Contract!vars)
    BY <1>1, ContractFunctional, Contract!MoveIsStep, Contract!StillIsStutter
  <1>2. ASSUME NEW r \in Runs, Contract!Moves(r) \/ Contract!Still(r),
               \A q \in Runs \ {r} : /\ pc'[q] = pc[q] /\ dir'[q] = dir[q]
                                     /\ result'[q] = result[q] /\ jail'[q] = jail[q]
                                     /\ stage'[q] = stage[q] /\ compiled'[q] = compiled[q]
        PROVE  [Contract!Next]_(Contract!vars)
    BY <1>1, <1>2, StillFrame
  <1>3. ASSUME NEW r \in Runs, Begin(r) \/ BeginUnsupported(r)
        PROVE  [Contract!Next]_(Contract!vars)
    <2>1. /\ callOf(r) = "idle" /\ programOf(r)' = programOf(r) /\ dir' = dir
          /\ \/ callOf(r)' = "busy" /\ answerOf(r) = "none" /\ answerOf(r)' = "none"
             \/ callOf(r)' = "answered" /\ answerOf(r)' = "unsupported"
      BY <1>3 DEF Begin, BeginUnsupported, Return, Goto, TypeOK, callOf, answerOf, programOf
    <2>2. Contract!Moves(r)
      BY <2>1 DEF Contract!Moves
    <2> QED
      BY <1>2, <1>3, <2>2 DEF Begin, BeginUnsupported, Return, Goto, TypeOK
  <1>4. ASSUME NEW r \in Runs, Setup(r)
        PROVE  [Contract!Next]_(Contract!vars)
    <2>1. /\ programOf(r) = "none" /\ programOf(r)' = "none"
          /\ callOf(r) = "busy" /\ answerOf(r) = "none" /\ dir[r] # "made"
      BY <1>0, <1>4 DEF Setup, RemoveAll, Goto, TypeOK, Shape, callOf, answerOf, programOf
    <2>2. \/ dir'[r] = "made" /\ callOf(r)' = "busy" /\ answerOf(r)' = "none"
          \/ dir'[r] \in {"none", "left"} /\ callOf(r)' = "answered" /\ answerOf(r)' = "error"
      BY <1>4, <2>1 DEF Setup, RemoveAll, Return, Goto, TypeOK, callOf, answerOf
    <2>3. Contract!Moves(r)
      BY <2>1, <2>2 DEF Contract!Moves
    <2> QED
      BY <1>2, <1>4, <2>3 DEF Setup, RemoveAll, Return, Goto, TypeOK
  <1>5. ASSUME NEW r \in Runs,
               \/ Prepare(r) \/ SpawnFails(r) \/ CollectBuild(r)
               \/ CollectBuildError(r) \/ CollectRun(r)
        PROVE  [Contract!Next]_(Contract!vars)
    <2>1. /\ pc[r] \in Active /\ pc'[r] \in Active /\ dir' = dir
      BY <1>5 DEF Prepare, SpawnFails, CollectBuild, CollectBuildError, CollectRun,
                  Return, Goto, TypeOK
    <2>2. /\ callOf(r) = "busy" /\ callOf(r)' = "busy"
          /\ answerOf(r) = "none" /\ answerOf(r)' = "none"
      BY <2>1 DEF callOf, answerOf
    <2>3. programOf(r)' = programOf(r)
      <3>1. CASE Prepare(r)
        BY <1>0, <3>1 DEF Prepare, Shape, TypeOK, programOf
      <3>2. CASE CollectBuild(r)
        BY <1>0, <3>2 DEF CollectBuild, Shape, TypeOK, programOf
      <3>3. CASE SpawnFails(r) \/ CollectBuildError(r) \/ CollectRun(r)
        BY <3>3 DEF SpawnFails, CollectBuildError, CollectRun, programOf
      <3> QED
        BY <1>5, <3>1, <3>2, <3>3
    <2>4. Contract!Still(r)
      BY <2>1, <2>2, <2>3 DEF Contract!Still
    <2> QED
      BY <1>2, <1>5, <2>4 DEF Prepare, SpawnFails, CollectBuild, CollectBuildError,
                              CollectRun, Return, Goto, TypeOK
  <1>6. ASSUME NEW r \in Runs, Spawn(r)
        PROVE  [Contract!Next]_(Contract!vars)
    <2>1. /\ callOf(r) = "busy" /\ callOf(r)' = "busy"
          /\ answerOf(r) = "none" /\ answerOf(r)' = "none"
      BY <1>6 DEF Spawn, Goto, TypeOK, callOf, answerOf
    <2>2. programOf(r) # "live" /\ programOf(r)' = "live" /\ dir' = dir /\ dir[r] = "made"
      BY <1>0, <1>6 DEF Spawn, Goto, TypeOK, Shape, programOf
    <2>3. Contract!Moves(r)
      BY <2>1, <2>2 DEF Contract!Moves
    <2> QED
      BY <1>2, <1>6, <2>3 DEF Spawn, Goto, TypeOK
  <1>7. ASSUME NEW r \in Runs, Cleanup(r)
        PROVE  [Contract!Next]_(Contract!vars)
    <2>1. /\ callOf(r) = "busy" /\ callOf(r)' = "answered" /\ dir'[r] \in {"none", "left"}
          /\ programOf(r)' = programOf(r)
      BY <1>7 DEF Cleanup, RemoveAll, Goto, TypeOK, callOf, programOf
    <2>2. answerOf(r)' \in {"error", "status"}
      BY <1>0, <1>7 DEF Cleanup, RemoveAll, Goto, TypeOK, Shape, answerOf
    <2>3. Contract!Moves(r)
      BY <2>1, <2>2 DEF Contract!Moves
    <2> QED
      BY <1>2, <1>7, <2>3 DEF Cleanup, RemoveAll, Goto, TypeOK
  <1>8. ASSUME NEW r \in Runs, NEW f, JailEnds(r, f),
               UNCHANGED <<pc, dir, result, stage, compiled>>
        PROVE  [Contract!Next]_(Contract!vars)
    <2>1. programOf(r) = "live" /\ programOf(r)' = "gone"
      BY <1>8 DEF JailEnds, TypeOK, programOf
    <2>2. callOf(r)' = callOf(r) /\ answerOf(r)' = answerOf(r)
      BY <1>8 DEF callOf, answerOf
    <2>3. Contract!Moves(r)
      BY <1>8, <2>1, <2>2 DEF Contract!Moves
    <2> QED
      BY <1>2, <1>8, <2>3 DEF JailEnds, TypeOK
  <1>9. ASSUME NEW r \in Runs, JailExit(r) \/ TimeLimitFires(r) \/ ContextKills(r)
        PROVE  [Contract!Next]_(Contract!vars)
    BY <1>8, <1>9 DEF JailExit, TimeLimitFires, ContextKills
  <1>10. ASSUME UNCHANGED <<pc, dir, result, stage, compiled, jail>>
         PROVE  [Contract!Next]_(Contract!vars)
    BY <1>10, StillFrame, ContractFunctional, Contract!StillIsStutter
  <1>11. ASSUME NEW r \in Runs, Hang(r) \/ Cancel(r)
         PROVE  [Contract!Next]_(Contract!vars)
    BY <1>10, <1>11 DEF Hang, Cancel
  <1>12. CASE Crash
    <2>1. Contract!Die
      BY <1>12 DEF Crash, Contract!Die, TypeOK, callOf, answerOf, programOf
    <2> QED
      BY <2>1 DEF Contract!Next
  <1>13. CASE Restart \/ Tick \/ UNCHANGED vars
    BY <1>10, <1>13 DEF Restart, Tick, vars
  <1> QED
    BY <1>3, <1>4, <1>5, <1>6, <1>7, <1>9, <1>11, <1>12, <1>13 DEF Next, Step

\* The nsjail backend keeps the contract of Sandbox.Run, in both stages,
\* whatever fails, hangs or dies.
THEOREM NsjailKeepsContract == Spec => KeepsContract
  BY ContractInit, ContractStep, ShapeInit, ShapeStep, Verdicts, TypeCorrect, PTL
     DEF Spec, KeepsContract, Contract!Spec
=============================================================================
