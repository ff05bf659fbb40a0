------------------------ MODULE DockerSandboxProofs -------------------------
(***************************************************************************)
(* Proofs about DockerSandbox for any number of runs, any limits, any      *)
(* number of failing calls and crashes.                                    *)
(***************************************************************************)
EXTENDS DockerSandbox, TLAPS

\* An effective timeout is positive and within the language's maximum.
LEMMA EffectiveTimeoutRange ==
    ASSUME NEW req \in Nat
    PROVE  effectiveTimeout(req, TimeoutRange) \in 1..TimeoutRange.max
  BY RangeAssumption DEF effectiveTimeout, Greatest, Least, ValidRange

USE DEF runVars, dockerVars, reaperVars, daemonVars

\* The initial states are well typed.
LEMMA TypeInit == Init => TypeOK
  BY RangeAssumption, TimeAssumption, EnvironmentAssumption
     DEF Init, TypeOK, Active, Needs, Passes

\* Every step keeps the types.
LEMMA TypeStep == TypeOK /\ [Next]_vars => TypeOK'
  <1> SUFFICES ASSUME TypeOK, [Next]_vars PROVE TypeOK'
    OBVIOUS
  <1> USE RangeAssumption, TimeAssumption, EnvironmentAssumption
  <1>1. ASSUME NEW r \in Runs, Begin(r) PROVE TypeOK'
    <2>1. PICK req \in Requested :
             limit' = [limit EXCEPT ![r] = effectiveTimeout(req, TimeoutRange)]
      BY <1>1 DEF Begin
    <2>2. limit' \in [Runs -> 1..TimeoutRange.max]
      BY <2>1, EffectiveTimeoutRange, RequestedAssumption DEF TypeOK
    <2>3. stdin' \in [Runs -> {"none", "fits", "large"}]
      BY <1>1 DEF Begin, TypeOK
    <2>4. pc' \in [Runs -> {"idle", "done", "lost"} \cup Active]
      BY <1>1 DEF Begin, Goto, TypeOK, Active
    <2> QED
      BY <1>1, <2>2, <2>3, <2>4 DEF Begin, TypeOK
  <1>2. ASSUME NEW r \in Runs, BeginUnsupported(r) PROVE TypeOK'
    BY <1>2 DEF BeginUnsupported, Return, Goto, TypeOK, Statuses
  <1>3. ASSUME NEW r \in Runs, MakeDir(r) PROVE TypeOK'
    <2>1. dir' \in [Runs -> {"none", "made", "left"}]
      BY <1>3 DEF MakeDir, TypeOK
    <2>2. pc' \in [Runs -> {"idle", "done", "lost"} \cup Active]
      BY <1>3 DEF MakeDir, Return, Goto, TypeOK, Active
    <2>3. result' \in [Runs -> {"none"} \cup Statuses]
      BY <1>3 DEF MakeDir, Return, TypeOK, Statuses
    <2> QED
      BY <1>3, <2>1, <2>2, <2>3 DEF MakeDir, TypeOK
  <1>4. ASSUME NEW r \in Runs, FillDir(r) PROVE TypeOK'
    <2>1. dir' \in [Runs -> {"none", "made", "left"}]
      BY <1>4 DEF FillDir, RemoveAll, TypeOK
    <2>2. pc' \in [Runs -> {"idle", "done", "lost"} \cup Active]
      BY <1>4 DEF FillDir, Return, Goto, TypeOK, Active
    <2>3. result' \in [Runs -> {"none"} \cup Statuses]
      BY <1>4 DEF FillDir, Return, TypeOK, Statuses
    <2> QED
      BY <1>4, <2>1, <2>2, <2>3 DEF FillDir, RemoveAll, TypeOK
  <1>5. ASSUME NEW r \in Runs, Create(r) PROVE TypeOK'
    BY <1>5 DEF Create, Goto, TypeOK, Active, Needs, Opening
  <1>6. ASSUME NEW r \in Runs, CreateFails(r) PROVE TypeOK'
    BY <1>6 DEF CreateFails, Fault, Return, Goto, TypeOK, Statuses, Active
  <1>7. ASSUME NEW r \in Runs, CheckContext(r) PROVE TypeOK'
    BY <1>7 DEF CheckContext, Return, Goto, TypeOK, Statuses, Active, Needs, Opening
  <1>8. ASSUME NEW r \in Runs, Attach(r) PROVE TypeOK'
    BY <1>8 DEF Attach, FailsBy, Fault, Return, Goto, TypeOK, Statuses, Active, Needs, Opening
  <1>9. ASSUME NEW r \in Runs, Start(r) PROVE TypeOK'
    BY <1>9 DEF Start, Goto, TypeOK, Active, Needs, Executing
  <1>10. ASSUME NEW r \in Runs, StartFails(r) PROVE TypeOK'
    BY <1>10 DEF StartFails, FailsBy, Fault, Return, Goto, TypeOK, Statuses, Active
  <1>11. ASSUME NEW r \in Runs, WriteStdin(r) PROVE TypeOK'
    BY <1>11 DEF WriteStdin, Goto, TypeOK, Active, Needs, Executing
  <1>12. ASSUME NEW r \in Runs, WriteStdinFails(r) PROVE TypeOK'
    BY <1>12 DEF WriteStdinFails, FailsBy, Fault, Return, Goto, TypeOK, Statuses, Active
  <1>13. ASSUME NEW r \in Runs, WaitError(r) PROVE TypeOK'
    BY <1>13 DEF WaitError, FailsBy, Fault, Return, Goto, TypeOK, Statuses, Active
  <1>14. ASSUME NEW r \in Runs, WaitResult(r) PROVE TypeOK'
    BY <1>14 DEF WaitResult, Goto, TypeOK, Active, Needs, Closing
  <1>15. ASSUME NEW r \in Runs, Inspect(r) PROVE TypeOK'
    BY <1>15 DEF Inspect, Fault, Return, Goto, TypeOK, Statuses, Active, Needs, Closing
  <1>16. ASSUME NEW r \in Runs, ReadLogs(r) PROVE TypeOK'
    BY <1>16 DEF ReadLogs, FailsBy, Fault, Return, Goto, TypeOK, Statuses, Active, statusForExit
  <1>17. ASSUME NEW r \in Runs, ForceRemove(r)
         PROVE  /\ ctr' \in [Runs -> {"none", "created", "running", "exited", "removed"}]
                /\ age' \in [Runs -> 0..ReapMaxAge]
                /\ fate' \in [Runs -> ProgramFates \cup {NotEnded}]
    BY <1>17 DEF ForceRemove, Exists, Killed, ProgramFates, TypeOK
  <1>18. ASSUME NEW r \in Runs, Remove(r) PROVE TypeOK'
    BY <1>17, <1>18 DEF Remove, Fault, Goto, TypeOK, Active
  <1>19. ASSUME NEW r \in Runs, Cleanup(r) PROVE TypeOK'
    BY <1>19 DEF Cleanup, RemoveAll, Goto, TypeOK
  <1>20. ASSUME NEW r \in Runs, Cancel(r) PROVE TypeOK'
    BY <1>20 DEF Cancel, TypeOK
  <1>21. ASSUME NEW r \in Runs, Exit(r) PROVE TypeOK'
    <2>1. fate' \in [Runs -> ProgramFates \cup {NotEnded}]
      BY <1>21 DEF Exit, TypeOK
    <2> QED
      BY <1>21, <2>1 DEF Exit, TypeOK
  <1>22. ASSUME NEW p \in Passes, ReapList(p) PROVE TypeOK'
    BY <1>22 DEF ReapList, TypeOK
  <1>23. ASSUME NEW p \in Passes, ReapListFails(p) PROVE TypeOK'
    BY <1>23 DEF ReapListFails, TypeOK
  <1>24. ASSUME NEW p \in Passes, ReapCutoff(p) PROVE TypeOK'
    BY <1>24 DEF ReapCutoff, TypeOK
  <1>25. ASSUME NEW p \in Passes, NEW r \in Runs, ReapRemove(p, r) PROVE TypeOK'
    BY <1>17, <1>25 DEF ReapRemove, TypeOK
  <1>26. ASSUME NEW p \in Passes, NEW r \in Runs, ReapRemoveFails(p, r) PROVE TypeOK'
    BY <1>26 DEF ReapRemoveFails, TypeOK
  <1>27. ASSUME NEW p \in Passes, ReapEnd(p) PROVE TypeOK'
    BY <1>27 DEF ReapEnd, TypeOK
  <1>28. CASE Crash
    BY <1>28 DEF Crash, TypeOK
  <1>29. CASE Restart
    BY <1>29 DEF Restart, TypeOK
  <1>30. CASE Tick
    <2>1. age' \in [Runs -> 0..ReapMaxAge]
      BY <1>30 DEF Tick, TypeOK, Least
    <2>2. elapsed' \in [Runs -> 0..(TimeoutRange.max + 1)]
      BY <1>30 DEF Tick, TypeOK, Least
    <2>3. lag' \in [Runs -> Nat]
      BY <1>30 DEF Tick, TypeOK
    <2> QED
      BY <1>30, <2>1, <2>2, <2>3 DEF Tick, TypeOK
  <1>31. CASE UNCHANGED vars
    BY <1>31 DEF vars, TypeOK
  <1> QED
    BY <1>1, <1>2, <1>3, <1>4, <1>5, <1>6, <1>7, <1>8, <1>9, <1>10, <1>11,
       <1>12, <1>13, <1>14, <1>15, <1>16, <1>18, <1>19, <1>20, <1>21, <1>22,
       <1>23, <1>24, <1>25, <1>26, <1>27, <1>28, <1>29, <1>30, <1>31
       DEF Next, Step, ReadStdin, Reap

\* Type correctness of the Docker backend and its reaper.
THEOREM TypeCorrect == Spec => []TypeOK
  BY TypeInit, TypeStep, PTL DEF Spec

-----------------------------------------------------------------------------
(* The reaper spares the living.  reapOrphans decides by age alone, so the  *)
(* proof bounds the age of a container by the phase of the run that owns    *)
(* it: ticks spent opening it, plus the time on the deadline, plus ticks    *)
(* spent closing it.                                                        *)

\* The bound: while the container is being opened, and for a run whose stdin
\* fits as long as it needs the container.
AgeOK(r) ==
    /\ pc[r] \in Opening =>
          /\ ctr[r] = "created"
          /\ age[r] <= lag[r]
          /\ lag[r] <= StartDelay
    /\ pc[r] \in Executing /\ stdin[r] # "large" =>
          /\ ctr[r] \in {"running", "exited"}
          /\ age[r] <= StartDelay + elapsed[r]
          /\ elapsed[r] <= limit[r]
    /\ pc[r] \in Closing /\ stdin[r] # "large" =>
          /\ ctr[r] = "exited"
          /\ age[r] <= StartDelay + limit[r] + lag[r]
          /\ lag[r] <= StopDelay

RunOK(r) ==
    /\ ctr[r] = "none" => age[r] = 0
    /\ pc[r] \in {"idle", "mkdir", "fill", "create"} => ctr[r] = "none"
    /\ AgeOK(r)

\* What a pass has decided to remove has reached the age limit.
PassOK(p) == pass[p] = "removing" => \A r \in todo[p] : age[r] >= ReapMaxAge

LiveInv == (\A r \in Runs : RunOK(r)) /\ (\A p \in Passes : PassOK(p))

\* The assumption of the theorem: a run is over before its container is old.
PromptDeployment == StartDelay + TimeoutRange.max + StopDelay < ReapMaxAge

\* Initially no run has a container.
LEMMA LiveInit == Init => LiveInv
  BY DEF Init, LiveInv, RunOK, AgeOK, PassOK, Opening, Executing, Closing

\* A run whose variables did not change, and whose container did not, is as
\* good as before.
LEMMA RunFrame ==
    ASSUME NEW r \in Runs, RunOK(r),
           stdin'[r] = stdin[r], ctr'[r] = ctr[r], age'[r] = age[r],
           pc'[r] = pc[r], lag'[r] = lag[r], elapsed'[r] = elapsed[r],
           limit'[r] = limit[r]
    PROVE  RunOK(r)'
  BY DEF RunOK, AgeOK

\* Every step keeps the bound on the age of a live container.
LEMMA LiveStep ==
    ASSUME PromptDeployment, TypeOK, TypeOK', LiveInv, Next
    PROVE  LiveInv'
  <1> USE RangeAssumption, TimeAssumption
  <1> USE DEF Opening, Executing, Closing, AgeOK
  <1>0. \A r \in Runs : RunOK(r)
    BY DEF LiveInv
  <1>1. ASSUME UNCHANGED <<pass, todo, age>> PROVE \A p \in Passes : PassOK(p)'
    BY <1>1 DEF LiveInv, PassOK
  <1>2. ASSUME NEW r \in Runs, Begin(r) PROVE LiveInv'
    <2>1. RunOK(r)'
      BY <1>0, <1>2 DEF Begin, Goto, RunOK, TypeOK, PromptDeployment
    <2>2. \A q \in Runs \ {r} : RunOK(q)'
      BY <1>0, <1>2, RunFrame DEF Begin, Goto, TypeOK
    <2> QED
      BY <1>1, <1>2, <2>1, <2>2 DEF LiveInv, Begin
  <1>3. ASSUME NEW r \in Runs,
               \/ BeginUnsupported(r) \/ MakeDir(r) \/ FillDir(r)
               \/ CheckContext(r) \/ Attach(r) \/ WriteStdin(r)
               \/ WriteStdinFails(r) \/ WaitError(r) \/ Inspect(r)
               \/ ReadLogs(r) \/ Cleanup(r)
        PROVE  LiveInv'
    <2>1. UNCHANGED <<stdin, limit, elapsed, lag, ctr, age, pass, todo>>
      BY <1>3 DEF BeginUnsupported, MakeDir, FillDir, CheckContext, Attach,
                  WriteStdin, WriteStdinFails, WaitError, Inspect, ReadLogs, Cleanup
    <2>2. PICK l : /\ Goto(r, l)
                   /\ \/ l \in {"done", "remove", "cleanup"}
                      \/ pc[r] \in {"mkdir", "fill"} /\ l \in {"fill", "create"}
                      \/ pc[r] \in Opening /\ l \in Opening
                      \/ pc[r] \in Executing /\ l \in Executing
                      \/ pc[r] \in Closing /\ l \in Closing
      BY <1>3 DEF BeginUnsupported, MakeDir, FillDir, CheckContext, Attach,
                  WriteStdin, WriteStdinFails, WaitError, Inspect, ReadLogs, Cleanup,
                  Return
    <2>3. RunOK(r)'
      BY <1>0, <2>1, <2>2 DEF Goto, RunOK, TypeOK
    <2>4. \A q \in Runs \ {r} : RunOK(q)'
      BY <1>0, <2>1, <2>2, RunFrame DEF Goto, TypeOK
    <2> QED
      BY <1>1, <2>1, <2>3, <2>4 DEF LiveInv
  <1>4. ASSUME NEW r \in Runs, NEW l, Goto(r, l),
               l \in {"created", "cleanup"}, pc[r] = "create",
               ctr'[r] \in {"none", "created"}, l = "created" => ctr'[r] = "created" /\ lag'[r] = 0,
               age'[r] = 0,
               \A q \in Runs \ {r} : ctr'[q] = ctr[q] /\ age'[q] = age[q] /\ lag'[q] = lag[q],
               UNCHANGED <<stdin, limit, elapsed, pass, todo>>
        PROVE  LiveInv'
    <2>1. RunOK(r)'
      BY <1>0, <1>4 DEF Goto, RunOK, TypeOK
    <2>2. \A q \in Runs \ {r} : RunOK(q)'
      BY <1>0, <1>4, RunFrame DEF Goto, TypeOK
    <2>3. age[r] = 0
      BY <1>0, <1>4 DEF RunOK
    <2>4. \A p \in Passes : PassOK(p)'
      BY <1>4, <2>3 DEF LiveInv, PassOK, TypeOK
    <2> QED
      BY <2>1, <2>2, <2>4 DEF LiveInv
  <1>5. ASSUME NEW r \in Runs, Create(r) PROVE LiveInv'
    <2>1. Goto(r, "created") /\ pc[r] = "create" /\ UNCHANGED <<stdin, limit, elapsed, pass, todo>>
      BY <1>5 DEF Create
    <2>2. ctr'[r] = "created" /\ age'[r] = 0 /\ lag'[r] = 0
      BY <1>5 DEF Create, TypeOK
    <2>3. \A q \in Runs \ {r} : ctr'[q] = ctr[q] /\ age'[q] = age[q] /\ lag'[q] = lag[q]
      BY <1>5 DEF Create, TypeOK
    <2> QED
      BY <1>4, <2>1, <2>2, <2>3
  <1>6. ASSUME NEW r \in Runs, CreateFails(r) PROVE LiveInv'
    <2>1. Goto(r, "cleanup") /\ pc[r] = "create" /\ UNCHANGED <<stdin, limit, elapsed, lag, pass, todo>>
      BY <1>6 DEF CreateFails, Return
    <2>2. ctr[r] = "none" /\ age[r] = 0
      BY <1>0, <2>1 DEF RunOK
    <2>3. ctr'[r] \in {"none", "created"} /\ age'[r] = 0
      BY <1>6, <2>2 DEF CreateFails, TypeOK
    <2>4. \A q \in Runs \ {r} : ctr'[q] = ctr[q] /\ age'[q] = age[q] /\ lag'[q] = lag[q]
      BY <1>6 DEF CreateFails, TypeOK
    <2> QED
      BY <1>4, <2>1, <2>3, <2>4
  <1>7. ASSUME NEW r \in Runs, Start(r) PROVE LiveInv'
    <2>1. RunOK(r)'
      BY <1>0, <1>7 DEF Start, Goto, RunOK, TypeOK
    <2>2. \A q \in Runs \ {r} : RunOK(q)'
      BY <1>0, <1>7, RunFrame DEF Start, Goto, TypeOK
    <2> QED
      BY <1>1, <1>7, <2>1, <2>2 DEF LiveInv, Start
  <1>8. ASSUME NEW r \in Runs, StartFails(r) PROVE LiveInv'
    <2>1. RunOK(r)'
      BY <1>0, <1>8 DEF StartFails, Return, Goto, RunOK, TypeOK
    <2>2. \A q \in Runs \ {r} : RunOK(q)'
      BY <1>0, <1>8, RunFrame DEF StartFails, Return, Goto, TypeOK
    <2> QED
      BY <1>1, <1>8, <2>1, <2>2 DEF LiveInv, StartFails
  <1>9. ASSUME NEW r \in Runs, WaitResult(r) PROVE LiveInv'
    <2>1. RunOK(r)'
      BY <1>0, <1>9 DEF WaitResult, Goto, RunOK, TypeOK
    <2>2. \A q \in Runs \ {r} : RunOK(q)'
      BY <1>0, <1>9, RunFrame DEF WaitResult, Goto, TypeOK
    <2> QED
      BY <1>1, <1>9, <2>1, <2>2 DEF LiveInv, WaitResult
  <1>10. ASSUME NEW r \in Runs, Remove(r) PROVE LiveInv'
    <2>1. RunOK(r)'
      BY <1>0, <1>10 DEF Remove, ForceRemove, Exists, Goto, RunOK, TypeOK
    <2>2. \A q \in Runs \ {r} : RunOK(q)'
      BY <1>0, <1>10, RunFrame DEF Remove, ForceRemove, Goto, TypeOK
    <2> QED
      BY <1>1, <1>10, <2>1, <2>2 DEF LiveInv, Remove, ForceRemove
  <1>11. ASSUME NEW r \in Runs, Cancel(r) PROVE LiveInv'
    BY <1>0, <1>1, <1>11, RunFrame DEF LiveInv, Cancel
  <1>12. ASSUME NEW r \in Runs, Exit(r) PROVE LiveInv'
    <2>1. RunOK(r)'
      BY <1>0, <1>12 DEF Exit, RunOK, TypeOK
    <2>2. \A q \in Runs \ {r} : RunOK(q)'
      BY <1>0, <1>12, RunFrame DEF Exit, TypeOK
    <2> QED
      BY <1>1, <1>12, <2>1, <2>2 DEF LiveInv, Exit
  <1>13. ASSUME UNCHANGED <<runVars, dockerVars>> PROVE \A q \in Runs : RunOK(q)'
    BY <1>0, <1>13, RunFrame
  <1>14. ASSUME NEW p \in Passes, ReapList(p) PROVE LiveInv'
    <2>1. \A o \in Passes : PassOK(o)'
      BY <1>14 DEF ReapList, LiveInv, PassOK, TypeOK
    <2> QED
      BY <1>13, <1>14, <2>1 DEF LiveInv, ReapList
  <1>15. ASSUME NEW p \in Passes, ReapListFails(p) PROVE LiveInv'
    BY <1>1, <1>13, <1>15 DEF LiveInv, ReapListFails
  <1>16. ASSUME NEW p \in Passes, ReapCutoff(p) PROVE LiveInv'
    <2>1. \A o \in Passes : PassOK(o)'
      BY <1>16 DEF ReapCutoff, LiveInv, PassOK, TypeOK, isOrphan
    <2> QED
      BY <1>13, <1>16, <2>1 DEF LiveInv, ReapCutoff
  <1>17. ASSUME NEW p \in Passes, NEW r \in Runs, ReapRemove(p, r) PROVE LiveInv'
    <2>1. age[r] >= ReapMaxAge
      BY <1>17 DEF ReapRemove, LiveInv, PassOK
    <2>2. pc[r] \notin Opening /\ (stdin[r] # "large" => pc[r] \notin Needs)
      BY <1>0, <2>1 DEF RunOK, TypeOK, Needs, PromptDeployment
    <2>3. ctr[r] # "none"
      BY <1>0, <2>1 DEF RunOK
    <2>4. RunOK(r)'
      BY <1>0, <1>17, <2>2, <2>3 DEF ReapRemove, ForceRemove, Exists, RunOK, Needs, TypeOK
    <2>5. \A q \in Runs \ {r} : RunOK(q)'
      BY <1>0, <1>17, RunFrame DEF ReapRemove, ForceRemove, TypeOK
    <2>6. \A o \in Passes : PassOK(o)'
      BY <1>17 DEF ReapRemove, ForceRemove, LiveInv, PassOK, TypeOK
    <2> QED
      BY <2>4, <2>5, <2>6 DEF LiveInv
  <1>18. ASSUME NEW p \in Passes, NEW r \in Runs, ReapRemoveFails(p, r) PROVE LiveInv'
    <2>1. \A o \in Passes : PassOK(o)'
      BY <1>18 DEF ReapRemoveFails, LiveInv, PassOK, TypeOK
    <2> QED
      BY <1>13, <1>18, <2>1 DEF LiveInv, ReapRemoveFails
  <1>19. ASSUME NEW p \in Passes, ReapEnd(p) PROVE LiveInv'
    <2>1. \A o \in Passes : PassOK(o)'
      BY <1>19 DEF ReapEnd, LiveInv, PassOK, TypeOK
    <2> QED
      BY <1>13, <1>19, <2>1 DEF LiveInv, ReapEnd
  <1>20. CASE Crash
    <2>1. \A r \in Runs : RunOK(r)'
      <3> SUFFICES ASSUME NEW r \in Runs PROVE RunOK(r)'
        OBVIOUS
      <3>1. CASE pc[r] \in Active
        BY <1>0, <1>20, <3>1 DEF Crash, RunOK
      <3>2. CASE pc[r] \notin Active
        BY <1>0, <1>20, <3>2, RunFrame DEF Crash
      <3> QED
        BY <3>1, <3>2
    <2>2. \A p \in Passes : PassOK(p)'
      BY <1>20 DEF Crash, PassOK
    <2> QED
      BY <2>1, <2>2 DEF LiveInv
  <1>21. CASE Restart
    BY <1>1, <1>13, <1>21 DEF LiveInv, Restart
  <1>22. CASE Tick
    <2>1. ASSUME NEW r \in Runs PROVE RunOK(r)'
      <3>1. /\ age'[r] \in {age[r], age[r] + 1, ReapMaxAge}
            /\ age'[r] <= age[r] + 1
            /\ ctr[r] = "none" => age'[r] = age[r]
        BY <1>22 DEF Tick, TypeOK, Least, Exists
      <3>2. CASE pc[r] \in Opening
        BY <1>0, <1>22, <3>1, <3>2 DEF Tick, Prompt, RunOK, TypeOK
      <3>3. CASE pc[r] \in Executing
        <4> SUFFICES ASSUME stdin[r] # "large" PROVE RunOK(r)'
          BY <1>0, <1>22, <3>1, <3>3 DEF Tick, RunOK, TypeOK
        <4>1. pc[r] = "wait" /\ elapsed[r] < limit[r]
          BY <1>0, <1>22, <3>3 DEF Tick, Prompt, DeadlinePassed, RunOK, TypeOK
        <4>2. elapsed'[r] = elapsed[r] + 1
          BY <1>22, <3>3, <4>1 DEF Tick, Least, TypeOK
        <4> QED
          BY <1>0, <1>22, <3>1, <4>1, <4>2 DEF Tick, RunOK, TypeOK
      <3>4. CASE pc[r] \in Closing
        BY <1>0, <1>22, <3>1, <3>4 DEF Tick, Prompt, RunOK, TypeOK
      <3>5. CASE pc[r] \notin Opening \cup Executing \cup Closing
        BY <1>0, <1>22, <3>1, <3>5 DEF Tick, RunOK, TypeOK
      <3> QED
        BY <3>2, <3>3, <3>4, <3>5
    <2>2. ASSUME NEW p \in Passes PROVE PassOK(p)'
      <3>1. \A r \in Runs : age[r] >= ReapMaxAge => age'[r] >= ReapMaxAge
        BY <1>22 DEF Tick, TypeOK, Least
      <3> QED
        BY <1>22, <3>1 DEF Tick, LiveInv, PassOK, TypeOK
    <2> QED
      BY <2>1, <2>2 DEF LiveInv
  <1> QED
    BY <1>2, <1>3, <1>5, <1>6, <1>7, <1>8, <1>9, <1>10, <1>11, <1>12, <1>14,
       <1>15, <1>16, <1>17, <1>18, <1>19, <1>20, <1>21, <1>22
       DEF Next, Step, ReadStdin, Reap

\* The bound holds in every reachable state.
LEMMA LiveKept ==
    ASSUME PromptDeployment
    PROVE  Spec => []LiveInv
  <1>1. TypeOK /\ TypeOK' /\ LiveInv /\ [Next]_vars => LiveInv'
    <2> SUFFICES ASSUME TypeOK, TypeOK', LiveInv, [Next]_vars PROVE LiveInv'
      OBVIOUS
    <2>1. CASE Next
      BY <2>1, LiveStep
    <2>2. CASE UNCHANGED vars
      <3>1. \A r \in Runs : RunOK(r)'
        BY <2>2, RunFrame DEF vars, LiveInv
      <3>2. \A p \in Passes : PassOK(p)'
        BY <2>2 DEF vars, LiveInv, PassOK
      <3> QED
        BY <3>1, <3>2 DEF LiveInv
    <2> QED
      BY <2>1, <2>2
  <1> QED
    BY <1>1, LiveInit, TypeCorrect, PTL DEF Spec

\* The reaper never removes a container that a run still needs: for any
\* number of runs, crashes, failing calls and overlapping passes, as long as
\* the slowest start, the longest timeout and the slowest stop together stay
\* below reapMaxAge.
THEOREM ReaperSparesLive ==
    ASSUME PromptDeployment
    PROVE  Spec => []LiveKeepsContainer
  <1>1. LiveInv => LiveKeepsContainer
    BY DEF LiveInv, RunOK, AgeOK, LiveKeepsContainer, Needs, Opening, Executing, Closing
  <1> QED
    BY <1>1, LiveKept, PTL

-----------------------------------------------------------------------------
(* Nothing outlives its run without a reason.  The invariant ties the       *)
(* workspace, the container and the result of a run to its place in Run;    *)
(* the refinement of the contract needs the same facts.                     *)

\* What the place of a run in Run says about its workspace, its container and
\* its result.
Shape(r) ==
    /\ pc[r] \in {"idle", "mkdir", "fill", "create"} => ctr[r] = "none"
    /\ pc[r] \in {"idle", "mkdir", "done"} => dir[r] # "made"
    /\ pc[r] \in Active \ {"mkdir"} => dir[r] = "made"
    /\ pc[r] \in {"cleanup", "done"} /\ Exists(r) => r \in faulty
    /\ pc[r] \in {"idle", "mkdir", "fill", "create"} \cup Needs => result[r] = "none"
    /\ pc[r] \in {"remove", "cleanup"} => result[r] \notin {"none", "unsupported"}
    /\ result[r] \notin {"none", "unsupported", "internal_error"} => ctr[r] # "none"
    /\ pc[r] \in Needs => ctr[r] # "none"

ShapeInv == \A r \in Runs : Shape(r)

\* A run that did not move, and whose container at most aged, ended or was
\* removed, keeps its shape.
LEMMA ShapeFrame ==
    ASSUME NEW r \in Runs, Shape(r),
           pc'[r] = pc[r], dir'[r] = dir[r], result'[r] = result[r],
           r \in faulty => r \in faulty',
           \/ ctr'[r] = ctr[r]
           \/ ctr[r] = "running" /\ ctr'[r] = "exited"
           \/ Exists(r) /\ ctr'[r] = "removed"
    PROVE  Shape(r)'
  BY DEF Shape, Exists

\* Initially nothing has a shape to lose.
LEMMA ShapeInit == Init => ShapeInv
  BY DEF Init, ShapeInv, Shape, Active, Needs, Opening, Executing, Closing, Exists

\* Every step keeps the shape of every run.
LEMMA ShapeStep == TypeOK /\ ShapeInv /\ [Next]_vars => ShapeInv'
  <1> SUFFICES ASSUME TypeOK, ShapeInv, [Next]_vars PROVE ShapeInv'
    OBVIOUS
  <1>0. \A r \in Runs : Shape(r)
    BY DEF ShapeInv
  <1> USE DEF Active, Needs, Opening, Executing, Closing
  <1>1. ASSUME NEW r \in Runs, Shape(r)',
               \A q \in Runs \ {r} : /\ pc'[q] = pc[q] /\ dir'[q] = dir[q]
                                     /\ result'[q] = result[q] /\ ctr'[q] = ctr[q]
                                     /\ q \in faulty => q \in faulty'
        PROVE  ShapeInv'
    BY <1>0, <1>1, ShapeFrame DEF ShapeInv
  <1>2. ASSUME NEW r \in Runs,
               \/ Begin(r) \/ BeginUnsupported(r) \/ MakeDir(r) \/ FillDir(r)
        PROVE  ShapeInv'
    <2>1. Shape(r)'
      BY <1>0, <1>2 DEF Begin, BeginUnsupported, MakeDir, FillDir, RemoveAll, Return, Goto,
                        Shape, Exists, TypeOK
    <2> QED
      BY <1>1, <1>2, <2>1 DEF Begin, BeginUnsupported, MakeDir, FillDir, RemoveAll, Return,
                              Goto, TypeOK
  <1>3. ASSUME NEW r \in Runs, Create(r) \/ CreateFails(r) PROVE ShapeInv'
    <2>1. Shape(r)'
      BY <1>0, <1>3 DEF Create, CreateFails, Fault, Return, Goto, Shape, Exists, TypeOK
    <2> QED
      BY <1>1, <1>3, <2>1 DEF Create, CreateFails, Fault, Return, Goto, TypeOK
  <1>4. ASSUME NEW r \in Runs, CheckContext(r) \/ Attach(r) \/ Start(r) \/ StartFails(r)
        PROVE  ShapeInv'
    <2>1. Shape(r)'
      BY <1>0, <1>4 DEF CheckContext, Attach, Start, StartFails, FailsBy, Fault,
                        Return, Goto, Shape, Exists, TypeOK
    <2> QED
      BY <1>1, <1>4, <2>1 DEF CheckContext, Attach, Start, StartFails, FailsBy, Fault,
                              Return, Goto, TypeOK
  <1>5. ASSUME NEW r \in Runs,
               WriteStdin(r) \/ WriteStdinFails(r) \/ WaitError(r) \/ WaitResult(r)
        PROVE  ShapeInv'
    <2>1. Shape(r)'
      BY <1>0, <1>5 DEF WriteStdin, WriteStdinFails, WaitError, WaitResult, FailsBy,
                        Fault, Return, Goto, Shape, Exists, TypeOK
    <2> QED
      BY <1>1, <1>5, <2>1 DEF WriteStdin, WriteStdinFails, WaitError, WaitResult,
                              FailsBy, Fault, Return, Goto, TypeOK
  <1>6. ASSUME NEW r \in Runs, Inspect(r) \/ ReadLogs(r) PROVE ShapeInv'
    <2>1. Shape(r)'
      BY <1>0, <1>6 DEF Inspect, ReadLogs, FailsBy, Fault, Return, Goto, Shape,
                        Exists, statusForExit, TypeOK
    <2> QED
      BY <1>1, <1>6, <2>1 DEF Inspect, ReadLogs, FailsBy, Fault, Return, Goto, TypeOK
  <1>7. ASSUME NEW r \in Runs, Remove(r) \/ Cleanup(r) PROVE ShapeInv'
    <2>1. Shape(r)'
      BY <1>0, <1>7 DEF Remove, Cleanup, RemoveAll, ForceRemove, Fault, Goto, Shape, Exists, TypeOK
    <2> QED
      BY <1>1, <1>7, <2>1 DEF Remove, Cleanup, RemoveAll, ForceRemove, Fault, Goto, TypeOK
  <1>8. ASSUME NEW r \in Runs, Cancel(r) \/ Exit(r) PROVE ShapeInv'
    <2>1. UNCHANGED <<pc, dir, result, faulty>>
      BY <1>8 DEF Cancel, Exit
    <2>2. \A q \in Runs : ctr'[q] = ctr[q] \/ (ctr[q] = "running" /\ ctr'[q] = "exited")
      BY <1>8 DEF Cancel, Exit, TypeOK
    <2> QED
      BY <1>0, <2>1, <2>2, ShapeFrame DEF ShapeInv
  <1>9. ASSUME NEW p \in Passes, NEW r \in Runs, ReapRemove(p, r) PROVE ShapeInv'
    <2>1. UNCHANGED <<pc, dir, result, faulty>>
      BY <1>9 DEF ReapRemove
    <2>2. \A q \in Runs : ctr'[q] = ctr[q] \/ (Exists(q) /\ ctr'[q] = "removed")
      BY <1>9 DEF ReapRemove, ForceRemove, TypeOK
    <2> QED
      BY <1>0, <2>1, <2>2, ShapeFrame DEF ShapeInv
  <1>10. ASSUME UNCHANGED <<pc, dir, result, faulty, ctr>> PROVE ShapeInv'
    BY <1>0, <1>10, ShapeFrame DEF ShapeInv
  <1>11. ASSUME NEW p \in Passes,
                \/ ReapList(p) \/ ReapListFails(p) \/ ReapCutoff(p) \/ ReapEnd(p)
                \/ \E r \in Runs : ReapRemoveFails(p, r)
         PROVE  ShapeInv'
    BY <1>10, <1>11 DEF ReapList, ReapListFails, ReapCutoff, ReapEnd, ReapRemoveFails
  <1>12. CASE Crash
    BY <1>0, <1>12 DEF Crash, ShapeInv, Shape, Exists, TypeOK
  <1>13. CASE Restart \/ Tick \/ UNCHANGED vars
    BY <1>10, <1>13 DEF Restart, Tick, vars
  <1> QED
    BY <1>2, <1>3, <1>4, <1>5, <1>6, <1>7, <1>8, <1>9, <1>11, <1>12, <1>13
       DEF Next, Step, ReadStdin, Reap

\* A workspace without a run was left by a crash, a container by a crash or a
\* failing call: every return path of Run passes its deferred calls.
THEOREM OrphansAreExplained == Spec => []OrphansExplained
  <1>1. TypeOK /\ ShapeInv => OrphansExplained
    BY DEF TypeOK, ShapeInv, Shape, OrphansExplained, Exists
  <1> QED
    BY <1>1, ShapeInit, ShapeStep, TypeCorrect, PTL DEF Spec

-----------------------------------------------------------------------------
(* The backend keeps the contract of Sandbox.Run: every step of it is one   *)
(* step of SandboxContract for the run that moves, or none.                 *)

\* The initial states are initial states of the contract.
LEMMA ContractInit == Init => Contract!Init
  BY DEF Init, Contract!Init, callOf, answerOf, programOf, Active, Needs, Opening,
         Executing, Closing

\* A run that keeps its place, its result and its container is still to the
\* contract.
LEMMA StillFrame ==
    ASSUME NEW r \in Runs, pc'[r] = pc[r], dir'[r] = dir[r], result'[r] = result[r],
           ctr'[r] = ctr[r] \/ (Exists(r) /\ ctr'[r] \in {"created", "running", "exited"})
    PROVE  Contract!Still(r)
  BY DEF Contract!Still, callOf, answerOf, programOf, Exists

\* The contract's variables are functions on the runs, before and after a step.
LEMMA ContractFunctional ==
    ASSUME TypeOK, TypeOK'
    PROVE  Contract!Functional /\ Contract!Functional'
  BY DEF TypeOK, Contract!Functional

\* Every step of the backend is a step of the contract or a stutter.
LEMMA ContractStep ==
    ASSUME TypeOK, TypeOK', ShapeInv, ShapeInv', [Next]_vars
    PROVE  [Contract!Next]_(Contract!vars)
  <1> USE DEF Active, Needs, Opening, Executing, Closing
  <1>0. \A r \in Runs : Shape(r) /\ Shape(r)'
    BY DEF ShapeInv
  <1>1. ASSUME NEW r \in Runs, Contract!Moves(r) \/ Contract!Still(r),
               \A q \in Runs \ {r} : Contract!Still(q)
        PROVE  [Contract!Next]_(Contract!vars)
    BY <1>1, ContractFunctional, Contract!MoveIsStep, Contract!StillIsStutter
  <1>2. ASSUME NEW r \in Runs,
               \A q \in Runs \ {r} : /\ pc'[q] = pc[q] /\ dir'[q] = dir[q]
                                     /\ result'[q] = result[q] /\ ctr'[q] = ctr[q],
               Contract!Moves(r) \/ Contract!Still(r)
        PROVE  [Contract!Next]_(Contract!vars)
    BY <1>1, <1>2, StillFrame
  <1>3. ASSUME NEW r \in Runs, Begin(r) \/ BeginUnsupported(r)
        PROVE  [Contract!Next]_(Contract!vars)
    <2>1. Contract!Moves(r)
      BY <1>0, <1>3 DEF Begin, BeginUnsupported, Return, Goto, TypeOK, callOf, answerOf,
                        programOf, Contract!Moves
    <2> QED
      BY <1>2, <1>3, <2>1 DEF Begin, BeginUnsupported, Return, Goto, TypeOK
  <1>4. ASSUME NEW r \in Runs, MakeDir(r)
        PROVE  [Contract!Next]_(Contract!vars)
    <2>1. Contract!Moves(r)
      BY <1>0, <1>4 DEF MakeDir, Return, Goto, TypeOK, Shape, callOf, answerOf,
                        programOf, Contract!Moves
    <2> QED
      BY <1>2, <1>4, <2>1 DEF MakeDir, Return, Goto, TypeOK
  <1>5. ASSUME NEW r \in Runs, FillDir(r)
        PROVE  [Contract!Next]_(Contract!vars)
    <2>1. Contract!Moves(r) \/ Contract!Still(r)
      BY <1>0, <1>5 DEF FillDir, RemoveAll, Return, Goto, TypeOK, Shape, callOf, answerOf,
                        programOf, Contract!Moves, Contract!Still
    <2> QED
      BY <1>2, <1>5, <2>1 DEF FillDir, RemoveAll, Return, Goto, TypeOK
  <1>6. ASSUME NEW r \in Runs, Create(r) \/ CreateFails(r)
        PROVE  [Contract!Next]_(Contract!vars)
    <2>1. /\ pc[r] = "create" /\ pc'[r] \in {"created", "cleanup"} /\ dir'[r] = dir[r]
          /\ dir[r] = "made" /\ ctr[r] = "none" /\ ctr'[r] \in {"none", "created"}
      BY <1>0, <1>6 DEF Create, CreateFails, Return, Goto, TypeOK, Shape
    <2>2. /\ callOf(r) = "busy" /\ callOf(r)' = "busy"
          /\ answerOf(r) = "none" /\ answerOf(r)' = "none"
          /\ programOf(r) = "none" /\ programOf(r)' \in {"none", "live"}
      BY <2>1 DEF callOf, answerOf, programOf
    <2>3. Contract!Moves(r) \/ Contract!Still(r)
      BY <2>1, <2>2 DEF Contract!Moves, Contract!Still
    <2> QED
      BY <1>2, <1>6, <2>3 DEF Create, CreateFails, Return, Goto, TypeOK
  <1>7. ASSUME NEW r \in Runs,
               \/ CheckContext(r) \/ Attach(r) \/ Start(r) \/ StartFails(r)
               \/ WriteStdin(r) \/ WriteStdinFails(r) \/ WaitError(r)
               \/ WaitResult(r) \/ Inspect(r) \/ ReadLogs(r)
        PROVE  [Contract!Next]_(Contract!vars)
    <2>1. /\ pc[r] \in Active /\ pc'[r] \in Active /\ dir'[r] = dir[r]
          /\ ctr'[r] = ctr[r] \/ (ctr[r] = "created" /\ ctr'[r] = "running")
      BY <1>7 DEF CheckContext, Attach, Start, StartFails, WriteStdin, WriteStdinFails,
                  WaitError, WaitResult, Inspect, ReadLogs, Return, Goto, TypeOK
    <2>2. /\ callOf(r) = "busy" /\ callOf(r)' = "busy"
          /\ answerOf(r) = "none" /\ answerOf(r)' = "none"
      BY <2>1 DEF callOf, answerOf
    <2>4. programOf(r)' = programOf(r)
      BY <2>1 DEF programOf
    <2>5. Contract!Still(r)
      BY <2>1, <2>2, <2>4 DEF Contract!Still
    <2>3. \A q \in Runs \ {r} : /\ pc'[q] = pc[q] /\ dir'[q] = dir[q]
                                /\ result'[q] = result[q] /\ ctr'[q] = ctr[q]
      BY <1>7 DEF CheckContext, Attach, Start, StartFails, WriteStdin, WriteStdinFails,
                  WaitError, WaitResult, Inspect, ReadLogs, Return, Goto, TypeOK
    <2> QED
      BY <1>2, <2>3, <2>5
  <1>8. ASSUME NEW r \in Runs, Remove(r) \/ \E p \in Passes : ReapRemove(p, r)
        PROVE  [Contract!Next]_(Contract!vars)
    <2>1. /\ callOf(r)' = callOf(r) /\ answerOf(r)' = answerOf(r) /\ dir' = dir
          /\ ctr'[r] = ctr[r] \/ (Exists(r) /\ ctr'[r] = "removed")
      BY <1>8 DEF Remove, ReapRemove, ForceRemove, Goto, TypeOK, callOf, answerOf
    <2>2. Contract!Moves(r) \/ Contract!Still(r)
      BY <2>1 DEF Contract!Moves, Contract!Still, programOf, Exists
    <2> QED
      BY <1>2, <1>8, <2>2 DEF Remove, ReapRemove, ForceRemove, Goto, TypeOK
  <1>9. ASSUME NEW r \in Runs, Cleanup(r)
        PROVE  [Contract!Next]_(Contract!vars)
    <2>1. /\ callOf(r) = "busy" /\ callOf(r)' = "answered" /\ dir'[r] \in {"none", "left"}
          /\ programOf(r)' = programOf(r)
      BY <1>9 DEF Cleanup, RemoveAll, Goto, TypeOK, callOf, programOf
    <2>2. answerOf(r)' = "error" \/ (answerOf(r)' = "status" /\ programOf(r) # "none")
      BY <1>0, <1>9 DEF Cleanup, RemoveAll, Goto, TypeOK, Shape, answerOf, programOf
    <2>3. Contract!Moves(r)
      BY <2>1, <2>2 DEF Contract!Moves
    <2> QED
      BY <1>2, <1>9, <2>3 DEF Cleanup, RemoveAll, Goto, TypeOK
  <1>10. ASSUME UNCHANGED <<pc, dir, result>>,
                \A q \in Runs : ctr'[q] = ctr[q] \/ (ctr[q] = "running" /\ ctr'[q] = "exited")
         PROVE  [Contract!Next]_(Contract!vars)
    BY <1>10, StillFrame, ContractFunctional, Contract!StillIsStutter DEF Exists
  <1>11. ASSUME NEW r \in Runs, Cancel(r) \/ Exit(r)
         PROVE  [Contract!Next]_(Contract!vars)
    BY <1>10, <1>11 DEF Cancel, Exit, TypeOK
  <1>12. ASSUME NEW p \in Passes,
                \/ ReapList(p) \/ ReapListFails(p) \/ ReapCutoff(p) \/ ReapEnd(p)
                \/ \E r \in Runs : ReapRemoveFails(p, r)
         PROVE  [Contract!Next]_(Contract!vars)
    BY <1>10, <1>12 DEF ReapList, ReapListFails, ReapCutoff, ReapEnd, ReapRemoveFails
  <1>13. CASE Crash
    <2>1. Contract!Die
      BY <1>13 DEF Crash, Contract!Die, TypeOK, callOf, answerOf, programOf
    <2> QED
      BY <2>1 DEF Contract!Next
  <1>14. CASE Restart \/ Tick \/ UNCHANGED vars
    BY <1>10, <1>14 DEF Restart, Tick, vars
  <1> QED
    BY <1>3, <1>4, <1>5, <1>6, <1>7, <1>8, <1>9, <1>11, <1>12, <1>13, <1>14
       DEF Next, Step, ReadStdin, Reap

\* The Docker backend keeps the contract of Sandbox.Run, whatever fails and
\* however often the daemon dies.
THEOREM DockerKeepsContract == Spec => KeepsContract
  BY ContractInit, ContractStep, ShapeInit, ShapeStep, TypeCorrect, PTL
     DEF Spec, KeepsContract, Contract!Spec

-----------------------------------------------------------------------------
(* Statuses are truthful.  What Run reports is read from the container at   *)
(* one moment and must stay true afterwards; the invariant says what the    *)
(* place of a run in Run tells about the end of its program.                *)

\* What the state of the container, and the place of the run, say about the
\* end of the program.
Verdict(r) ==
    /\ ctr[r] \in {"none", "created", "running"} => fate[r] = NotEnded
    /\ ctr[r] = "exited" => fate[r] \in ProgramFates
    /\ pc[r] \in Executing /\ ctr[r] # "running" =>
          ctr[r] \in {"exited", "removed"} /\ fate[r] \in ProgramFates
    /\ pc[r] \in Closing =>
          ctr[r] \in {"exited", "removed"} /\ fate[r] \in ProgramFates
    /\ pc[r] = "logs" => fate[r].code # 137
    /\ pc[r] = "stdin" => stdin[r] # "none"
    /\ result[r] \in {"ok", "runtime_error", "compile_error", "oom"} =>
          ctr[r] \in {"exited", "removed"}

VerdictInv == \A r \in Runs : Verdict(r) /\ Truthful(r)

\* How programs end.
LEMMA FateFacts ==
    /\ Killed \in ProgramFates
    /\ NotEnded.code = -1 /\ NotEnded \notin ProgramFates
    /\ \A f \in ProgramFates : f.code \in {0, 1, 100, 137} /\ (f.flag => f.memory)
  BY DEF ProgramFates, Exit0, Exit1, Exit100, Own137, OomFlagged, OomSilent, ChildOom,
         Killed, NotEnded, Ended

\* A run that did not move, and whose container at most aged, keeps its
\* verdict: its client may leave and its calls may fail.
LEMMA VerdictFrame ==
    ASSUME NEW r \in Runs, Verdict(r), Truthful(r),
           pc'[r] = pc[r], stdin'[r] = stdin[r], limit'[r] = limit[r],
           elapsed'[r] = elapsed[r], result'[r] = result[r],
           ctr'[r] = ctr[r], fate'[r] = fate[r],
           cancelled[r] => cancelled'[r], r \in faulty => r \in faulty'
    PROVE  Verdict(r)' /\ Truthful(r)'
  BY DEF Verdict, Truthful, DeadlinePassed

\* Initially nothing was reported.
LEMMA VerdictInit == Init => VerdictInv
  BY DEF Init, VerdictInv, Verdict, Truthful, Executing, Closing

\* Every step keeps the verdict of every run.
LEMMA VerdictStep ==
    ASSUME TypeOK, ShapeInv, LiveInv, VerdictInv, [Next]_vars
    PROVE  VerdictInv'
  <1> USE DEF Needs, Opening, Executing, Closing
  <1>0. \A r \in Runs : Verdict(r) /\ Truthful(r) /\ Shape(r) /\ RunOK(r)
    BY DEF ShapeInv, LiveInv, VerdictInv
  <1>1. ASSUME NEW r \in Runs, Verdict(r)', Truthful(r)',
               \A q \in Runs \ {r} :
                   /\ pc'[q] = pc[q] /\ stdin'[q] = stdin[q] /\ limit'[q] = limit[q]
                   /\ elapsed'[q] = elapsed[q] /\ result'[q] = result[q]
                   /\ ctr'[q] = ctr[q] /\ fate'[q] = fate[q]
                   /\ cancelled[q] => cancelled'[q]
                   /\ q \in faulty => q \in faulty'
        PROVE  VerdictInv'
    BY <1>0, <1>1, VerdictFrame DEF VerdictInv
  <1>2. ASSUME NEW r \in Runs,
               \/ Begin(r) \/ BeginUnsupported(r) \/ MakeDir(r) \/ FillDir(r)
        PROVE  VerdictInv'
    <2>1. Verdict(r)' /\ Truthful(r)'
      BY <1>0, <1>2 DEF Begin, BeginUnsupported, MakeDir, FillDir, RemoveAll, Return, Goto,
                        Shape, Verdict, Truthful, TypeOK
    <2> QED
      BY <1>1, <1>2, <2>1 DEF Begin, BeginUnsupported, MakeDir, FillDir, RemoveAll, Return,
                              Goto, TypeOK
  <1>3. ASSUME NEW r \in Runs, Create(r) \/ CreateFails(r) PROVE VerdictInv'
    <2>1. Verdict(r)' /\ Truthful(r)'
      BY <1>0, <1>3 DEF Create, CreateFails, Fault, Return, Goto, Shape, Verdict,
                        Truthful, TypeOK
    <2> QED
      BY <1>1, <1>3, <2>1 DEF Create, CreateFails, Fault, Return, Goto, TypeOK
  <1>4. ASSUME NEW r \in Runs, CheckContext(r) \/ Attach(r) \/ Start(r) \/ StartFails(r)
        PROVE  VerdictInv'
    <2>1. ctr[r] = "created" /\ result[r] = "none" /\ fate[r] = NotEnded
      BY <1>0, <1>4 DEF CheckContext, Attach, Start, StartFails, RunOK, AgeOK, Shape, Verdict
    <2>2. Verdict(r)' /\ Truthful(r)'
      BY <1>0, <1>4, <2>1 DEF CheckContext, Attach, Start, StartFails, FailsBy, Fault,
                              Return, Goto, Verdict, Truthful, TypeOK
    <2> QED
      BY <1>1, <1>4, <2>2 DEF CheckContext, Attach, Start, StartFails, FailsBy, Fault,
                              Return, Goto, TypeOK
  <1>5. ASSUME NEW r \in Runs, WriteStdin(r) \/ WriteStdinFails(r) PROVE VerdictInv'
    <2>1. result[r] = "none" /\ stdin[r] # "none"
      BY <1>0, <1>5 DEF WriteStdin, WriteStdinFails, Shape, Verdict
    <2>2. ctr[r] # "running" => fate[r] # NotEnded
      BY <1>0, <1>5, FateFacts DEF WriteStdin, WriteStdinFails, Verdict
    <2>3. Verdict(r)' /\ Truthful(r)'
      BY <1>0, <1>5, <2>1, <2>2 DEF WriteStdin, WriteStdinFails, FailsBy, Fault, Return,
                                    Goto, Verdict, Truthful, TypeOK
    <2> QED
      BY <1>1, <1>5, <2>3 DEF WriteStdin, WriteStdinFails, FailsBy, Fault, Return, Goto,
                              TypeOK
  <1>6. ASSUME NEW r \in Runs, WaitError(r) \/ WaitResult(r) PROVE VerdictInv'
    <2>1. result[r] = "none" /\ (ctr[r] = "removed" => stdin[r] # "none" /\ fate[r] # NotEnded)
      BY <1>0, <1>6, FateFacts DEF WaitError, WaitResult, Shape, Verdict, RunOK, AgeOK
    <2>2. Verdict(r)' /\ Truthful(r)'
      BY <1>0, <1>6, <2>1 DEF WaitError, WaitResult, FailsBy, Fault, Return, Goto,
                              Verdict, Truthful, DeadlinePassed, TypeOK
    <2> QED
      BY <1>1, <1>6, <2>2 DEF WaitError, WaitResult, FailsBy, Fault, Return, Goto, TypeOK
  <1>7. ASSUME NEW r \in Runs, Inspect(r) PROVE VerdictInv'
    <2>1. result[r] = "none" /\ ctr[r] \in {"exited", "removed"} /\ fate[r] \in ProgramFates
      BY <1>0, <1>7 DEF Inspect, Shape, Verdict
    <2>2. Verdict(r)' /\ Truthful(r)'
      BY <1>0, <1>7, <2>1, FateFacts DEF Inspect, Fault, Return, Goto, Verdict, Truthful,
                                         TypeOK
    <2> QED
      BY <1>1, <1>7, <2>2 DEF Inspect, Fault, Return, Goto, TypeOK
  <1>8. ASSUME NEW r \in Runs, ReadLogs(r) PROVE VerdictInv'
    <2>1. /\ result[r] = "none" /\ ctr[r] \in {"exited", "removed"}
          /\ fate[r] \in ProgramFates /\ fate[r].code # 137
          /\ ctr[r] = "removed" => stdin[r] # "none"
      BY <1>0, <1>8 DEF ReadLogs, Shape, Verdict, RunOK, AgeOK
    <2>2. fate[r] # NotEnded /\ fate[r].code \in {0, 1, 100}
      BY <2>1, FateFacts
    <2>3. Verdict(r)' /\ Truthful(r)'
      BY <1>0, <1>8, <2>1, <2>2 DEF ReadLogs, FailsBy, Fault, Return, Goto, statusForExit,
                                    Verdict, Truthful, DeadlinePassed, TypeOK
    <2> QED
      BY <1>1, <1>8, <2>3 DEF ReadLogs, FailsBy, Fault, Return, Goto, TypeOK
  <1>9. ASSUME NEW r \in Runs, ForceRemove(r), pc'[r] = pc[r] \/ pc'[r] = "cleanup",
               stdin' = stdin, limit' = limit, elapsed' = elapsed, result' = result,
               cancelled' = cancelled, r \in faulty => r \in faulty'
        PROVE  Verdict(r)' /\ Truthful(r)'
    <2>1. ctr[r] = "running" => fate'[r] = Killed
      BY <1>9 DEF ForceRemove, TypeOK
    <2>2. ctr[r] # "running" => fate'[r] = fate[r]
      BY <1>9 DEF ForceRemove, TypeOK
    <2>3. \/ ctr'[r] = ctr[r] /\ ctr[r] \in {"none", "removed"}
          \/ ctr'[r] = "removed" /\ ctr[r] \in {"created", "running", "exited"}
      BY <1>9 DEF ForceRemove, Exists, TypeOK
    <2>4. pc[r] \notin Opening \/ pc'[r] \notin Executing \cup Closing
      BY <1>9
    <2>5. Verdict(r)'
      BY <1>0, <1>9, <2>1, <2>2, <2>3, <2>4, FateFacts DEF Verdict
    <2>6. Truthful(r)'
      BY <1>0, <1>9, <2>1, <2>2, <2>3, FateFacts DEF Verdict, Truthful, DeadlinePassed
    <2> QED
      BY <2>5, <2>6
  <1>10. ASSUME NEW r \in Runs, Remove(r) PROVE VerdictInv'
    <2>1. CASE ForceRemove(r)
      <3>1. Verdict(r)' /\ Truthful(r)'
        BY <1>9, <1>10, <2>1 DEF Remove, Fault, Goto, TypeOK
      <3> QED
        BY <1>1, <1>10, <2>1, <3>1 DEF Remove, ForceRemove, Fault, Goto, TypeOK
    <2>2. CASE Fault(r) /\ UNCHANGED dockerVars
      <3>1. Verdict(r)' /\ Truthful(r)'
        BY <1>0, <1>10, <2>2 DEF Remove, Fault, Goto, Verdict, Truthful, DeadlinePassed,
                                 TypeOK
      <3> QED
        BY <1>1, <1>10, <2>2, <3>1 DEF Remove, Fault, Goto, TypeOK
    <2> QED
      BY <1>10, <2>1, <2>2 DEF Remove
  <1>11. ASSUME NEW p \in Passes, NEW r \in Runs, ReapRemove(p, r) PROVE VerdictInv'
    <2>1. Verdict(r)' /\ Truthful(r)'
      BY <1>9, <1>11 DEF ReapRemove
    <2> QED
      BY <1>1, <1>11, <2>1 DEF ReapRemove, ForceRemove, TypeOK
  <1>12. ASSUME NEW r \in Runs, Cleanup(r) PROVE VerdictInv'
    <2>1. Verdict(r)' /\ Truthful(r)'
      BY <1>0, <1>12 DEF Cleanup, RemoveAll, Goto, Verdict, Truthful, DeadlinePassed, TypeOK
    <2> QED
      BY <1>1, <1>12, <2>1 DEF Cleanup, RemoveAll, Goto, TypeOK
  <1>13. ASSUME NEW r \in Runs, Cancel(r) PROVE VerdictInv'
    <2>1. \A q \in Runs : cancelled[q] => cancelled'[q]
      BY <1>13 DEF Cancel, TypeOK
    <2> QED
      BY <1>0, <1>13, <2>1, VerdictFrame DEF Cancel, VerdictInv
  <1>14. ASSUME NEW r \in Runs, Exit(r) PROVE VerdictInv'
    <2>1. fate'[r] \in ProgramFates /\ ctr[r] = "running" /\ ctr'[r] = "exited"
      BY <1>14, EnvironmentAssumption DEF Exit, TypeOK
    <2>2. Verdict(r)'
      BY <1>0, <1>14, <2>1 DEF Exit, Verdict
    <2>3. Truthful(r)'
      BY <1>0, <1>14, <2>1, FateFacts DEF Exit, Verdict, Truthful, DeadlinePassed
    <2> QED
      BY <1>1, <1>14, <2>2, <2>3 DEF Exit, TypeOK
  <1>15. ASSUME UNCHANGED <<runVars, dockerVars>> PROVE VerdictInv'
    BY <1>0, <1>15, VerdictFrame DEF VerdictInv
  <1>16. ASSUME NEW p \in Passes,
                \/ ReapList(p) \/ ReapListFails(p) \/ ReapCutoff(p) \/ ReapEnd(p)
                \/ \E r \in Runs : ReapRemoveFails(p, r)
         PROVE  VerdictInv'
    BY <1>15, <1>16 DEF ReapList, ReapListFails, ReapCutoff, ReapEnd, ReapRemoveFails
  <1>17. CASE Crash
    <2>1. ASSUME NEW r \in Runs PROVE Verdict(r)' /\ Truthful(r)'
      BY <1>0, <1>17 DEF Crash, Verdict, Truthful, DeadlinePassed, TypeOK
    <2> QED
      BY <2>1 DEF VerdictInv
  <1>18. CASE Tick
    <2>1. ASSUME NEW r \in Runs PROVE Verdict(r)' /\ Truthful(r)'
      <3>1. Verdict(r)'
        BY <1>0, <1>18 DEF Tick, Verdict
      <3>2. result[r] # "none" => elapsed'[r] = elapsed[r]
        BY <1>0, <1>18 DEF Tick, Shape, TypeOK
      <3>3. Truthful(r)'
        BY <1>0, <1>18, <3>2 DEF Tick, Truthful, DeadlinePassed
      <3> QED
        BY <3>1, <3>3
    <2> QED
      BY <2>1 DEF VerdictInv
  <1>19. CASE Restart \/ UNCHANGED vars
    BY <1>15, <1>19 DEF Restart, vars
  <1> QED
    BY <1>2, <1>3, <1>4, <1>5, <1>6, <1>7, <1>8, <1>10, <1>11, <1>12, <1>13, <1>14,
       <1>16, <1>17, <1>18, <1>19 DEF Next, Step, ReadStdin, Reap

\* Every status is true of the program it is about, and internal_error has a
\* reason, as long as no container outlives reapMaxAge while it is opened or
\* run: a container reaped too early would be an error nobody caused.
THEOREM StatusesAreTruthful ==
    ASSUME PromptDeployment
    PROVE  Spec => []StatusTruthful
  <1>1. VerdictInv => StatusTruthful
    BY DEF VerdictInv, StatusTruthful
  <1> QED
    BY <1>1, VerdictInit, VerdictStep, LiveKept, ShapeInit, ShapeStep, TypeCorrect, PTL
       DEF Spec

=============================================================================
