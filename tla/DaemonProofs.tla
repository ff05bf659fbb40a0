---------------------------- MODULE DaemonProofs ----------------------------
(***************************************************************************)
(* Proofs about Daemon for any number of requests, any pool and any grace  *)
(* period.                                                                 *)
(***************************************************************************)
EXTENDS Daemon, FiniteSetTheorems, TLAPS

\* The state of the components, which TypeOK leaves to their modules.
PartsOK ==
    /\ phase \in [Requests -> Pool!Phases]
    /\ call \in [Requests -> {"idle", "busy", "answered", "lost"}]
    /\ answer \in [Requests -> Run!Answers]
    /\ files \in [Requests -> {"none", "made", "left"}]
    /\ program \in [Requests -> {"none", "live", "gone"}]

\* Where a request is, and what the pool knows of it.
Placed(r) ==
    /\ at[r] \in {"new", "done"} => phase[r] = "out"
    /\ at[r] = "pool" => phase[r] \in {"arriving", "contending", "waiting"}
    /\ at[r] \in Handling => phase[r] = "running"
    /\ at[r] # "lost"

\* Where it is, what Run knows of it, and what its client was told.
Reported(r) ==
    /\ at[r] \in {"new", "pool", "body", "check"} => call[r] = "idle" /\ code[r] = 0
    /\ at[r] = "run" => call[r] = "busy" /\ code[r] = 0
    /\ at[r] \in {"write", "reply", "done"} => call[r] \in {"idle", "answered"}
    /\ files[r] = "made" => call[r] = "busy"
    /\ call[r] = "idle" => files[r] = "none" /\ program[r] = "none"
    /\ code[r] = 200 => call[r] = "answered" /\ answer[r] = "status"
    /\ code[r] = 500 => call[r] = "answered" /\ answer[r] = "error"
    /\ code[r] \notin {0, 200, 500} => call[r] = "idle"

\* A request that requireAuth refused goes no further.
Guarded(r) == auth /\ ~bearer[r] => at[r] \in {"new", "done"} /\ call[r] = "idle"

\* How far run is, and what it has seen to.
Ordered ==
    /\ main \in {"ready", "sweep", "listen", "select", "shutdown"} => exit = "none"
    /\ main \in {"ready", "sweep", "listen"} => listener = "none"
    /\ main = "shutdown" => listener \in {"draining", "closed"}
    /\ exit = "ok" => /\ main # "shutdown" /\ listener \in {"draining", "closed"}
                      /\ \A r \in Requests : at[r] \notin InFlight
    /\ exit = "error" => clock = Grace \/ listener \in {"failed", "broken"}
    /\ main \in {"close", "exited"} => reaper \in {"none", "ended"}
    /\ closed => main = "exited"

\* While the process lives.
LiveInv == Ordered /\ \A r \in Requests : Placed(r) /\ Reported(r) /\ Guarded(r)

\* The last step, CloseSandbox, leaves what the properties say.
DaemonInv ==
    /\ TypeOK
    /\ PartsOK
    /\ main # "exited" => LiveInv
    /\ main = "exited" => CodesTruthful /\ OnlyAuthorised /\ ShutdownIsGraceful
-----------------------------------------------------------------------------
(* The types.                                                              *)

\* The initial states are well typed.
LEMMA TypeInit == Init => TypeOK /\ PartsOK
  <1> SUFFICES ASSUME Init PROVE TypeOK /\ PartsOK
    OBVIOUS
  <1>1. TypeOK
    <2>1. clock \in 0..Grace
      BY DaemonAssumption DEF Init
    <2>2. auth \in BOOLEAN /\ reaps \in BOOLEAN /\ signal \in BOOLEAN /\ closed \in BOOLEAN
      BY DEF Init
    <2>3. /\ at \in [Requests -> {"new", "done", "lost"} \cup InFlight]
          /\ bearer \in [Requests -> BOOLEAN]
          /\ gone \in [Requests -> BOOLEAN]
          /\ code \in [Requests -> {0, 200, 400, 401, 408, 413, 429, 500}]
      BY DEF Init
    <2> QED
      BY <2>1, <2>2, <2>3 DEF Init, TypeOK
  <1>2. PartsOK
    BY DEF Init, PartsOK, Pool!Init, Run!Init, Pool!Phases, Run!Answers
  <1> QED
    BY <1>1, <1>2

\* The steps of run and of the reaper that leave the requests alone.
Outside ==
    \/ StartReaper \/ Sweep \/ Listen \/ Bind \/ ListenFails \/ SelectSignal
    \/ SelectError \/ ShutdownDone \/ CancelReaper \/ JoinReaper \/ Signal \/ Tick
    \/ ReapBegins \/ ReapReturns \/ ReapLoopEnds

\* They do.
LEMMA OutsideFrame ==
    ASSUME Outside
    PROVE  UNCHANGED <<auth, reaps, reqVars, poolVars, runVars>>
  BY DEF Outside, StartReaper, Sweep, Listen, Bind, ListenFails, SelectSignal, SelectError,
         ShutdownDone, CancelReaper, JoinReaper, Signal, Tick, ReapBegins, ReapReturns,
         ReapLoopEnds, Reaper, StaysOutside

\* Next, by who takes the step.
LEMMA Steps ==
    ASSUME Next
    PROVE  \/ Outside \/ ShutdownExpires \/ CloseSandbox
           \/ \E r \in Requests : RequestStep(r)
  BY DEF Next, MainStep, Outside

\* The part of the types that Outside steps can disturb.
LEMMA TypeOutside ==
    ASSUME TypeOK, PartsOK, Outside
    PROVE  TypeOK' /\ PartsOK'
  <1> USE DEF Outside, StartReaper, Sweep, Listen, Bind, ListenFails, SelectSignal,
              SelectError, ShutdownDone, CancelReaper, JoinReaper, Signal, Tick,
              ReapBegins, ReapReturns, ReapLoopEnds, Reaper, Goto
  <1>1. /\ main' \in {"ready", "sweep", "listen", "select", "shutdown", "cancel", "join",
                      "close", "exited"}
        /\ exit' \in {"none", "ok", "error"}
        /\ listener' \in {"none", "opening", "open", "failed", "broken", "draining", "closed"}
        /\ reaper' \in {"none", "idle", "pass", "ended"}
    BY DEF TypeOK
  <1>2. clock' \in 0..Grace
    BY DaemonAssumption DEF TypeOK
  <1>5. (signal' = signal \/ signal' = TRUE) /\ closed' = closed
    OBVIOUS
  <1> HIDE DEF Outside
  <1>3. PartsOK'
    BY OutsideFrame DEF PartsOK, poolVars, runVars
  <1>4. /\ auth' \in BOOLEAN /\ reaps' \in BOOLEAN
        /\ at' \in [Requests -> {"new", "done", "lost"} \cup InFlight]
        /\ bearer' \in [Requests -> BOOLEAN]
        /\ gone' \in [Requests -> BOOLEAN]
        /\ code' \in [Requests -> {0, 200, 400, 401, 408, 413, 429, 500}]
    BY OutsideFrame DEF TypeOK, reqVars, InFlight, Handling
  <1> QED
    BY <1>1, <1>2, <1>3, <1>4, <1>5 DEF TypeOK

\* A step of a request keeps the types.
LEMMA TypeRequest ==
    ASSUME TypeOK, PartsOK, NEW r \in Requests, RequestStep(r)
    PROVE  TypeOK' /\ PartsOK'
  <1> USE DEF mainVars, reqVars, poolVars, runVars, InFlight, Handling
  <1>1. CASE Receive(r)
    <2>1. PartsOK'
      BY <1>1 DEF Receive, Pool!Arrive, Pool!Phases, PartsOK
    <2>2. PICK good \in {auth, FALSE} : bearer' = [bearer EXCEPT ![r] = good]
      BY <1>1 DEF Receive
    <2>3. bearer' \in [Requests -> BOOLEAN]
      BY <2>2 DEF TypeOK
    <2>4. at' \in [Requests -> {"new", "done", "lost"} \cup InFlight]
      BY <1>1 DEF Receive, Answer, TypeOK
    <2>5. code' \in [Requests -> {0, 200, 400, 401, 408, 413, 429, 500}]
      BY <1>1 DEF Receive, Answer, TypeOK
    <2> QED
      BY <1>1, <2>1, <2>3, <2>4, <2>5 DEF Receive, TypeOK
  <1>2. CASE Admit(r)
    BY <1>2 DEF Admit, Pool!Start, Pool!Contend, Pool!Wait, Pool!Phases, TypeOK, PartsOK
  <1>3. CASE TurnAway(r)
    BY <1>3 DEF TurnAway, Answer, Pool!Leave, Pool!Phases, TypeOK, PartsOK
  <1>4. CASE ReadBody(r)
    <2>1. PartsOK'
      BY <1>4 DEF ReadBody, PartsOK
    <2>2. at' \in [Requests -> {"new", "done", "lost"} \cup InFlight]
      BY <1>4 DEF ReadBody, Answer, TypeOK
    <2>3. code' \in [Requests -> {0, 200, 400, 401, 408, 413, 429, 500}]
      BY <1>4 DEF ReadBody, Answer, TypeOK
    <2> QED
      BY <1>4, <2>1, <2>2, <2>3 DEF ReadBody, TypeOK
  <1>5. CASE Check(r)
    BY <1>5 DEF Check, Answer, mapRunError, Run!Call, TypeOK, PartsOK
  <1>6. CASE RunWorks(r)
    <2>1. TypeOK'
      BY <1>6 DEF RunWorks, TypeOK
    <2>2. files' \in [Requests -> {"none", "made", "left"}]
      BY <1>6 DEF RunWorks, Run!MakeFiles, Run!Launch, Run!Collect, PartsOK
    <2>3. program' \in [Requests -> {"none", "live", "gone"}]
      BY <1>6 DEF RunWorks, Run!MakeFiles, Run!Launch, Run!Collect, PartsOK
    <2>4. UNCHANGED <<phase, call, answer>>
      BY <1>6 DEF RunWorks, Run!MakeFiles, Run!Launch, Run!Collect
    <2> QED
      BY <2>1, <2>2, <2>3, <2>4 DEF PartsOK
  <1>7. CASE RunReturns(r)
    <2>1. TypeOK'
      BY <1>7 DEF RunReturns, Answer, mapRunError, TypeOK
    <2>2. PartsOK'
      BY <1>7 DEF RunReturns, Run!Answer, Run!Answers, PartsOK
    <2> QED
      BY <2>1, <2>2
  <1>8. CASE Reply(r)
    BY <1>8 DEF Reply, Pool!Leave, Pool!HandOver, Pool!Phases, TypeOK, PartsOK
  <1>9. CASE Disconnect(r)
    BY <1>9 DEF Disconnect, TypeOK, PartsOK
  <1>10. CASE Write(r)
    BY <1>10 DEF Write, TypeOK, PartsOK
  <1> QED
    BY <1>1, <1>2, <1>3, <1>4, <1>5, <1>6, <1>7, <1>8, <1>9, <1>10 DEF RequestStep

\* Every step keeps the types.
LEMMA TypeStep == TypeOK /\ PartsOK /\ [Next]_vars => TypeOK' /\ PartsOK'
  <1> SUFFICES ASSUME TypeOK, PartsOK, [Next]_vars PROVE TypeOK' /\ PartsOK'
    OBVIOUS
  <1>1. CASE ShutdownExpires
    BY <1>1 DEF ShutdownExpires, Goto, TypeOK, PartsOK, poolVars, runVars
  <1>2. CASE CloseSandbox
    BY <1>2 DEF CloseSandbox, Goto, Run!Die, TypeOK, PartsOK, poolVars
  <1>3. CASE UNCHANGED vars
    BY <1>3 DEF vars, mainVars, reqVars, poolVars, runVars, TypeOK, PartsOK
  <1> QED
    BY <1>1, <1>2, <1>3, Steps, TypeOutside, TypeRequest

\* Type correctness of the daemon.
THEOREM TypeCorrect == Spec => []TypeOK
  <1>1. Spec => [](TypeOK /\ PartsOK)
    BY TypeInit, TypeStep, PTL DEF Spec
  <1> QED
    BY <1>1, PTL
-----------------------------------------------------------------------------
(* The requests and the shutdown.                                          *)

\* Initially no request has come.
LEMMA LiveInit == Init => main # "exited" /\ LiveInv
  BY DEF Init, LiveInv, Ordered, Placed, Reported, Guarded, InFlight, Handling, Pool!Init,
         Run!Init

\* While the process lives, the properties follow.
LEMMA LiveImplies ==
    ASSUME TypeOK, PartsOK, LiveInv
    PROVE  /\ \A r \in Requests : phase[r] = "running" <=> at[r] \in Handling
           /\ CodesTruthful /\ OnlyAuthorised
           /\ main # "exited" => ShutdownIsGraceful
  <1>1. ASSUME NEW r \in Requests PROVE phase[r] = "running" <=> at[r] \in Handling
    BY <1>1 DEF LiveInv, Placed, TypeOK, InFlight
  <1>2. CodesTruthful
    <2> SUFFICES ASSUME NEW r \in Requests
                 PROVE  /\ code[r] = 200 => answer[r] = "status"
                        /\ code[r] = 500 => answer[r] = "error"
                        /\ code[r] \in 400..499 =>
                              call[r] = "idle" /\ files[r] = "none" /\ program[r] = "none"
      BY DEF CodesTruthful
    <2>1. Reported(r)
      BY DEF LiveInv
    <2> QED
      BY <2>1 DEF Reported
  <1>3. OnlyAuthorised
    BY DEF OnlyAuthorised, LiveInv, Guarded, Placed
  <1>4. main # "exited" => ShutdownIsGraceful
    BY DEF ShutdownIsGraceful, LiveInv, Ordered
  <1> QED
    BY <1>1, <1>2, <1>3, <1>4

\* The steps of run and of the reaper come in order.
LEMMA LiveOutside ==
    ASSUME TypeOK, PartsOK, LiveInv, main # "exited", Outside
    PROVE  main' # "exited" /\ LiveInv'
  <1>1. ASSUME NEW r \in Requests PROVE Placed(r)' /\ Reported(r)' /\ Guarded(r)'
    BY <1>1, OutsideFrame
       DEF LiveInv, Placed, Reported, Guarded, reqVars, poolVars, runVars
  <1>2. Ordered /\ at' = at
    BY OutsideFrame DEF LiveInv, reqVars
  <1>3. main' # "exited" /\ Ordered'
    BY <1>2 DEF Ordered, Outside, StartReaper, Sweep, Listen, Bind, ListenFails, SelectSignal,
           SelectError, ShutdownDone, CancelReaper, JoinReaper, Signal, Tick, ReapBegins,
           ReapReturns, ReapLoopEnds, Reaper, ReaperCancelled, Goto, TypeOK
  <1> QED
    BY <1>1, <1>3 DEF LiveInv

\* What one step may do to the other requests: nothing.
Aside(q) ==
    /\ at'[q] = at[q] /\ bearer'[q] = bearer[q] /\ code'[q] = code[q] /\ phase'[q] = phase[q]
    /\ call'[q] = call[q] /\ answer'[q] = answer[q] /\ files'[q] = files[q]
    /\ program'[q] = program[q]

\* A request that a step is not about stays as it was.
LEMMA AsideFrame ==
    ASSUME NEW q, Placed(q), Reported(q), Guarded(q), Aside(q), auth' = auth
    PROVE  Placed(q)' /\ Reported(q)' /\ Guarded(q)'
  BY DEF Placed, Reported, Guarded, Aside

\* A step of a request changes no other, but for the one that is handed its slot.
LEMMA OthersAside ==
    ASSUME TypeOK, PartsOK, NEW r \in Requests, RequestStep(r), NEW q \in Requests, q # r
    PROVE  Aside(q) \/ (Reply(r) /\ Pool!HandOver(r, q))
  <1> USE DEF Aside, mainVars, reqVars, poolVars, runVars
  <1>1. CASE Receive(r)
    BY <1>1 DEF Receive, Answer, Pool!Arrive, TypeOK, PartsOK
  <1>2. CASE Admit(r)
    BY <1>2 DEF Admit, Pool!Start, Pool!Contend, Pool!Wait, TypeOK, PartsOK
  <1>3. CASE TurnAway(r)
    BY <1>3 DEF TurnAway, Answer, Pool!Leave, TypeOK, PartsOK
  <1>4. CASE ReadBody(r)
    BY <1>4 DEF ReadBody, Answer, TypeOK, PartsOK
  <1>5. CASE Check(r)
    BY <1>5 DEF Check, Answer, Run!Call, TypeOK, PartsOK
  <1>6. CASE RunWorks(r)
    BY <1>6 DEF RunWorks, Run!MakeFiles, Run!Launch, Run!Collect, TypeOK, PartsOK
  <1>7. CASE RunReturns(r)
    BY <1>7 DEF RunReturns, Answer, Run!Answer, TypeOK, PartsOK
  <1>8. CASE Reply(r)
    BY <1>8 DEF Reply, Pool!Leave, Pool!HandOver, TypeOK, PartsOK
  <1>9. CASE Disconnect(r)
    BY <1>9 DEF Disconnect
  <1>10. CASE Write(r)
    BY <1>10 DEF Write, TypeOK
  <1> QED
    BY <1>1, <1>2, <1>3, <1>4, <1>5, <1>6, <1>7, <1>8, <1>9, <1>10 DEF RequestStep

\* The request a step is about.
LEMMA OwnStep ==
    ASSUME TypeOK, PartsOK, LiveInv, NEW r \in Requests, RequestStep(r)
    PROVE  Placed(r)' /\ Reported(r)' /\ Guarded(r)'
  <1>0. Placed(r) /\ Reported(r) /\ Guarded(r)
    BY DEF LiveInv
  <1> USE DEF mainVars, reqVars, poolVars, runVars, Handling
  <1>1. CASE Receive(r)
    <2>1. Placed(r)' /\ Reported(r)'
      BY <1>0, <1>1 DEF Receive, Answer, Pool!Arrive, TypeOK, PartsOK, Placed, Reported
    <2>2. Guarded(r)'
      BY <1>0, <1>1 DEF Receive, Answer, TypeOK, Guarded, Reported
    <2> QED
      BY <2>1, <2>2
  <1>2. CASE Admit(r)
    BY <1>0, <1>2 DEF Admit, Pool!Start, Pool!Contend, Pool!Wait, TypeOK, PartsOK, Placed,
                      Reported, Guarded
  <1>3. CASE TurnAway(r)
    BY <1>0, <1>3 DEF TurnAway, Answer, Pool!Leave, TypeOK, PartsOK, Placed, Reported, Guarded
  <1>4. CASE ReadBody(r)
    BY <1>0, <1>4 DEF ReadBody, Answer, TypeOK, PartsOK, Placed, Reported, Guarded
  <1>5. CASE Check(r)
    BY <1>0, <1>5 DEF Check, Answer, mapRunError, Run!Call, TypeOK, PartsOK, Placed, Reported,
                      Guarded
  <1>6. CASE RunWorks(r)
    BY <1>0, <1>6 DEF RunWorks, Run!MakeFiles, Run!Launch, Run!Collect, TypeOK, PartsOK,
                      Placed, Reported, Guarded
  <1>7. CASE RunReturns(r)
    BY <1>0, <1>7 DEF RunReturns, Answer, mapRunError, Run!Answer, TypeOK, PartsOK, Placed,
                      Reported, Guarded
  <1>8. CASE Reply(r)
    BY <1>0, <1>8 DEF Reply, Pool!Leave, Pool!HandOver, TypeOK, PartsOK, Placed, Reported,
                      Guarded
  <1>9. CASE Disconnect(r)
    BY <1>0, <1>9 DEF Disconnect, Placed, Reported, Guarded
  <1>10. CASE Write(r)
    BY <1>0, <1>10 DEF Write, TypeOK, Placed, Reported, Guarded
  <1> QED
    BY <1>1, <1>2, <1>3, <1>4, <1>5, <1>6, <1>7, <1>8, <1>9, <1>10 DEF RequestStep

\* A step of a request: the others stay, and the one that is handed the slot
\* was waiting for it.  After a Shutdown that was waited for there is none.
LEMMA LiveRequest ==
    ASSUME TypeOK, PartsOK, LiveInv, NEW r \in Requests, RequestStep(r)
    PROVE  main' = main /\ LiveInv'
  <1> USE DEF mainVars, reqVars, poolVars, runVars
  <1>1. UNCHANGED mainVars
    BY DEF RequestStep, Receive, Admit, TurnAway, ReadBody, Check, RunWorks, RunReturns, Write, Reply,
           Disconnect
  <1>2. ASSUME NEW q \in Requests PROVE Placed(q)' /\ Reported(q)' /\ Guarded(q)'
    <2>1. CASE q = r
      BY <2>1, OwnStep
    <2>2. CASE Aside(q)
      BY <1>1, <2>2, AsideFrame DEF LiveInv
    <2>3. CASE q # r /\ Reply(r) /\ Pool!HandOver(r, q)
      <3>1. at[q] = "pool" /\ at'[q] = "body"
        <4>1. phase[q] = "waiting" /\ phase'[q] = "running"
          BY <2>3 DEF Pool!HandOver, PartsOK
        <4>2. at[q] = "pool"
          BY <4>1 DEF LiveInv, Placed, TypeOK, InFlight
        <4>3. ~Pool!Leave(r)
          BY <2>3, <4>1 DEF Pool!Leave, PartsOK
        <4>4. PICK w \in Requests : /\ Pool!HandOver(r, w)
                                    /\ at' = [at EXCEPT ![r] = "done", ![w] = "body"]
          BY <2>3, <4>3 DEF Reply
        <4>5. w = q
          BY <2>3, <4>1, <4>4 DEF Pool!HandOver, PartsOK
        <4> QED
          BY <2>3, <4>2, <4>4, <4>5 DEF TypeOK
      <3>2. /\ phase'[q] = "running" /\ bearer' = bearer /\ code' = code
            /\ UNCHANGED runVars
        BY <2>3 DEF Reply, Pool!HandOver, PartsOK
      <3> QED
        BY <1>1, <3>1, <3>2 DEF LiveInv, Placed, Reported, Guarded, Handling
    <2> QED
      BY <2>1, <2>2, <2>3, OthersAside
  <1>3. Ordered'
    <2>1. ASSUME exit = "ok" PROVE at' = at
      <3>1. ~Reachable /\ at[r] \notin InFlight
        BY <2>1 DEF LiveInv, Ordered, Reachable
      <3> QED
        BY <3>1 DEF RequestStep, Receive, Admit, TurnAway, ReadBody, Check, RunWorks, RunReturns,
           Write, Reply, Disconnect, InFlight, Handling
    <2> QED
      BY <1>1, <2>1 DEF LiveInv, Ordered
  <1> QED
    BY <1>1, <1>2, <1>3 DEF LiveInv

\* The last step of the process.
LEMMA LiveClose ==
    ASSUME TypeOK, PartsOK, LiveInv, CloseSandbox
    PROVE  main' = "exited" /\ CodesTruthful' /\ OnlyAuthorised' /\ ShutdownIsGraceful'
  <1>1. main = "close" /\ main' = "exited"
    BY DEF CloseSandbox, Goto
  <1>2. /\ CodesTruthful /\ OnlyAuthorised
        /\ Ordered /\ \A r \in Requests : Reported(r) /\ Placed(r)
    BY LiveImplies DEF LiveInv
  <1>3. \A r \in Requests :
           /\ call[r] = "idle" => call'[r] = "idle"
           /\ at'[r] = IF at[r] \in InFlight THEN "lost" ELSE at[r]
    BY DEF CloseSandbox, Run!Die, PartsOK
  <1>4. UNCHANGED <<auth, exit, listener, clock, reaper, bearer, code, phase, answer, files,
                    program>>
    BY DEF CloseSandbox, Run!Die, poolVars
  <1>5. CodesTruthful'
    BY <1>2, <1>3, <1>4 DEF CodesTruthful
  <1>6. OnlyAuthorised'
    BY <1>2, <1>3, <1>4 DEF OnlyAuthorised, InFlight, Handling
  <1>7. ShutdownIsGraceful'
    <2>1. ASSUME exit = "ok", NEW r \in Requests PROVE at'[r] # "lost" /\ files[r] # "made"
      <3>1. at[r] \notin InFlight /\ at[r] # "lost"
        BY <1>2, <2>1 DEF Ordered, Placed
      <3>2. call[r] # "busy"
        BY <1>2, <3>1 DEF Reported, TypeOK
      <3> QED
        BY <1>2, <1>3, <3>1, <3>2 DEF Reported
    <2> QED
      BY <1>1, <1>2, <1>4, <2>1 DEF ShutdownIsGraceful, Ordered
  <1> QED
    BY <1>1, <1>5, <1>6, <1>7

\* The whole invariant is inductive.
LEMMA DaemonStep == DaemonInv /\ [Next]_vars => DaemonInv'
  <1> SUFFICES ASSUME DaemonInv, [Next]_vars PROVE DaemonInv'
    OBVIOUS
  <1>1. TypeOK' /\ PartsOK'
    BY TypeStep DEF DaemonInv
  <1>2. CASE UNCHANGED vars
    BY <1>1, <1>2 DEF DaemonInv, vars, mainVars, reqVars, poolVars, runVars, LiveInv, Ordered,
           Placed, Reported, Guarded, CodesTruthful, OnlyAuthorised, ShutdownIsGraceful
  <1>3. CASE Next
    <2>1. main # "exited" /\ TypeOK /\ PartsOK /\ LiveInv
      BY <1>3 DEF Next, DaemonInv
    <2>2. CASE Outside
      BY <1>1, <2>1, <2>2, LiveOutside DEF DaemonInv
    <2>3. CASE ShutdownExpires
      <3>1. /\ main' = "cancel" /\ exit' = "error" /\ clock' = Grace
            /\ UNCHANGED <<auth, reaper, closed, listener, at, bearer, code, phase, runVars>>
        BY <2>3 DEF ShutdownExpires, Goto, poolVars
      <3>2. main = "shutdown"
        BY <2>3 DEF ShutdownExpires, Goto
      <3>3. Ordered'
        BY <2>1, <3>1, <3>2 DEF LiveInv, Ordered
      <3>4. ASSUME NEW r \in Requests PROVE Placed(r)' /\ Reported(r)' /\ Guarded(r)'
        BY <2>1, <3>1 DEF LiveInv, Placed, Reported, Guarded, runVars
      <3> QED
        BY <1>1, <3>1, <3>3, <3>4 DEF DaemonInv, LiveInv
    <2>4. CASE CloseSandbox
      BY <1>1, <2>1, <2>4, LiveClose DEF DaemonInv
    <2>5. ASSUME NEW r \in Requests, RequestStep(r) PROVE DaemonInv'
      BY <1>1, <2>1, <2>5, LiveRequest DEF DaemonInv
    <2> QED
      BY <1>3, <2>2, <2>3, <2>4, <2>5, Steps
  <1> QED
    BY <1>2, <1>3

\* It holds throughout.
LEMMA DaemonAlways == Spec => []DaemonInv
  <1>1. Init => DaemonInv
    BY TypeInit, LiveInit DEF DaemonInv
  <1> QED
    BY <1>1, DaemonStep, PTL DEF Spec

\* Every return of handleExecute gives the slot of the pool back, whatever the
\* order of bodies, answers, hand-overs and clients that leave.
THEOREM SlotsMeanHandlers == Spec => []SlotMeansHandler
  <1>1. DaemonInv => SlotMeansHandler
    BY LiveImplies DEF DaemonInv, SlotMeansHandler
  <1> QED
    BY <1>1, DaemonAlways, PTL

\* 200 and 500 are what Run returned, and a request refused with 4xx has not
\* touched the sandbox, not even when the process is cut off.
THEOREM CodesAreTruthful == Spec => []CodesTruthful
  <1>1. DaemonInv => CodesTruthful
    BY LiveImplies DEF DaemonInv
  <1> QED
    BY <1>1, DaemonAlways, PTL

\* With AUTH_TOKEN set, a request without the token never holds a place in the
\* pool and never reaches the sandbox.
THEOREM OnlyAuthorisedEnter == Spec => []OnlyAuthorised
  <1>1. DaemonInv => OnlyAuthorised
    BY LiveImplies DEF DaemonInv
  <1> QED
    BY <1>1, DaemonAlways, PTL

\* A shutdown that reports success has answered every request and called
\* RemoveAll on every workspace; one that cuts requests off has waited for the whole grace period
\* or lost its listener; the sandbox is closed after the last pass of the
\* reaper.
THEOREM ShutdownsAreGraceful == Spec => []ShutdownIsGraceful
  <1>1. DaemonInv => ShutdownIsGraceful
    BY LiveImplies DEF DaemonInv
  <1> QED
    BY <1>1, DaemonAlways, PTL
-----------------------------------------------------------------------------
(* The pool bounds the sandboxes.                                          *)

\* The requests that hold a slot.
Running(f) == {r \in Requests : f[r] = "running"}

\* The two names of Cardinality.
LEMMA SameCardinality == \A S : Pool!Cardinality(S) = Cardinality(S)
  BY DEF Pool!Cardinality, Cardinality

\* They can be counted.
LEMMA RunningIsFinite ==
    ASSUME NEW f
    PROVE  IsFiniteSet(Running(f)) /\ Cardinality(Running(f)) \in Nat
  BY FS_Subset, FS_CardinalityType, DaemonAssumption DEF Running

\* A step of the pool never has more than Size requests running.
LEMMA BoundStep ==
    ASSUME PartsOK, Cardinality(Running(phase)) <= Size, NEW r \in Requests,
           \/ Pool!Arrive(r) \/ Pool!Contend(r) \/ Pool!Wait(r) \/ Pool!Start(r) \/ Pool!Leave(r)
           \/ \E w \in Requests : Pool!HandOver(r, w)
    PROVE  Cardinality(Running(phase')) <= Size
  <1> DEFINE S == Running(phase)
             T == Running(phase')
  <1>1. /\ IsFiniteSet(S) /\ Cardinality(S) \in Nat
        /\ IsFiniteSet(T) /\ Cardinality(T) \in Nat /\ Size \in Nat
    BY RunningIsFinite, DaemonAssumption
  <1>2. CASE T \subseteq S
    BY <1>1, <1>2, FS_Subset
  <1>3. CASE Pool!Start(r)
    <2>1. Cardinality(S) < Size
      <3>1. Pool!In("running") = S
        BY DEF Pool!In, Running
      <3>2. Pool!Cardinality(Pool!In("running")) < Size
        BY <1>3 DEF Pool!Start
      <3> QED
        BY <3>1, <3>2, SameCardinality
    <2>2. T = S \cup {r}
      BY <1>3 DEF Pool!Start, Running, PartsOK
    <2>3. Cardinality(S \cup {r}) <= Cardinality(S) + 1
      <3> HIDE DEF S
      <3>1. Cardinality(S \cup {r}) = IF r \in S THEN Cardinality(S) ELSE Cardinality(S) + 1
        BY <1>1, FS_AddElement
      <3> QED
        BY <1>1, <3>1
    <2> QED
      BY <1>1, <2>1, <2>2, <2>3
  <1>4. ASSUME NEW w \in Requests, Pool!HandOver(r, w) PROVE Cardinality(T) <= Size
    <2>1. r \in S /\ w \notin S /\ T = (S \ {r}) \cup {w}
      BY <1>4 DEF Pool!HandOver, Running, PartsOK
    <2>2. /\ IsFiniteSet(S \ {r}) /\ Cardinality(S \ {r}) = Cardinality(S) - 1
      BY <1>1, <2>1, FS_RemoveElement
    <2>3. Cardinality((S \ {r}) \cup {w}) = Cardinality(S \ {r}) + 1
      BY <2>1, <2>2, FS_AddElement
    <2> QED
      BY <1>1, <2>1, <2>2, <2>3
  <1>5. CASE Pool!Arrive(r) \/ Pool!Contend(r) \/ Pool!Wait(r) \/ Pool!Leave(r)
    <2>1. T \subseteq S
      BY <1>5 DEF Pool!Arrive, Pool!Contend, Pool!Wait, Pool!Leave, Running, PartsOK
    <2> QED
      BY <1>2, <2>1
  <1> QED
    BY <1>3, <1>4, <1>5

\* The calls of Run that go on.
Busy == {r \in Requests : call[r] = "busy"}

\* The daemon has at most WORKER_POOL_SIZE calls of Run at a time, and so at
\* most that many programs that a call waits for.
THEOREM SandboxesAreBounded == Spec => [](Cardinality(Busy) <= Size)
  <1> DEFINE Bound == Cardinality(Running(phase)) <= Size
  <1>1. Init => Bound
    <2> SUFFICES ASSUME Init PROVE Bound
      OBVIOUS
    <2>1. Running(phase) = {}
      BY DEF Init, Pool!Init, Running
    <2> QED
      BY <2>1, FS_EmptySet, DaemonAssumption
  <1>2. DaemonInv /\ Bound /\ [Next]_vars => Bound'
    <2> SUFFICES ASSUME DaemonInv, Bound, [Next]_vars PROVE Bound'
      OBVIOUS
    <2>1. CASE phase' = phase
      BY <2>1
    <2>2. ASSUME NEW r \in Requests, RequestStep(r) PROVE Bound'
      <3>1. \/ phase' = phase
            \/ \/ Pool!Arrive(r) \/ Pool!Contend(r) \/ Pool!Wait(r) \/ Pool!Start(r)
               \/ Pool!Leave(r) \/ \E w \in Requests : Pool!HandOver(r, w)
        BY <2>2 DEF RequestStep, Receive, Admit, TurnAway, ReadBody, Check, RunWorks, RunReturns,
                    Write, Reply, Disconnect, poolVars
      <3> QED
        BY <2>1, <3>1, BoundStep DEF DaemonInv
    <2>3. CASE Outside \/ ShutdownExpires \/ CloseSandbox \/ UNCHANGED vars
      <3>1. phase' = phase
        BY <2>3, OutsideFrame DEF ShutdownExpires, CloseSandbox, vars, poolVars
      <3> QED
        BY <2>1, <3>1
    <2> QED
      BY <2>2, <2>3, Steps
  <1>3. ASSUME DaemonInv, Bound, main # "exited" PROVE Cardinality(Busy) <= Size
    <2>1. Busy \subseteq Running(phase)
      BY <1>3 DEF DaemonInv, LiveInv, Placed, Reported, Handling, InFlight, TypeOK, Busy, Running
    <2>2. IsFiniteSet(Running(phase)) /\ Cardinality(Running(phase)) \in Nat
      BY RunningIsFinite
    <2>3. Cardinality(Busy) <= Cardinality(Running(phase)) /\ Cardinality(Busy) \in Nat
      BY <2>1, <2>2, FS_Subset, FS_CardinalityType
    <2> QED
      BY <1>3, <2>2, <2>3, DaemonAssumption
  <1> DEFINE Ended == main = "exited" => Busy = {}
  <1>4. Init => Ended
    BY DEF Init
  <1>5. DaemonInv /\ Ended /\ [Next]_vars => Ended'
    <2> SUFFICES ASSUME DaemonInv, Ended, [Next]_vars PROVE Ended'
      OBVIOUS
    <2>1. CASE UNCHANGED vars
      BY <2>1 DEF vars, mainVars, runVars, Busy
    <2>2. CASE Next
      <3>1. main # "exited" /\ TypeOK /\ PartsOK /\ LiveInv
        BY <2>2 DEF Next, DaemonInv
      <3>2. CASE Outside
        BY <3>1, <3>2, LiveOutside
      <3>3. CASE ShutdownExpires
        BY <3>3 DEF ShutdownExpires, Goto
      <3>4. CASE CloseSandbox
        BY <3>4 DEF CloseSandbox, Run!Die, Busy
      <3>5. ASSUME NEW r \in Requests, RequestStep(r) PROVE main' # "exited"
        BY <3>1, <3>5, LiveRequest
      <3> QED
        BY <2>2, <3>2, <3>3, <3>4, <3>5, Steps
    <2> QED
      BY <2>1, <2>2
  <1>6. ASSUME DaemonInv, Bound, Ended PROVE Cardinality(Busy) <= Size
    <2>1. CASE main = "exited"
      BY <1>6, <2>1, FS_EmptySet, DaemonAssumption
    <2> QED
      BY <1>3, <1>6, <2>1
  <1> QED
    BY <1>1, <1>2, <1>4, <1>5, <1>6, DaemonAlways, PTL DEF Spec
=============================================================================
