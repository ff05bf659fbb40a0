------------------------------- MODULE Daemon -------------------------------
(***************************************************************************)
(* The second half of run in cmd/runboxd/main.go, with POST /execute: the  *)
(* daemon has its sandbox (Startup) and starts the reaper, serves, and     *)
(* shuts down when a signal or an error of the listener ends its select.   *)
(*                                                                         *)
(* It composes the components by what they promise: the worker pool is     *)
(* BoundedPool, which WorkerPool implements; a call of Sandbox.Run is      *)
(* SandboxContract, which both backends implement.  A request passes       *)
(* requireAuth, the pool's middleware and handleExecute.  Clients may      *)
(* leave, and may take any time to send a body and to read an answer: the  *)
(* server has no ReadTimeout and no WriteTimeout.                          *)
(***************************************************************************)
EXTENDS Integers, FiniteSets

CONSTANTS
    Requests,       \* requests to POST /execute, each a call of Run at most
    Size, Queue,    \* the Config's WorkerPoolSize and MaxQueueSize
    Grace           \* the 8 seconds of Shutdown, in ticks

ASSUME DaemonAssumption ==
    /\ IsFiniteSet(Requests)
    /\ Size \in Nat \ {0} /\ Queue \in Nat /\ Grace \in Nat \ {0}

VARIABLES
    auth,       \* AUTH_TOKEN is set
    reaps,      \* the backend is a Reaper: Docker
    main,       \* the next step of run
    exit,       \* "none", "ok" or "error": how run returned
    signal,     \* SIGTERM or SIGINT arrived
    listener,   \* "none", "opening", "open" or "failed", "broken" when Accept
                \* failed, "draining" or "closed" when Shutdown was called
    clock,      \* ticks since Shutdown began
    reaper,     \* the goroutine of reapLoop: "none", "idle", "pass", "ended"
    closed,     \* sb.Close was called
    at,         \* at[r]: where request r is
    bearer,     \* bearer[r]: it came with the token
    gone,       \* gone[r]: its connection is closed
    code,       \* code[r]: the HTTP status it was answered with
    phase,      \* the pool
    call, answer, files, program    \* the calls of Run

poolVars == phase
runVars  == <<call, answer, files, program>>
mainVars == <<auth, reaps, main, exit, signal, listener, clock, reaper, closed>>
reqVars  == <<at, bearer, gone, code>>
vars     == <<mainVars, reqVars, poolVars, runVars>>

Pool == INSTANCE BoundedPool WITH Req <- Requests
Run  == INSTANCE SandboxContract WITH Runs <- Requests, Unstarted <- TRUE

\* In a handler, behind the pool.
Handling == {"body", "check", "run", "write", "reply"}
InFlight == {"pool"} \cup Handling

Init ==
    /\ auth \in BOOLEAN
    /\ reaps \in BOOLEAN
    /\ main = "ready"
    /\ exit = "none"
    /\ signal = FALSE
    /\ listener = "none"
    /\ clock = 0
    /\ reaper = "none"
    /\ closed = FALSE
    /\ at = [r \in Requests |-> "new"]
    /\ bearer = [r \in Requests |-> FALSE]
    /\ gone = [r \in Requests |-> FALSE]
    /\ code = [r \in Requests |-> 0]
    /\ Pool!Init
    /\ Run!Init
-----------------------------------------------------------------------------
(* run: the reaper, the listener, the select and the shutdown.             *)

Goto(from, to) == main = from /\ main' = to

StaysOutside == UNCHANGED <<auth, reaps, reqVars, poolVars, runVars>>

\* The reaper's goroutine, if the backend has one, and its first pass.
StartReaper ==
    /\ Goto("ready", IF reaps THEN "sweep" ELSE "listen")
    /\ reaper' = IF reaps THEN "idle" ELSE "none"
    /\ UNCHANGED <<exit, signal, listener, clock, closed>> /\ StaysOutside

\* reaper.ReapOrphans returns.
Sweep ==
    /\ Goto("sweep", "listen")
    /\ UNCHANGED <<exit, signal, listener, clock, reaper, closed>> /\ StaysOutside

\* The goroutine of ListenAndServe is started; run waits in the select.
Listen ==
    /\ Goto("listen", "select")
    /\ listener' = "opening"
    /\ UNCHANGED <<exit, signal, clock, reaper, closed>> /\ StaysOutside

\* It binds the port ...
Bind ==
    /\ listener = "opening" /\ listener' = "open"
    /\ UNCHANGED <<main, exit, signal, clock, reaper, closed>> /\ StaysOutside

\* ... or cannot, or Accept fails for good.
ListenFails ==
    /\ \/ listener = "opening" /\ listener' = "failed"
       \/ listener = "open" /\ listener' = "broken"
    /\ UNCHANGED <<main, exit, signal, clock, reaper, closed>> /\ StaysOutside

\* A mistake: Close and not Shutdown.
SelectSignalCloses ==
    /\ signal
    /\ Goto("select", "cancel")
    /\ exit' = "ok"
    /\ listener' = "closed"
    /\ UNCHANGED <<signal, clock, reaper, closed>> /\ StaysOutside

\* case <-ctx.Done(), and Shutdown closes the listener.  The connections that
\* were accepted stay until they are idle.
SelectSignal ==
    /\ signal
    /\ Goto("select", "shutdown")
    /\ listener' = IF listener \in {"open", "broken"} THEN "draining" ELSE "closed"
    /\ UNCHANGED <<exit, signal, clock, reaper, closed>> /\ StaysOutside

\* case err := <-errCh: no Shutdown.
SelectError ==
    /\ listener \in {"failed", "broken"}
    /\ Goto("select", "cancel")
    /\ exit' = "error"
    /\ UNCHANGED <<signal, listener, clock, reaper, closed>> /\ StaysOutside

\* Shutdown finds every connection idle.
ShutdownDone ==
    /\ \A r \in Requests : at[r] \notin InFlight
    /\ Goto("shutdown", "cancel")
    /\ exit' = "ok"
    /\ UNCHANGED <<signal, listener, clock, reaper, closed>> /\ StaysOutside

\* A mistake: Shutdown's context has no deadline.
ShutdownWaitsOn ==
    /\ \A r \in Requests : at[r] \notin InFlight
    /\ Goto("shutdown", "cancel")
    /\ exit' = "error"
    /\ UNCHANGED <<signal, listener, clock, reaper, closed>> /\ StaysOutside

\* Its context is done; Close drops the connections, the handlers go on.
ShutdownExpires ==
    /\ clock = Grace
    /\ Goto("shutdown", "cancel")
    /\ exit' = "error"
    /\ gone' = [r \in Requests |-> gone[r] \/ at[r] \in InFlight]
    /\ UNCHANGED <<auth, reaps, signal, listener, clock, reaper, closed,
                   at, bearer, code, poolVars, runVars>>

\* The deferred calls, last first: reaperCancel and <-reaperDone ...
CancelReaper ==
    /\ Goto("cancel", "join")
    /\ UNCHANGED <<exit, signal, listener, clock, reaper, closed>> /\ StaysOutside

JoinReaper ==
    /\ reaper \in {"none", "ended"}
    /\ Goto("join", "close")
    /\ UNCHANGED <<exit, signal, listener, clock, reaper, closed>> /\ StaysOutside

\* ... and sb.Close.  The process ends with whatever is still in it.
CloseSandbox ==
    /\ Goto("close", "exited")
    /\ closed' = TRUE
    /\ at' = [r \in Requests |-> IF at[r] \in InFlight THEN "lost" ELSE at[r]]
    /\ Run!Die
    /\ UNCHANGED <<auth, reaps, exit, signal, listener, clock, reaper,
                   bearer, gone, code, poolVars>>

MainStep ==
    \/ StartReaper \/ Listen \/ SelectSignal \/ SelectError
    \/ ShutdownDone \/ ShutdownExpires
    \/ CancelReaper \/ JoinReaper \/ CloseSandbox

\* NotifyContext remembers the signal; run looks at it in the select only.
Signal ==
    /\ ~signal /\ signal' = TRUE
    /\ UNCHANGED <<main, exit, listener, clock, reaper, closed>> /\ StaysOutside

\* A mistake: the deadline is noticed late.
TickPast ==
    /\ main = "shutdown" /\ clock <= Grace
    /\ clock' = clock + 1
    /\ UNCHANGED <<main, exit, signal, listener, reaper, closed>> /\ StaysOutside

Tick ==
    /\ main = "shutdown" /\ clock < Grace
    /\ clock' = clock + 1
    /\ UNCHANGED <<main, exit, signal, listener, reaper, closed>> /\ StaysOutside
-----------------------------------------------------------------------------
(* reapLoop.                                                               *)

ReaperCancelled == main \in {"join", "close"}

Reaper(from, to) ==
    /\ reaper = from /\ reaper' = to
    /\ UNCHANGED <<main, exit, signal, listener, clock, closed>> /\ StaysOutside

\* case <-t.C, which may win over a context that is done.
ReapBegins == Reaper("idle", "pass")

\* ReapOrphans returns: Docker answered, or the context is done.
ReapReturns == Reaper("pass", "idle")

\* case <-ctx.Done()
ReapLoopEnds == ReaperCancelled /\ Reaper("idle", "ended")
-----------------------------------------------------------------------------
(* A request.                                                              *)

Answer(r, status, label) ==
    /\ at' = [at EXCEPT ![r] = label]
    /\ code' = [code EXCEPT ![r] = status]

\* A request can come: on a new connection, or on one that was accepted
\* before Accept failed or before Shutdown was called.
Reachable ==
    listener \in {"open", "broken"} \/ (listener = "draining" /\ main = "shutdown")

\* A mistake: the pool's middleware before requireAuth.
ReceivePoolFirst(r) ==
    /\ Reachable
    /\ at[r] = "new"
    /\ \E good \in {auth, FALSE} : bearer' = [bearer EXCEPT ![r] = good]
    /\ at' = [at EXCEPT ![r] = "pool"]
    /\ Pool!Arrive(r)
    /\ UNCHANGED <<mainVars, gone, code, runVars>>

\* The server reads the head of a request; requireAuth lets in or refuses.
Receive(r) ==
    /\ Reachable
    /\ at[r] = "new"
    /\ \E good \in {auth, FALSE} : bearer' = [bearer EXCEPT ![r] = good]
    /\ IF auth /\ ~bearer'[r]
         THEN Answer(r, 401, "done") /\ UNCHANGED poolVars
         ELSE /\ at' = [at EXCEPT ![r] = "pool"]
              /\ Pool!Arrive(r)
              /\ UNCHANGED code
    /\ UNCHANGED <<mainVars, gone, runVars>>

\* The pool's middleware finds a slot, or none.
Admit(r) ==
    /\ at[r] = "pool"
    /\ \/ Pool!Start(r) /\ at' = [at EXCEPT ![r] = "body"]
       \/ (Pool!Contend(r) \/ Pool!Wait(r)) /\ UNCHANGED at
    /\ UNCHANGED <<mainVars, bearer, gone, code, runVars>>

\* 429, or 408 to a client that left while it waited.
TurnAway(r) ==
    /\ at[r] = "pool"
    /\ phase[r] = "contending" \/ (phase[r] = "waiting" /\ gone[r])
    /\ Pool!Leave(r)
    /\ Answer(r, IF phase[r] = "contending" THEN 429 ELSE 408, "done")
    /\ UNCHANGED <<mainVars, bearer, gone, runVars>>

\* readBody: 413 and 400, and 400 too for a client that left.
ReadBody(r) ==
    /\ at[r] = "body"
    /\ \/ ~gone[r] /\ at' = [at EXCEPT ![r] = "check"] /\ UNCHANGED code
       \/ ~gone[r] /\ Answer(r, 413, "reply")
       \/ Answer(r, 400, "reply")
    /\ UNCHANGED <<mainVars, bearer, gone, poolVars, runVars>>

mapRunError(err) == IF err = "unsupported" THEN 400 ELSE 500

\* A mistake: the limits are checked when the program has already run.
CheckLate(r) ==
    /\ at[r] = "check"
    /\ Run!Call(r)
    /\ \/ at' = [at EXCEPT ![r] = "run"] /\ UNCHANGED code
       \/ Answer(r, 400, "reply")
    /\ UNCHANGED <<mainVars, bearer, gone, poolVars>>

\* validateExecuteRequestBasic, LangSpec and validateLimits; then Run.
\* LangSpec knows what Run knows, so Run does not refuse the language again.
Check(r) ==
    /\ at[r] = "check"
    /\ \/ Run!Call(r) /\ at' = [at EXCEPT ![r] = "run"] /\ UNCHANGED code
       \/ /\ \E status \in {400, mapRunError("unsupported")} : Answer(r, status, "reply")
          /\ UNCHANGED runVars
    /\ UNCHANGED <<mainVars, bearer, gone, poolVars>>

\* Inside Run, and what is left of it later.
RunWorks(r) ==
    /\ Run!MakeFiles(r) \/ Run!Launch(r) \/ Run!Collect(r)
    /\ UNCHANGED <<mainVars, reqVars, poolVars>>

\* Run returns.  The answer fits in the buffers, or the program wrote more.
RunReturns(r) ==
    /\ at[r] = "run"
    /\ \/ /\ Run!Answer(r, "status")
          /\ \E label \in {"reply", "write"} : Answer(r, 200, label)
       \/ Run!Answer(r, "error") /\ Answer(r, mapRunError("error"), "reply")
    /\ UNCHANGED <<mainVars, bearer, gone, poolVars>>

\* writeJSON goes on when the client reads, or fails when the connection is
\* gone; the handler does not look at the error.
Write(r) ==
    /\ at[r] = "write"
    /\ at' = [at EXCEPT ![r] = "reply"]
    /\ UNCHANGED <<mainVars, bearer, gone, code, poolVars, runVars>>

\* A mistake: a refused request keeps its slot.
ReplyKeepsSlot(r) ==
    /\ at[r] = "reply"
    /\ IF code[r] = 400
         THEN at' = [at EXCEPT ![r] = "done"] /\ UNCHANGED poolVars
         ELSE Pool!Leave(r) /\ at' = [at EXCEPT ![r] = "done"]
    /\ UNCHANGED <<mainVars, bearer, gone, code, runVars>>

\* The handler returns and the middleware's deferred call frees the slot, or
\* hands it to a request that waits.
Reply(r) ==
    /\ at[r] = "reply"
    /\ \/ Pool!Leave(r) /\ at' = [at EXCEPT ![r] = "done"]
       \/ \E w \in Requests : /\ Pool!HandOver(r, w)
                              /\ at' = [at EXCEPT ![r] = "done", ![w] = "body"]
    /\ UNCHANGED <<mainVars, bearer, gone, code, runVars>>

\* The connection is closed, noted where the request next depends on it.  What
\* that does to a call of Run is inside the contract.
Disconnect(r) ==
    /\ at[r] \in {"pool", "body", "write"}
    /\ ~gone[r]
    /\ gone' = [gone EXCEPT ![r] = TRUE]
    /\ UNCHANGED <<mainVars, at, bearer, code, poolVars, runVars>>

RequestStep(r) ==
    \/ Receive(r) \/ Admit(r) \/ TurnAway(r) \/ ReadBody(r) \/ Check(r)
    \/ RunWorks(r) \/ RunReturns(r) \/ Write(r) \/ Reply(r) \/ Disconnect(r)

Next ==
    /\ main # "exited"
    /\ \/ MainStep \/ Sweep \/ Bind \/ ListenFails \/ Signal \/ Tick
       \/ ReapBegins \/ ReapReturns \/ ReapLoopEnds
       \/ \E r \in Requests : RequestStep(r)

Spec == Init /\ [][Next]_vars

\* The goroutine of request r, where it need not wait for the client.
HandlerStep(r) ==
    \/ Admit(r) \/ (phase[r] = "contending" /\ TurnAway(r))
    \/ Check(r) \/ RunReturns(r) \/ Reply(r)
    \/ gone[r] /\ (ReadBody(r) \/ Write(r))

(* run, its timer and the handlers are scheduled; Run returns, as both     *)
(* backends do; a cancelled context ends a call to Docker, and the ticker  *)
(* of reapLoop does not win every select.  Clients, the network and the    *)
(* reaper's calls to Docker need do nothing: bodies need not come, answers *)
(* need not be read.  A read or a write on a connection that is gone       *)
(* returns; but net/http need not notice that a client in the queue has    *)
(* left, for it watches a connection only after the body was read.         *)
Fairness ==
    /\ WF_vars(MainStep)
    /\ WF_vars(Tick)
    /\ WF_vars(ReaperCancelled /\ ReapReturns)
    /\ SF_vars(ReapLoopEnds)
    /\ \A r \in Requests : WF_vars(HandlerStep(r))

FairSpec == Spec /\ Fairness
-----------------------------------------------------------------------------
(* Properties.                                                             *)

\* The type of the state.
TypeOK ==
    /\ auth \in BOOLEAN /\ reaps \in BOOLEAN /\ signal \in BOOLEAN /\ closed \in BOOLEAN
    /\ main \in {"ready", "sweep", "listen", "select", "shutdown", "cancel", "join",
                 "close", "exited"}
    /\ exit \in {"none", "ok", "error"}
    /\ listener \in {"none", "opening", "open", "failed", "broken", "draining", "closed"}
    /\ clock \in 0..Grace
    /\ reaper \in {"none", "idle", "pass", "ended"}
    /\ at \in [Requests -> {"new", "done", "lost"} \cup InFlight]
    /\ bearer \in [Requests -> BOOLEAN]
    /\ gone \in [Requests -> BOOLEAN]
    /\ code \in [Requests -> {0, 200, 400, 401, 408, 413, 429, 500}]

\* A slot of the pool is held exactly while a handler runs: every early return
\* of handleExecute gives it back, and nobody runs without one.
SlotMeansHandler ==
    main # "exited" =>
        \A r \in Requests : phase[r] = "running" <=> at[r] \in Handling

\* What the codes say (README.md, "5xx is used only for internal sandbox
\* faults"): 200 is a status that Run returned, 500 an error of Run, and a
\* request refused with 4xx has not touched the sandbox.
CodesTruthful ==
    \A r \in Requests :
        /\ code[r] = 200 => answer[r] = "status"
        /\ code[r] = 500 => answer[r] = "error"
        /\ code[r] \in 400..499 =>
              call[r] = "idle" /\ files[r] = "none" /\ program[r] = "none"

\* With AUTH_TOKEN set, a request without the token costs nothing: it is never
\* in the pool, where it could keep others out, and never reaches the sandbox.
OnlyAuthorised ==
    auth => \A r \in Requests :
                at[r] # "new" /\ ~bearer[r] => phase[r] = "out" /\ call[r] = "idle"

\* run returns nil only if every request that was accepted is answered and
\* RemoveAll was called on every workspace; it cuts requests off only after the
\* whole grace period, or when the listener failed.  The sandbox is closed when nobody reaps any
\* more: main.go:62 is deferred after main.go:56 and so runs before it.
ShutdownIsGraceful ==
    /\ main = "exited" =>
         /\ exit = "ok" => \A r \in Requests : at[r] # "lost" /\ files[r] # "made"
         /\ exit = "error" => clock = Grace \/ listener \in {"failed", "broken"}
    /\ closed => reaper \in {"none", "ended"}

\* A signal stops a serving daemon, though bodies stall, answers are not read,
\* programs run and Docker does not answer the reaper.
Stops == main = "select" /\ signal ~> main = "exited"

\* Only connected clients keep slots: a request that was read is answered,
\* unless its client stays and does not read the answer; and one in the pool
\* gets out of it, unless some client stays and does not send its body or does
\* not read its answer.
OnlyClientsBlock ==
    /\ \A r \in Requests :
          at[r] \in {"check", "run", "write", "reply"} ~>
              at[r] \in {"done", "lost"} \/ (at[r] = "write" /\ ~gone[r])
    /\ \A r \in Requests :
          at[r] = "pool" ~>
              \/ at[r] # "pool"
              \/ \E w \in Requests : at[w] \in {"body", "write"} /\ ~gone[w]
=============================================================================
