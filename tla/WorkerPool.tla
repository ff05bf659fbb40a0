----------------------------- MODULE WorkerPool -----------------------------
(***************************************************************************)
(* The admission control in front of POST /execute                         *)
(* (internal/api/workerpool.go).  Every request is a goroutine of          *)
(* net/http that runs Middleware: it takes a slot of the buffered channel  *)
(* `sem` without waiting, or joins a bounded set of waiters counted by the *)
(* atomic `waiting`, or is shed with 429.  A waiter stops at its request's *)
(* context (408).  A slot is given back when the handler returns.          *)
(*                                                                         *)
(* A request steps through                                                 *)
(*   try -> add -> select -> blocked -> granted -> run -> idle             *)
(* one atomic operation of the Go code per step: between any two of them   *)
(* every other request may move.  The identity r is reused after a reply,  *)
(* so a behaviour is an unbounded stream of requests, at most              *)
(* Cardinality(Req) of them at a time.                                     *)
(***************************************************************************)
EXTENDS Integers, Sequences, SequencesExt, FiniteSets

CONSTANTS
    Req,            \* requests in flight at the same time
    PoolSize,       \* WORKER_POOL_SIZE, capacity of sem
    MaxQueueSize,   \* MAX_QUEUE_SIZE as it was configured
    Int32Half       \* 2^31 in the code: int32 holds -Int32Half..Int32Half-1

\* config.Load: parseIntEnvOrDefault accepts sizes >= 1 and queues >= 0.
ASSUME PoolAssumption  == PoolSize \in Nat \ {0}
ASSUME QueueAssumption == MaxQueueSize \in Nat
ASSUME WidthAssumption == Int32Half \in Nat \ {0}
ASSUME ReqAssumption   == IsFiniteSet(Req)

VARIABLES
    pc,         \* pc[r]: where request r is in Middleware
    sem,        \* number of elements in the channel buffer
    sendq,      \* FIFO of the goroutines parked on `sem <- struct{}{}`
    waiting,    \* the atomic counter
    ctxDone     \* ctxDone[r]: r.Context() is done

vars == <<pc, sem, sendq, waiting, ctxDone>>

PC == {"idle", "try", "add", "shed", "select", "blocked", "granted",
       "cancelled", "run"}

At(S) == {r \in Req : pc[r] \in S}

\* Requests that hold an element of sem, or were handed one.
Holders == At({"granted", "run"})

\* Requests between Add(1) and the matching Add(-1).
Counted == At({"shed", "select", "blocked", "granted", "cancelled"})

\* Requests the pool agreed to let wait and that have not left yet.
Queued == At({"select", "blocked", "granted", "cancelled"})

\* The conversion int32(maxWaiting) in NewWorkerPool.
ToInt32(n) ==
    IF n < Int32Half THEN n
                     ELSE ((n + Int32Half) % (2 * Int32Half)) - Int32Half

MaxWaiting == ToInt32(MaxQueueSize)

Init ==
    /\ pc = [r \in Req |-> "idle"]
    /\ sem = 0
    /\ sendq = <<>>
    /\ waiting = 0
    /\ ctxDone = [r \in Req |-> FALSE]

Goto(r, l) == pc' = [pc EXCEPT ![r] = l]
-----------------------------------------------------------------------------
(* Mistakes this code could have, each a variant of the action it is named *)
(* after.  The properties below are checked to reject them.                *)

\* The fast path admits one request too many.
TryFastOffByOne(r) ==
    /\ pc[r] = "try"
    /\ IF sem <= PoolSize
         THEN sem' = sem + 1 /\ Goto(r, "run")
         ELSE sem' = sem     /\ Goto(r, "add")
    /\ UNCHANGED <<sendq, waiting, ctxDone>>

\* The old value of the counter is compared, not the new one.
AddWaitingLate(r) ==
    /\ pc[r] = "add"
    /\ waiting' = waiting + 1
    /\ Goto(r, IF waiting > MaxWaiting THEN "shed" ELSE "select")
    /\ UNCHANGED <<sem, sendq, ctxDone>>

\* The queue is full one place early.
AddWaitingEarly(r) ==
    /\ pc[r] = "add"
    /\ waiting' = waiting + 1
    /\ Goto(r, IF waiting + 1 >= MaxWaiting THEN "shed" ELSE "select")
    /\ UNCHANGED <<sem, sendq, ctxDone>>

\* A slot is freed and no parked request is woken.
ReleaseWakesNobody(r) ==
    /\ pc[r] = "run"
    /\ sem' = sem - 1
    /\ Goto(r, "idle")
    /\ UNCHANGED <<sendq, waiting, ctxDone>>

\* The slot goes to the request that parked last.
ReleaseLIFO(r) ==
    /\ pc[r] = "run"
    /\ IF sendq = <<>>
         THEN /\ sem' = sem - 1
              /\ sendq' = sendq
              /\ Goto(r, "idle")
         ELSE /\ sem' = sem
              /\ sendq' = Front(sendq)
              /\ pc' = [pc EXCEPT ![r] = "idle", ![Last(sendq)] = "granted"]
    /\ UNCHANGED <<waiting, ctxDone>>
-----------------------------------------------------------------------------
(* The environment.                                                        *)

\* A request reaches the middleware.
Arrive(r) ==
    /\ pc[r] = "idle"
    /\ Goto(r, "try")
    /\ ctxDone' = [ctxDone EXCEPT ![r] = FALSE]
    /\ UNCHANGED <<sem, sendq, waiting>>

\* The client goes away: net/http cancels the request's context.
Cancel(r) ==
    /\ pc[r] # "idle"
    /\ ~ctxDone[r]
    /\ ctxDone' = [ctxDone EXCEPT ![r] = TRUE]
    /\ UNCHANGED <<pc, sem, sendq, waiting>>
-----------------------------------------------------------------------------
(* The middleware.                                                         *)

\* select { case p.sem <- struct{}{}: default: ... }
TryFast(r) ==
    /\ pc[r] = "try"
    /\ IF sem < PoolSize
         THEN sem' = sem + 1 /\ Goto(r, "run")
         ELSE sem' = sem     /\ Goto(r, "add")
    /\ UNCHANGED <<sendq, waiting, ctxDone>>

\* if p.waiting.Add(1) > p.maxWaiting
AddWaiting(r) ==
    /\ pc[r] = "add"
    /\ waiting' = waiting + 1
    /\ Goto(r, IF waiting + 1 > MaxWaiting THEN "shed" ELSE "select")
    /\ UNCHANGED <<sem, sendq, ctxDone>>

\* p.waiting.Add(-1); 429
Shed(r) ==
    /\ pc[r] = "shed"
    /\ waiting' = waiting - 1
    /\ Goto(r, "idle")
    /\ UNCHANGED <<sem, sendq, ctxDone>>

\* The blocking select: a ready send, ...
SelectSend(r) ==
    /\ pc[r] = "select"
    /\ sem < PoolSize
    /\ sem' = sem + 1
    /\ Goto(r, "granted")
    /\ UNCHANGED <<sendq, waiting, ctxDone>>

\* ... a context that is already done (Go picks either when both are ready), ...
SelectDone(r) ==
    /\ pc[r] = "select"
    /\ ctxDone[r]
    /\ Goto(r, "cancelled")
    /\ UNCHANGED <<sem, sendq, waiting, ctxDone>>

\* ... or neither: the goroutine parks at the tail of the channel's senders.
SelectPark(r) ==
    /\ pc[r] = "select"
    /\ sem = PoolSize
    /\ ~ctxDone[r]
    /\ sendq' = Append(sendq, r)
    /\ Goto(r, "blocked")
    /\ UNCHANGED <<sem, waiting, ctxDone>>

\* A parked goroutine is woken by its context: it leaves the senders.
CtxWake(r) ==
    /\ pc[r] = "blocked"
    /\ ctxDone[r]
    /\ \E i \in DOMAIN sendq : sendq[i] = r /\ sendq' = RemoveAt(sendq, i)
    /\ Goto(r, "cancelled")
    /\ UNCHANGED <<sem, waiting, ctxDone>>

\* p.waiting.Add(-1) after the send went through; the handler is called.
LeaveQueue(r) ==
    /\ pc[r] = "granted"
    /\ waiting' = waiting - 1
    /\ Goto(r, "run")
    /\ UNCHANGED <<sem, sendq, ctxDone>>

\* p.waiting.Add(-1); 408
GiveUp(r) ==
    /\ pc[r] = "cancelled"
    /\ waiting' = waiting - 1
    /\ Goto(r, "idle")
    /\ UNCHANGED <<sem, sendq, ctxDone>>

\* next.ServeHTTP returned (or panicked): the deferred <-p.sem.  A receive
\* from a full channel with parked senders hands the slot to the first one.
Release(r) ==
    /\ pc[r] = "run"
    /\ IF sendq = <<>>
         THEN /\ sem' = sem - 1
              /\ sendq' = sendq
              /\ Goto(r, "idle")
         ELSE /\ sem' = sem
              /\ sendq' = Tail(sendq)
              /\ pc' = [pc EXCEPT ![r] = "idle", ![Head(sendq)] = "granted"]
    /\ UNCHANGED <<waiting, ctxDone>>

Step(r) ==
    \/ TryFast(r)
    \/ AddWaiting(r)
    \/ Shed(r)
    \/ SelectSend(r)
    \/ SelectDone(r)
    \/ SelectPark(r)
    \/ CtxWake(r)
    \/ LeaveQueue(r)
    \/ GiveUp(r)
    \/ Release(r)

Next == \E r \in Req : Arrive(r) \/ Cancel(r) \/ Step(r)

(* Go's scheduler runs every runnable goroutine, and the handler returns   *)
(* (its Run is bounded, see DockerSandbox).  Nothing makes clients send    *)
(* or cancel requests.                                                     *)
Fairness == \A r \in Req : WF_vars(Step(r))

Spec == Init /\ [][Next]_vars

FairSpec == Spec /\ Fairness
-----------------------------------------------------------------------------
(* Properties.                                                             *)

\* The state each variable ranges over.
TypeOK ==
    /\ pc \in [Req -> PC]
    /\ sem \in 0..PoolSize
    /\ sendq \in Seq(Req)
    /\ waiting \in Nat
    /\ ctxDone \in [Req -> BOOLEAN]

\* The channel never loses or leaks a slot: its buffer holds one element for
\* each request that is running or was handed a slot, on every path through
\* Middleware, the hand-off to a parked sender and the 408 path included.
SlotAccounting == sem = Cardinality(Holders)

\* Every Add(1) is matched: `waiting` is the number of requests between
\* Add(1) and Add(-1), those that are about to be shed among them.
WaitingAccounting == waiting = Cardinality(Counted)

\* The senders parked on sem are the requests that block in the select, each
\* of them once: nobody waits without being woken, nobody is woken twice.
SendersAreBlocked ==
    /\ ToSet(sendq) = At({"blocked"})
    /\ IsInjective(sendq)

\* No lost wakeup and no barging: while a sender is parked the channel is
\* full, so a later request cannot take a slot past it on the fast path.
NoSlotWhileParked == sendq # <<>> => sem = PoolSize

\* At most WORKER_POOL_SIZE handlers run at a time.
Concurrency == Cardinality(At({"run"})) <= PoolSize

\* At most MAX_QUEUE_SIZE requests wait at a time, whatever races there are
\* on the counter.
QueueBound == Cardinality(Queued) <= MaxQueueSize

\* Both bounds of the pool (README: at most WORKER_POOL_SIZE programs run and
\* MAX_QUEUE_SIZE requests wait), under every race of the fast path, the
\* hand-off of a slot and the counter.
Bounded == Concurrency /\ QueueBound

\* A request is shed only when MAX_QUEUE_SIZE other requests are between
\* their Add(1) and Add(-1).  The guard reads one counter; this says what the
\* counter then stands for, and needs int32(maxWaiting) not to wrap.
ShedJustified ==
    [][\A r \in Req : pc[r] = "add" /\ pc'[r] = "shed"
                        => Cardinality(Counted) >= MaxQueueSize]_vars

\* A parked request is served in the order of arrival: when the slot of a
\* request that finishes goes to a parked one, nobody was parked before it.
FIFO ==
    [][\A i, j \in DOMAIN sendq :
          i < j /\ pc'[sendq[j]] = "granted" => pc'[sendq[i]] = "granted"]_vars

\* Every request gets an answer: it runs to the end, or is answered 429 or
\* 408.  A stream of newer requests cannot starve one that is parked.
Answered == \A r \in Req : (pc[r] # "idle") ~> (pc[r] = "idle")
-----------------------------------------------------------------------------
(* The pool implements BoundedPool.                                        *)

PhaseOf(l) ==
    CASE l = "idle"                                 -> "out"
      [] l = "try"                                  -> "arriving"
      [] l \in {"add", "shed"}                     -> "contending"
      [] l \in {"select", "blocked", "cancelled"}  -> "waiting"
      [] l \in {"granted", "run"}                  -> "running"

Phase == [r \in Req |-> PhaseOf(pc[r])]

Abstract == INSTANCE BoundedPool
    WITH Size <- PoolSize, Queue <- MaxQueueSize, phase <- Phase

\* The channel, the counter and the context implement the abstract pool: a
\* request that finds a free slot starts, one that is turned away had found
\* all of them taken, and the bounds on both sets hold at every step.
Implements == Abstract!Spec
=============================================================================
