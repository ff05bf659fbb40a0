---------------------------- MODULE BoundedPool -----------------------------
(***************************************************************************)
(* What the worker pool promises to the handlers behind it and to the      *)
(* clients in front of it, with no channel and no counter: at most Size    *)
(* requests run, at most Queue of them wait, a request is turned away only *)
(* if it found every slot taken, and one that waits can leave.             *)
(***************************************************************************)
EXTENDS Integers, FiniteSets

CONSTANTS Req, Size, Queue

VARIABLE phase

Phases == {"out", "arriving", "contending", "waiting", "running"}

In(p) == {r \in Req : phase[r] = p}

Init == phase = [r \in Req |-> "out"]

Arrive(r) == phase[r] = "out" /\ phase' = [phase EXCEPT ![r] = "arriving"]

\* All slots are taken at this moment: the request may have to wait or leave.
Contend(r) ==
    /\ phase[r] = "arriving"
    /\ Cardinality(In("running")) = Size
    /\ phase' = [phase EXCEPT ![r] = "contending"]

Wait(r) ==
    /\ phase[r] = "contending"
    /\ Cardinality(In("waiting")) < Queue
    /\ phase' = [phase EXCEPT ![r] = "waiting"]

Start(r) ==
    /\ phase[r] \in {"arriving", "waiting"}
    /\ Cardinality(In("running")) < Size
    /\ phase' = [phase EXCEPT ![r] = "running"]

\* Turned away, tired of waiting, or served.
Leave(r) ==
    /\ phase[r] \in {"contending", "waiting", "running"}
    /\ phase' = [phase EXCEPT ![r] = "out"]

\* The slot of a finished request goes to one that waits.
HandOver(r, w) ==
    /\ phase[r] = "running"
    /\ phase[w] = "waiting"
    /\ phase' = [phase EXCEPT ![r] = "out", ![w] = "running"]

Next ==
    \E r \in Req :
        \/ Arrive(r) \/ Contend(r) \/ Wait(r) \/ Start(r) \/ Leave(r)
        \/ \E w \in Req : HandOver(r, w)

Spec == Init /\ [][Next]_phase
=============================================================================
