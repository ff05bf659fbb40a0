-------------------------- MODULE WorkerPoolProofs --------------------------
(***************************************************************************)
(* Proofs about WorkerPool, for every pool size, every queue size and      *)
(* every finite number of concurrent requests.                             *)
(***************************************************************************)
EXTENDS WorkerPool, FiniteSetTheorems, SequenceTheorems, TLAPS

\* How many requests are at a location of S when the locations are f.
Count(f, S) == Cardinality({q \in Req : f[q] \in S})

\* The sets the accounting is about.
HolderPC  == {"granted", "run"}
CountedPC == {"shed", "select", "blocked", "granted", "cancelled"}
QueuedPC  == {"select", "blocked", "granted", "cancelled"}

\* A count is a natural number and never exceeds that of a larger set.
LEMMA CountType ==
    ASSUME NEW f, NEW S
    PROVE  Count(f, S) \in Nat
  <1>1. IsFiniteSet({q \in Req : f[q] \in S})
    BY ReqAssumption, FS_Subset
  <1> QED
    BY <1>1, FS_CardinalityType DEF Count

\* A finite set has at least the elements of a subset.
LEMMA CountMonotonic ==
    ASSUME NEW f, NEW S, NEW T, S \subseteq T
    PROVE  Count(f, S) <= Count(f, T)
  <1>1. IsFiniteSet({q \in Req : f[q] \in T})
    BY ReqAssumption, FS_Subset
  <1>2. {q \in Req : f[q] \in S} \in SUBSET {q \in Req : f[q] \in T}
    OBVIOUS
  <1> QED
    BY <1>1, <1>2, FS_Subset DEF Count

\* g is f after request r moved to location l.
Moved(f, r, l, g) == g = [f EXCEPT ![r] = l]

\* g is f after request r finished and h got its slot.
HandedOff(f, r, h, g) == g = [f EXCEPT ![r] = "idle", ![h] = "granted"]

\* A count c of locations in S after one request moved from one to another.
CountAfter(c, from, to, S) ==
    IF (to \in S) = (from \in S) THEN c
    ELSE IF to \in S THEN c + 1
    ELSE c - 1

\* Moving one request to location l changes a count by what r leaves and
\* what it enters.
LEMMA CountMove ==
    ASSUME NEW f \in [Req -> PC], NEW r \in Req, NEW l \in PC,
           NEW g, Moved(f, r, l, g), NEW S
    PROVE  Count(g, S) = CountAfter(Count(f, S), f[r], l, S)
  <1> DEFINE F == {q \in Req : f[q] \in S}
             G == {q \in Req : g[q] \in S}
  <1>1. IsFiniteSet(F)
    BY ReqAssumption, FS_Subset
  <1>2. CASE (l \in S) = (f[r] \in S)
    <2>1. G = F
      BY <1>2 DEF Moved
    <2> QED
      BY <1>2, <2>1 DEF Count, CountAfter
  <1>3. CASE l \in S /\ f[r] \notin S
    <2>1. G = F \cup {r} /\ r \notin F
      BY <1>3 DEF Moved
    <2>2. Cardinality(F \cup {r}) = Cardinality(F) + 1
      <3> HIDE DEF F, G
      <3> QED
        BY <1>1, <2>1, FS_AddElement
    <2> QED
      BY <1>3, <2>1, <2>2 DEF Count, CountAfter
  <1>4. CASE l \notin S /\ f[r] \in S
    <2>1. G = F \ {r} /\ r \in F
      BY <1>4 DEF Moved
    <2>2. Cardinality(F \ {r}) = Cardinality(F) - 1
      <3> HIDE DEF F, G
      <3> QED
        BY <1>1, <2>1, FS_RemoveElement
    <2> QED
      BY <1>4, <2>1, <2>2 DEF Count, CountAfter
  <1> QED
    BY <1>2, <1>3, <1>4

\* The effect of a plain move on the two counts the code keeps.
LEMMA CountsMove ==
    ASSUME NEW f \in [Req -> PC], NEW r \in Req, NEW l \in PC,
           NEW g, Moved(f, r, l, g)
    PROVE  /\ g \in [Req -> PC]
           /\ Count(g, HolderPC) = CountAfter(Count(f, HolderPC), f[r], l, HolderPC)
           /\ Count(g, CountedPC) = CountAfter(Count(f, CountedPC), f[r], l, CountedPC)
           /\ Count(g, QueuedPC) = CountAfter(Count(f, QueuedPC), f[r], l, QueuedPC)
  <1>1. g \in [Req -> PC]
    BY DEF Moved
  <1>2. Count(g, HolderPC) = CountAfter(Count(f, HolderPC), f[r], l, HolderPC)
    BY CountMove, Zenon
  <1>3. Count(g, CountedPC) = CountAfter(Count(f, CountedPC), f[r], l, CountedPC)
    BY CountMove, Zenon
  <1>4. Count(g, QueuedPC) = CountAfter(Count(f, QueuedPC), f[r], l, QueuedPC)
    BY CountMove, Zenon
  <1> QED
    BY <1>1, <1>2, <1>3, <1>4

\* A request that runs passes its slot to one that is parked: all counts
\* stay, because the second one is counted as waiting until it moves on.
LEMMA CountsHandOff ==
    ASSUME NEW f \in [Req -> PC], NEW r \in Req, NEW h \in Req,
           f[r] = "run", f[h] = "blocked",
           NEW g, HandedOff(f, r, h, g)
    PROVE  /\ g \in [Req -> PC]
           /\ Count(g, HolderPC) = Count(f, HolderPC)
           /\ Count(g, CountedPC) = Count(f, CountedPC)
           /\ Count(g, QueuedPC) = Count(f, QueuedPC)
  <1> DEFINE m == [f EXCEPT ![r] = "idle"]
  <1>1. "idle" \in PC /\ "granted" \in PC
    BY DEF PC
  <1>2. Moved(f, r, "idle", m) /\ Moved(m, h, "granted", g)
    BY DEF Moved, HandedOff
  <1>3. m \in [Req -> PC] /\ m[h] = "blocked"
    BY <1>1
  <1> HIDE DEF m
  <1>4. /\ Count(m, HolderPC) = CountAfter(Count(f, HolderPC), f[r], "idle", HolderPC)
        /\ Count(m, CountedPC) = CountAfter(Count(f, CountedPC), f[r], "idle", CountedPC)
        /\ Count(m, QueuedPC) = CountAfter(Count(f, QueuedPC), f[r], "idle", QueuedPC)
    BY <1>1, <1>2, CountsMove, Zenon
  <1>5. /\ g \in [Req -> PC]
        /\ Count(g, HolderPC) = CountAfter(Count(m, HolderPC), m[h], "granted", HolderPC)
        /\ Count(g, CountedPC) = CountAfter(Count(m, CountedPC), m[h], "granted", CountedPC)
        /\ Count(g, QueuedPC) = CountAfter(Count(m, QueuedPC), m[h], "granted", QueuedPC)
    BY <1>1, <1>2, <1>3, CountsMove, Zenon
  <1> QED
    BY <1>3, <1>4, <1>5, CountType DEF CountAfter, HolderPC, CountedPC, QueuedPC

\* The conversion to int32 never makes the queue larger, and keeps a size
\* that fits.
LEMMA Int32Conversion ==
    /\ MaxWaiting \in Int
    /\ MaxWaiting <= MaxQueueSize
    /\ MaxQueueSize < Int32Half => MaxWaiting = MaxQueueSize
  <1>1. CASE MaxQueueSize < Int32Half
    BY <1>1, QueueAssumption, WidthAssumption DEF MaxWaiting, ToInt32
  <1>2. CASE ~(MaxQueueSize < Int32Half)
    <2> DEFINE a == MaxQueueSize + Int32Half
               b == 2 * Int32Half
    <2>1. a \in Nat /\ b \in Nat /\ b > 0
      BY QueueAssumption, WidthAssumption
    <2>2. a % b \in 0..(b - 1)
      BY <2>1
    <2>3. MaxWaiting = (a % b) - Int32Half
      BY <1>2 DEF MaxWaiting, ToInt32
    <2> QED
      BY <1>2, <2>2, <2>3, QueueAssumption, WidthAssumption
  <1> QED
    BY <1>1, <1>2

-----------------------------------------------------------------------------
(* The inductive invariant.  The bounds alone are not inductive: that sem   *)
(* never passes the capacity rests on what its elements stand for, and the  *)
(* hand-off in Release keeps the count only because the first parked sender *)
(* is a blocked request that holds nothing yet.                             *)

IndInv ==
    /\ TypeOK
    /\ SlotAccounting
    /\ WaitingAccounting
    /\ SendersAreBlocked
    /\ NoSlotWhileParked

\* SendersAreBlocked element by element, for locations f and senders s.
Senders(f, s) ==
    /\ \A i \in 1..Len(s) : f[s[i]] = "blocked"
    /\ \A q \in Req : f[q] = "blocked" => \E i \in 1..Len(s) : s[i] = q
    /\ \A i, j \in 1..Len(s) : s[i] = s[j] => i = j

\* SendersAreBlocked, one position of the queue at a time.
LEMMA SendersPointwise ==
    ASSUME NEW f \in [Req -> PC], NEW s \in Seq(Req)
    PROVE  Senders(f, s) <=> /\ ToSet(s) = {q \in Req : f[q] \in {"blocked"}}
                             /\ IsInjective(s)
  <1>1. DOMAIN s = 1..Len(s) /\ \A i \in 1..Len(s) : s[i] \in Req
    OBVIOUS
  <1> QED
    BY <1>1 DEF Senders, ToSet, IsInjective

\* The four facts above in terms of Count and Senders.
LEMMA Restated ==
    ASSUME pc \in [Req -> PC], sendq \in Seq(Req)
    PROVE  /\ SlotAccounting <=> sem = Count(pc, HolderPC)
           /\ WaitingAccounting <=> waiting = Count(pc, CountedPC)
           /\ SendersAreBlocked <=> Senders(pc, sendq)
  BY SendersPointwise
     DEF SlotAccounting, WaitingAccounting, SendersAreBlocked, Count, At,
         Holders, Counted, HolderPC, CountedPC

\* A request that neither parks nor leaves the parked ones.
LEMMA PlainMove ==
    ASSUME NEW f \in [Req -> PC], NEW s \in Seq(Req), NEW r \in Req,
           NEW l \in PC, Senders(f, s), f[r] # "blocked", l # "blocked"
    PROVE  Senders([f EXCEPT ![r] = l], s)
  <1>1. \A i \in 1..Len(s) : s[i] \in Req
    OBVIOUS
  <1> QED
    BY <1>1 DEF Senders

\* Parking at the tail.
LEMMA Park ==
    ASSUME NEW f \in [Req -> PC], NEW s \in Seq(Req), NEW r \in Req,
           Senders(f, s), f[r] # "blocked"
    PROVE  Senders([f EXCEPT ![r] = "blocked"], Append(s, r))
  <1> DEFINE g == [f EXCEPT ![r] = "blocked"]
             t == Append(s, r)
  <1>1. /\ \A i \in 1..Len(s) : s[i] \in Req /\ s[i] # r /\ t[i] = s[i]
        /\ Len(t) = Len(s) + 1
        /\ t[Len(s) + 1] = r
        /\ Len(s) \in Nat
    BY DEF Senders
  <1>2. \A i \in 1..Len(t) : g[t[i]] = "blocked"
    BY <1>1 DEF Senders
  <1>3. \A q \in Req : g[q] = "blocked" => \E i \in 1..Len(t) : t[i] = q
    <2> SUFFICES ASSUME NEW q \in Req, g[q] = "blocked"
                 PROVE  \E i \in 1..Len(t) : t[i] = q
      OBVIOUS
    <2>1. CASE q = r
      BY <1>1, <2>1
    <2>2. CASE q # r
      <3>1. PICK i \in 1..Len(s) : s[i] = q
        BY <2>2 DEF Senders
      <3>2. i \in 1..Len(t) /\ t[i] = q
        BY <1>1, <3>1
      <3> QED
        BY <3>2
    <2> QED
      BY <2>1, <2>2
  <1>4. \A i, j \in 1..Len(t) : t[i] = t[j] => i = j
    BY <1>1 DEF Senders
  <1> QED
    BY <1>2, <1>3, <1>4 DEF Senders

\* Leaving from any place in the line.
LEMMA Unpark ==
    ASSUME NEW f \in [Req -> PC], NEW s \in Seq(Req), NEW l \in PC,
           Senders(f, s), NEW k \in 1..Len(s), l # "blocked"
    PROVE  /\ RemoveAt(s, k) \in Seq(Req)
           /\ Senders([f EXCEPT ![s[k]] = l], RemoveAt(s, k))
  <1> DEFINE r == s[k]
             g == [f EXCEPT ![r] = l]
             t == RemoveAt(s, k)
  <1>1. /\ t \in Seq(Req)
        /\ Len(t) = Len(s) - 1
        /\ \A i \in 1..Len(t) : t[i] = IF i < k THEN s[i] ELSE s[i + 1]
        /\ Len(s) \in Nat
        /\ \A i \in 1..Len(s) : s[i] \in Req
    <2> DEFINE u == SubSeq(s, 1, k - 1)
               v == SubSeq(s, k + 1, Len(s))
    <2>1. Len(s) \in Nat /\ \A i \in 1..Len(s) : s[i] \in Req
      OBVIOUS
    <2>2. /\ u \in Seq(Req)
          /\ Len(u) = k - 1
          /\ \A i \in 1..(k - 1) : u[i] = s[i]
      BY <2>1
    <2>3. /\ v \in Seq(Req)
          /\ Len(v) = Len(s) - k
          /\ \A i \in 1..(Len(s) - k) : v[i] = s[k + i]
      BY <2>1
    <2>4. t = u \o v
      BY DEF RemoveAt
    <2> HIDE DEF u, v, t
    <2>5. /\ u \o v \in Seq(Req)
           /\ Len(u \o v) = Len(u) + Len(v)
           /\ \A i \in 1..(Len(u) + Len(v)) :
                 (u \o v)[i] = IF i <= Len(u) THEN u[i] ELSE v[i - Len(u)]
      BY <2>2, <2>3, ConcatProperties, Zenon
    <2>6. Len(u) + Len(v) = Len(s) - 1
      BY <2>1, <2>2, <2>3
    <2>7. /\ t \in Seq(Req)
          /\ Len(t) = Len(s) - 1
          /\ \A i \in 1..Len(t) : t[i] = IF i <= k - 1 THEN u[i] ELSE v[i - (k - 1)]
      BY <2>2, <2>4, <2>5, <2>6, Zenon
    <2>8. ASSUME NEW i \in 1..Len(t)
          PROVE  t[i] = IF i < k THEN s[i] ELSE s[i + 1]
      <3>1. CASE i < k
        BY <2>2, <2>7, <3>1
      <3>2. CASE ~(i < k)
        <4>1. i - (k - 1) \in 1..(Len(s) - k) /\ k + (i - (k - 1)) = i + 1
          BY <2>1, <2>7, <3>2
        <4>2. v[i - (k - 1)] = s[k + (i - (k - 1))]
          BY <2>3, <4>1
        <4> QED
          BY <2>7, <3>2, <4>1, <4>2
      <3> QED
        BY <3>1, <3>2
    <2> QED
      BY <2>1, <2>7, <2>8
  <1>2. \A i \in 1..Len(s) : i # k => s[i] # r
    BY DEF Senders
  <1>3. \A i \in 1..Len(t) : g[t[i]] = "blocked"
    BY <1>1, <1>2 DEF Senders
  <1>4. \A q \in Req : g[q] = "blocked" => \E i \in 1..Len(t) : t[i] = q
    <2> SUFFICES ASSUME NEW q \in Req, g[q] = "blocked"
                 PROVE  \E i \in 1..Len(t) : t[i] = q
      OBVIOUS
    <2>1. q # r /\ f[q] = "blocked"
      BY <1>1
    <2>2. PICK i \in 1..Len(s) : s[i] = q
      BY <2>1 DEF Senders
    <2>3. CASE i < k
      BY <1>1, <2>2, <2>3
    <2>4. CASE i > k
      <3>1. i - 1 \in 1..Len(t) /\ t[i - 1] = s[i]
        BY <1>1, <2>4
      <3> QED
        BY <2>2, <3>1
    <2> QED
      BY <2>1, <2>2, <2>3, <2>4
  <1>5. \A i, j \in 1..Len(t) : t[i] = t[j] => i = j
    BY <1>1 DEF Senders
  <1> QED
    BY <1>1, <1>3, <1>4, <1>5 DEF Senders

-----------------------------------------------------------------------------
(* The invariant holds initially and is kept by every step.                *)

\* The accounts are balanced before the first request.
LEMMA IndInvInit == Init => IndInv
  <1> SUFFICES ASSUME Init PROVE IndInv
    OBVIOUS
  <1>1. TypeOK
    BY PoolAssumption DEF Init, TypeOK, PC
  <1>2. {r \in Req : pc[r] \in HolderPC} = {} /\ {r \in Req : pc[r] \in CountedPC} = {}
    BY DEF Init, HolderPC, CountedPC
  <1>3. Count(pc, HolderPC) = 0 /\ Count(pc, CountedPC) = 0
    BY <1>2, FS_EmptySet DEF Count
  <1>4. Senders(pc, sendq)
    BY DEF Init, Senders
  <1>5. NoSlotWhileParked
    BY DEF Init, NoSlotWhileParked
  <1> QED
    BY <1>1, <1>3, <1>4, <1>5, Restated DEF IndInv, Init, TypeOK

\* What a step must establish, in the terms of the lemmas above.
LEMMA Establish ==
    ASSUME pc' \in [Req -> PC], sendq' \in Seq(Req),
           sem' <= PoolSize, ctxDone' \in [Req -> BOOLEAN],
           sem' = Count(pc', HolderPC),
           waiting' = Count(pc', CountedPC),
           Senders(pc', sendq'),
           sendq' # <<>> => sem' = PoolSize
    PROVE  IndInv'
  <1>1. sem' \in Nat /\ waiting' \in Nat
    BY CountType
  <1>2. TypeOK'
    BY <1>1, PoolAssumption DEF TypeOK
  <1>3. SlotAccounting' /\ WaitingAccounting'
    BY DEF SlotAccounting, WaitingAccounting, Count, At, Holders, Counted,
           HolderPC, CountedPC
  <1>4. SendersAreBlocked'
    <2>1. Senders(pc', sendq') <=> /\ ToSet(sendq') = {q \in Req : pc'[q] \in {"blocked"}}
                                   /\ IsInjective(sendq')
      BY SendersPointwise
    <2> QED
      BY <2>1 DEF SendersAreBlocked, At
  <1>5. NoSlotWhileParked'
    BY DEF NoSlotWhileParked
  <1> QED
    BY <1>2, <1>3, <1>4, <1>5 DEF IndInv

\* Every step of Middleware keeps the accounts.
LEMMA IndInvStep == IndInv /\ [Next]_vars => IndInv'
  <1> SUFFICES ASSUME IndInv, [Next]_vars PROVE IndInv'
    OBVIOUS
  <1> USE PoolAssumption
  <1>0. pc \in [Req -> PC]
    BY DEF IndInv, TypeOK
  <1>1. /\ pc \in [Req -> PC]
        /\ sem \in Nat
        /\ sem <= PoolSize
        /\ sendq \in Seq(Req)
        /\ ctxDone \in [Req -> BOOLEAN]
        /\ waiting \in Nat
    BY DEF IndInv, TypeOK
  <1>2. /\ sem = Count(pc, HolderPC)
        /\ waiting = Count(pc, CountedPC)
        /\ Senders(pc, sendq)
    BY <1>1, Restated DEF IndInv
  <1>3. sendq # <<>> => sem = PoolSize
    BY DEF IndInv, NoSlotWhileParked
  <1>4. CASE UNCHANGED vars
    BY <1>1, <1>2, <1>3, <1>4, Establish DEF vars
  <1>5. CASE Next
    <2>1. PICK r \in Req : Arrive(r) \/ Cancel(r) \/ Step(r)
      BY <1>5 DEF Next
    <2>2. ASSUME NEW l \in PC, Goto(r, l)
          PROVE  /\ pc' \in [Req -> PC]
                 /\ Count(pc', HolderPC)
                      = CountAfter(Count(pc, HolderPC), pc[r], l, HolderPC)
                 /\ Count(pc', CountedPC)
                      = CountAfter(Count(pc, CountedPC), pc[r], l, CountedPC)
                 /\ pc[r] # "blocked" /\ l # "blocked" => Senders(pc', sendq)
      <3>1. pc' = [pc EXCEPT ![r] = l] /\ Moved(pc, r, l, pc')
        BY <2>2 DEF Goto, Moved
      <3>2. pc[r] # "blocked" /\ l # "blocked" => Senders(pc', sendq)
        BY <1>1, <1>2, <3>1, PlainMove
      <3> QED
        BY <1>0, <3>1, <3>2, CountsMove
    <2>3. CASE Arrive(r)
      <3>1. Goto(r, "try") /\ "try" \in PC /\ pc[r] = "idle"
        BY <2>3 DEF Arrive, PC
      <3>2. ctxDone' \in [Req -> BOOLEAN] /\ UNCHANGED <<sem, sendq, waiting>>
        BY <1>1, <2>3 DEF Arrive
      <3> QED
        BY <1>1, <1>2, <1>3, <2>2, <3>1, <3>2, Establish DEF HolderPC, CountedPC, CountAfter
    <2>4. CASE Cancel(r)
      BY <1>1, <1>2, <1>3, <2>4, Establish DEF Cancel
    <2>5. CASE TryFast(r)
      <3>1. CASE sem < PoolSize
        <4>1. Goto(r, "run") /\ "run" \in PC /\ pc[r] = "try" /\ sem' = sem + 1
          BY <2>5, <3>1 DEF TryFast, PC
        <4>2. sendq = <<>>
          BY <1>1, <1>3, <3>1
        <4>3. UNCHANGED <<sendq, waiting, ctxDone>>
          BY <2>5 DEF TryFast
        <4> QED
          BY <1>1, <1>2, <2>2, <3>1, <4>1, <4>2, <4>3, Establish
             DEF HolderPC, CountedPC, CountAfter
      <3>2. CASE ~(sem < PoolSize)
        <4>1. Goto(r, "add") /\ "add" \in PC /\ pc[r] = "try" /\ sem' = sem
          BY <2>5, <3>2 DEF TryFast, PC
        <4>2. UNCHANGED <<sendq, waiting, ctxDone>>
          BY <2>5 DEF TryFast
        <4> QED
          BY <1>1, <1>2, <1>3, <2>2, <4>1, <4>2, Establish DEF HolderPC, CountedPC, CountAfter
      <3> QED
        BY <3>1, <3>2
    <2>6. CASE AddWaiting(r)
      <3>1. PICK l \in {"shed", "select"} : Goto(r, l) /\ l \in PC
        BY <2>6 DEF AddWaiting, PC
      <3>2. pc[r] = "add" /\ waiting' = waiting + 1 /\ UNCHANGED <<sem, sendq, ctxDone>>
        BY <2>6 DEF AddWaiting
      <3> QED
        BY <1>1, <1>2, <1>3, <2>2, <3>1, <3>2, Establish DEF HolderPC, CountedPC, CountAfter
    <2>7. CASE Shed(r)
      <3>1. Goto(r, "idle") /\ "idle" \in PC /\ pc[r] = "shed"
        BY <2>7 DEF Shed, PC
      <3>2. waiting' = waiting - 1 /\ UNCHANGED <<sem, sendq, ctxDone>>
        BY <2>7 DEF Shed
      <3> QED
        BY <1>1, <1>2, <1>3, <2>2, <3>1, <3>2, Establish DEF HolderPC, CountedPC, CountAfter
    <2>8. CASE SelectSend(r)
      <3>1. Goto(r, "granted") /\ "granted" \in PC /\ pc[r] = "select"
        BY <2>8 DEF SelectSend, PC
      <3>2. sem < PoolSize /\ sem' = sem + 1 /\ UNCHANGED <<sendq, waiting, ctxDone>>
        BY <2>8 DEF SelectSend
      <3>3. sendq = <<>>
        BY <1>1, <1>3, <3>2
      <3> QED
        BY <1>1, <1>2, <2>2, <3>1, <3>2, <3>3, Establish DEF HolderPC, CountedPC, CountAfter
    <2>9. CASE SelectDone(r)
      <3>1. Goto(r, "cancelled") /\ "cancelled" \in PC /\ pc[r] = "select"
        BY <2>9 DEF SelectDone, PC
      <3>2. UNCHANGED <<sem, sendq, waiting, ctxDone>>
        BY <2>9 DEF SelectDone
      <3> QED
        BY <1>1, <1>2, <1>3, <2>2, <3>1, <3>2, Establish DEF HolderPC, CountedPC, CountAfter
    <2>10. CASE SelectPark(r)
      <3>1. Goto(r, "blocked") /\ "blocked" \in PC /\ pc[r] = "select"
        BY <2>10 DEF SelectPark, PC
      <3>2. sem = PoolSize /\ sendq' = Append(sendq, r) /\ UNCHANGED <<sem, waiting, ctxDone>>
        BY <2>10 DEF SelectPark
      <3>3. Senders(pc', sendq')
        BY <1>1, <1>2, <3>1, <3>2, Park DEF Goto
      <3>4. sendq' \in Seq(Req)
        BY <1>1, <3>2
      <3> QED
        BY <1>1, <1>2, <2>2, <3>1, <3>2, <3>3, <3>4, Establish DEF HolderPC, CountedPC, CountAfter
    <2>11. CASE CtxWake(r)
      <3>1. Goto(r, "cancelled") /\ "cancelled" \in PC /\ pc[r] = "blocked"
        BY <2>11 DEF CtxWake, PC
      <3>2. UNCHANGED <<sem, waiting, ctxDone>>
        BY <2>11 DEF CtxWake
      <3>3. PICK k \in DOMAIN sendq : sendq[k] = r /\ sendq' = RemoveAt(sendq, k)
        BY <2>11 DEF CtxWake
      <3>4. k \in 1..Len(sendq) /\ sendq # <<>>
        BY <1>1, <3>3
      <3>5. Senders(pc', sendq') /\ sendq' \in Seq(Req)
        BY <1>1, <1>2, <3>1, <3>3, <3>4, Unpark DEF Goto
      <3> QED
        BY <1>1, <1>2, <1>3, <2>2, <3>1, <3>2, <3>4, <3>5, Establish
           DEF HolderPC, CountedPC, CountAfter
    <2>12. CASE LeaveQueue(r)
      <3>1. Goto(r, "run") /\ "run" \in PC /\ pc[r] = "granted"
        BY <2>12 DEF LeaveQueue, PC
      <3>2. waiting' = waiting - 1 /\ UNCHANGED <<sem, sendq, ctxDone>>
        BY <2>12 DEF LeaveQueue
      <3> QED
        BY <1>1, <1>2, <1>3, <2>2, <3>1, <3>2, Establish DEF HolderPC, CountedPC, CountAfter
    <2>13. CASE GiveUp(r)
      <3>1. Goto(r, "idle") /\ "idle" \in PC /\ pc[r] = "cancelled"
        BY <2>13 DEF GiveUp, PC
      <3>2. waiting' = waiting - 1 /\ UNCHANGED <<sem, sendq, ctxDone>>
        BY <2>13 DEF GiveUp
      <3> QED
        BY <1>1, <1>2, <1>3, <2>2, <3>1, <3>2, Establish DEF HolderPC, CountedPC, CountAfter
    <2>14. CASE Release(r) /\ sendq = <<>>
      <3>1. Goto(r, "idle") /\ "idle" \in PC /\ pc[r] = "run"
        BY <2>14 DEF Release, PC
      <3>2. sem' = sem - 1 /\ UNCHANGED <<sendq, waiting, ctxDone>>
        BY <2>14 DEF Release
      <3> QED
        BY <1>1, <1>2, <2>2, <2>14, <3>1, <3>2, Establish DEF HolderPC, CountedPC, CountAfter
    <2>15. CASE Release(r) /\ sendq # <<>>
      <3> PICK h : h = Head(sendq)
        OBVIOUS
      <3> PICK f : f = [pc EXCEPT ![r] = "idle"]
        OBVIOUS
      <3>1. /\ sem' = sem /\ sendq' = Tail(sendq) /\ UNCHANGED <<waiting, ctxDone>>
            /\ pc' = [f EXCEPT ![h] = "granted"] /\ pc[r] = "run"
        BY <1>1, <2>15 DEF Release
      <3>2. h \in Req /\ pc[h] = "blocked" /\ h = sendq[1] /\ 1 \in 1..Len(sendq)
        BY <1>1, <1>2, <2>15 DEF Senders
      <3>3. f \in [Req -> PC] /\ f[h] = "blocked" /\ "idle" \in PC /\ "granted" \in PC
        BY <1>1, <3>1, <3>2 DEF PC
      <3>4. pc' \in [Req -> PC]
        BY <3>1, <3>3
      <3>5. Senders(f, sendq)
        BY <1>1, <1>2, <3>1, <3>3, PlainMove
      <3>6. Tail(sendq) = RemoveAt(sendq, 1)
        <4>1. /\ RemoveAt(sendq, 1) = SubSeq(sendq, 1, 0) \o SubSeq(sendq, 2, Len(sendq))
              /\ SubSeq(sendq, 1, 0) = <<>>
          BY DEF RemoveAt
        <4>2. Tail(sendq) = SubSeq(sendq, 2, Len(sendq)) /\ Tail(sendq) \in Seq(Req)
          BY <1>1, <2>15, TailIsSubSeq, HeadTailProperties
        <4> QED
          BY <4>1, <4>2, ConcatEmptySeq
      <3>7. Senders(pc', sendq') /\ sendq' \in Seq(Req)
        <4>1. /\ RemoveAt(sendq, 1) \in Seq(Req)
              /\ Senders([f EXCEPT ![sendq[1]] = "granted"], RemoveAt(sendq, 1))
          BY <1>1, <3>2, <3>3, <3>5, Unpark
        <4> QED
          BY <3>1, <3>2, <3>6, <4>1
      <3>8. /\ Count(pc', HolderPC) = Count(pc, HolderPC)
            /\ Count(pc', CountedPC) = Count(pc, CountedPC)
        <4>1. HandedOff(pc, r, h, pc')
          BY <3>1 DEF HandedOff
        <4> QED
          BY <1>0, <3>1, <3>2, <4>1, CountsHandOff
      <3> QED
        BY <1>1, <1>3, <2>15, <3>1, <3>4, <3>7, <3>8, <1>2, Establish
    <2> QED
      BY <2>1, <2>3, <2>4, <2>5, <2>6, <2>7, <2>8, <2>9, <2>10, <2>11, <2>12,
         <2>13, <2>14, <2>15 DEF Step
  <1> QED
    BY <1>4, <1>5

-----------------------------------------------------------------------------
(* The theorems.                                                           *)

\* The accounting of the pool, for every interleaving of any number of
\* requests: types, slots, waiters, parked senders and no lost wakeup.
THEOREM Accounting == Spec => []IndInv
  BY IndInvInit, IndInvStep, PTL DEF Spec

\* Type correctness: in particular sem stays within the channel's capacity
\* and `waiting` never goes below zero.
THEOREM TypeCorrect == Spec => []TypeOK
  <1>1. IndInv => TypeOK
    BY DEF IndInv
  <1> QED
    BY <1>1, Accounting, PTL

\* A parked request and a free slot never coexist.
THEOREM NoLostWakeup == Spec => []NoSlotWhileParked
  <1>1. IndInv => NoSlotWhileParked
    BY DEF IndInv
  <1> QED
    BY <1>1, Accounting, PTL

\* At most WORKER_POOL_SIZE handlers run at a time.
THEOREM ConcurrencyBounded == Spec => []Concurrency
  <1>1. IndInv => Concurrency
    <2> SUFFICES ASSUME IndInv PROVE Concurrency
      OBVIOUS
    <2>1. sem = Count(pc, HolderPC) /\ sem <= PoolSize
      BY Restated, PoolAssumption DEF IndInv, TypeOK
    <2>2. Count(pc, {"run"}) <= Count(pc, HolderPC)
      BY CountMonotonic DEF HolderPC
    <2>3. Count(pc, {"run"}) \in Nat /\ Count(pc, HolderPC) \in Nat
      BY CountType
    <2>4. Count(pc, {"run"}) <= PoolSize
      BY <2>1, <2>2, <2>3, PoolAssumption
    <2> QED
      BY <2>4 DEF Concurrency, At, Count
  <1> QED
    BY <1>1, Accounting, PTL

\* At most MAX_QUEUE_SIZE requests wait.  The counter is compared after the
\* increment, so of the requests that race for the last place at most one
\* sees a value within the bound: `waiting` counts all of them.
THEOREM QueueBounded == Spec => []QueueBound
  <1>1. Init => QueueBound
    <2> SUFFICES ASSUME Init PROVE QueueBound
      OBVIOUS
    <2>1. Queued = {}
      BY DEF Init, Queued, At
    <2> QED
      BY <2>1, FS_EmptySet, QueueAssumption DEF QueueBound
  <1>2. IndInv /\ QueueBound /\ [Next]_vars => QueueBound'
    <2> SUFFICES ASSUME IndInv, QueueBound, [Next]_vars PROVE QueueBound'
      OBVIOUS
    <2>0. pc \in [Req -> PC]
      BY DEF IndInv, TypeOK
    <2>1. QueueBound <=> Count(pc, QueuedPC) <= MaxQueueSize
      BY DEF QueueBound, Queued, At, Count, QueuedPC
    <2>2. QueueBound' <=> Count(pc', QueuedPC) <= MaxQueueSize
      BY DEF QueueBound, Queued, At, Count, QueuedPC
    <2>3. Count(pc, QueuedPC) \in Nat /\ Count(pc', QueuedPC) \in Nat
      BY CountType
    <2>4. CASE UNCHANGED vars
      BY <2>1, <2>2, <2>4 DEF vars
    <2>5. CASE Next
      <3>1. PICK r \in Req : Arrive(r) \/ Cancel(r) \/ Step(r)
        BY <2>5 DEF Next
      <3>2. ASSUME NEW l \in PC, Goto(r, l)
            PROVE  Count(pc', QueuedPC)
                     = CountAfter(Count(pc, QueuedPC), pc[r], l, QueuedPC)
        <4>1. Moved(pc, r, l, pc')
          BY <3>2 DEF Goto, Moved
        <4> QED
          BY <2>0, <4>1, CountMove
      <3>3. CASE AddWaiting(r)
        <4>1. CASE waiting + 1 > MaxWaiting
          <5>1. Goto(r, "shed") /\ "shed" \in PC
            BY <3>3, <4>1 DEF AddWaiting, PC
          <5> QED
            BY <2>1, <2>2, <2>3, <3>2, <5>1, QueueAssumption DEF CountAfter, QueuedPC
        <4>2. CASE ~(waiting + 1 > MaxWaiting)
          <5>1. Goto(r, "select") /\ "select" \in PC /\ pc[r] = "add"
            BY <3>3, <4>2 DEF AddWaiting, PC
          <5>2. Count(pc', QueuedPC) = Count(pc, QueuedPC) + 1
            BY <3>2, <5>1 DEF CountAfter, QueuedPC
          <5>3. Count(pc, QueuedPC) <= Count(pc, CountedPC)
            BY CountMonotonic DEF QueuedPC, CountedPC
          <5>4. waiting = Count(pc, CountedPC) /\ waiting \in Nat
            BY Restated DEF IndInv, TypeOK
          <5> QED
            BY <2>2, <2>3, <4>2, <5>2, <5>3, <5>4, Int32Conversion, QueueAssumption
        <4> QED
          BY <4>1, <4>2
      <3>4. CASE Release(r) /\ sendq # <<>>
        <4> PICK h : h = Head(sendq)
          OBVIOUS
        <4>1. h \in Req /\ pc[h] = "blocked"
          <5>1. sendq \in Seq(Req) /\ Senders(pc, sendq)
            BY <2>0, Restated DEF IndInv, TypeOK
          <5> QED
            BY <3>4, <5>1 DEF Senders
        <4>2. pc[r] = "run" /\ HandedOff(pc, r, h, pc')
          BY <3>4 DEF Release, HandedOff
        <4>3. Count(pc', QueuedPC) = Count(pc, QueuedPC)
          BY <2>0, <4>1, <4>2, CountsHandOff
        <4> QED
          BY <2>1, <2>2, <4>3
      <3>5. CASE Cancel(r)
        BY <2>1, <2>2, <3>5 DEF Cancel
      <3>6. CASE \/ Arrive(r) \/ TryFast(r) \/ Shed(r) \/ SelectSend(r)
                 \/ SelectDone(r) \/ SelectPark(r) \/ CtxWake(r) \/ LeaveQueue(r)
                 \/ GiveUp(r) \/ (Release(r) /\ sendq = <<>>)
        <4>1. PICK l \in PC : /\ Goto(r, l)
                              /\ l \in QueuedPC => pc[r] \in QueuedPC
          BY <3>6 DEF Arrive, TryFast, Shed, SelectSend, SelectDone, SelectPark,
                      CtxWake, LeaveQueue, GiveUp, Release, PC, QueuedPC
        <4>2. Count(pc', QueuedPC) <= Count(pc, QueuedPC)
          BY <2>3, <3>2, <4>1 DEF CountAfter
        <4> QED
          BY <2>1, <2>2, <2>3, <4>2, QueueAssumption
      <3> QED
        BY <3>1, <3>3, <3>4, <3>5, <3>6 DEF Step
    <2> QED
      BY <2>4, <2>5
  <1> QED
    BY <1>1, <1>2, Accounting, PTL DEF Spec

\* Both bounds of the pool hold, for any number of requests.
THEOREM PoolIsBounded == Spec => []Bounded
  BY ConcurrencyBounded, QueueBounded, PTL DEF Bounded

\* A request is shed only when MAX_QUEUE_SIZE others are counted, provided
\* MAX_QUEUE_SIZE fits in int32.
THEOREM ShedIsJustified ==
    ASSUME MaxQueueSize < Int32Half
    PROVE  Spec => ShedJustified
  <1>1. IndInv /\ [Next]_vars =>
          [\A r \in Req : pc[r] = "add" /\ pc'[r] = "shed"
                          => Cardinality(Counted) >= MaxQueueSize]_vars
    <2> SUFFICES ASSUME IndInv, Next, NEW r \in Req, pc[r] = "add", pc'[r] = "shed"
                 PROVE  Cardinality(Counted) >= MaxQueueSize
      BY DEF vars
    <2>1. pc \in [Req -> PC] /\ waiting = Cardinality(Counted) /\ waiting \in Nat
      BY DEF IndInv, TypeOK, WaitingAccounting
    <2>2. PICK q \in Req : Arrive(q) \/ Cancel(q) \/ Step(q)
      BY DEF Next
    <2>3. AddWaiting(r)
      BY <2>1, <2>2
         DEF Step, Arrive, Cancel, TryFast, AddWaiting, Shed, SelectSend, SelectDone,
             SelectPark, CtxWake, LeaveQueue, GiveUp, Release, Goto
    <2>4. waiting + 1 > MaxWaiting
      BY <2>1, <2>3 DEF AddWaiting, Goto
    <2> QED
      BY <2>1, <2>4, Int32Conversion, QueueAssumption
  <1> QED
    BY <1>1, Accounting, PTL DEF Spec, ShedJustified

\* A slot that is handed on goes to the request that has been parked longest.
THEOREM ServedInOrder == Spec => FIFO
  <1>1. IndInv /\ [Next]_vars =>
          [\A i, j \in DOMAIN sendq :
             i < j /\ pc'[sendq[j]] = "granted" => pc'[sendq[i]] = "granted"]_vars
    <2> SUFFICES ASSUME IndInv, Next, NEW i \in DOMAIN sendq, NEW j \in DOMAIN sendq,
                        i < j, pc'[sendq[j]] = "granted"
                 PROVE  FALSE
      BY DEF vars
    <2>1. pc \in [Req -> PC] /\ sendq \in Seq(Req) /\ Senders(pc, sendq)
      BY Restated DEF IndInv, TypeOK
    <2>2. /\ DOMAIN sendq = 1..Len(sendq) /\ Len(sendq) \in Nat
          /\ i \in 1..Len(sendq) /\ j \in 1..Len(sendq)
      BY <2>1
    <2>3. sendq[j] \in Req /\ pc[sendq[j]] = "blocked"
      BY <2>1, <2>2 DEF Senders
    <2>4. PICK r \in Req : Arrive(r) \/ Cancel(r) \/ Step(r)
      BY DEF Next
    <2>5. Release(r) /\ sendq # <<>>
      BY <2>1, <2>3, <2>4
         DEF Step, Arrive, Cancel, TryFast, AddWaiting, Shed, SelectSend, SelectDone,
             SelectPark, CtxWake, LeaveQueue, GiveUp, Release, Goto
    <2>6. pc' = [pc EXCEPT ![r] = "idle", ![sendq[1]] = "granted"]
      BY <2>5 DEF Release
    <2>7. sendq[j] = sendq[1]
      BY <2>1, <2>3, <2>6
    <2> QED
      BY <2>1, <2>2, <2>7 DEF Senders
  <1> QED
    BY <1>1, Accounting, PTL DEF Spec, FIFO
-----------------------------------------------------------------------------
(* The pool implements BoundedPool: a step of a request is a step of the    *)
(* abstract pool or leaves its phase alone.  The abstract guards count      *)
(* phases; IndInv says that sem and waiting are those counts.               *)

\* The phase of each place in Middleware.
LEMMA Phases ==
    /\ PhaseOf("idle") = "out" /\ PhaseOf("try") = "arriving"
    /\ PhaseOf("add") = "contending" /\ PhaseOf("shed") = "contending"
    /\ PhaseOf("select") = "waiting" /\ PhaseOf("blocked") = "waiting"
    /\ PhaseOf("cancelled") = "waiting"
    /\ PhaseOf("granted") = "running" /\ PhaseOf("run") = "running"
  BY DEF PhaseOf

\* The two names of Cardinality.
LEMMA SameCardinality == \A S : Abstract!Cardinality(S) = Cardinality(S)
  BY DEF Abstract!Cardinality, Cardinality

\* The numbers of running and of waiting requests.
LEMMA PhaseCounts ==
    ASSUME IndInv
    PROVE  /\ Cardinality(Abstract!In("running")) = sem
           /\ Cardinality(Abstract!In("waiting")) \in Nat
           /\ Cardinality(Abstract!In("waiting")) <= waiting
  <1>1. pc \in [Req -> PC]
    BY DEF IndInv, TypeOK
  <1>2. \A r \in Req : /\ Phase[r] = "running" <=> pc[r] \in HolderPC
                       /\ Phase[r] = "waiting" <=> pc[r] \in {"select", "blocked", "cancelled"}
    BY <1>1, Phases DEF Phase, PC, HolderPC
  <1>3. /\ Cardinality(Abstract!In("running")) = Count(pc, HolderPC)
        /\ Cardinality(Abstract!In("waiting")) = Count(pc, {"select", "blocked", "cancelled"})
    BY <1>2 DEF Abstract!In, Count
  <1>4. Count(pc, {"select", "blocked", "cancelled"}) <= Count(pc, CountedPC)
    BY CountMonotonic DEF CountedPC
  <1>5. sem = Count(pc, HolderPC) /\ waiting = Count(pc, CountedPC)
    BY Restated DEF IndInv, TypeOK
  <1> QED
    BY <1>3, <1>4, <1>5, CountType

\* How the phases change with one request.
LEMMA PhaseMove ==
    ASSUME pc \in [Req -> PC], NEW r \in Req, NEW l, Goto(r, l)
    PROVE  /\ Phase' = [Phase EXCEPT ![r] = PhaseOf(l)]
           /\ PhaseOf(l) = PhaseOf(pc[r]) => Phase' = Phase
  BY DEF Phase, Goto

\* Every step of the pool is a step of the abstract one, or none.
LEMMA AbstractStep == IndInv /\ [Next]_vars => [Abstract!Next]_Phase
  <1> SUFFICES ASSUME IndInv, [Next]_vars PROVE Abstract!Next \/ Phase' = Phase
    OBVIOUS
  <1>0. /\ pc \in [Req -> PC] /\ sem \in 0..PoolSize /\ waiting \in Nat
        /\ sendq \in Seq(Req) /\ Senders(pc, sendq)
    BY Restated DEF IndInv, TypeOK
  <1>1. CASE UNCHANGED vars
    BY <1>1 DEF vars, Phase
  <1>2. ASSUME NEW r \in Req, Arrive(r) \/ Cancel(r) \/ Step(r)
        PROVE  Abstract!Next \/ Phase' = Phase
    <2>0. Phase[r] = PhaseOf(pc[r])
      BY DEF Phase
    <2>1. CASE Arrive(r)
      <3>1. Abstract!Arrive(r)
        BY <1>0, <2>0, <2>1, PhaseMove, Phases DEF Arrive, Abstract!Arrive
      <3> QED
        BY <3>1 DEF Abstract!Next
    <2>2. CASE Cancel(r)
      BY <2>2 DEF Cancel, Phase
    <2>3. CASE TryFast(r)
      <3>1. CASE sem < PoolSize
        <4>1. Abstract!Start(r)
          BY <1>0, <2>0, <2>3, <3>1, PhaseMove, Phases, PhaseCounts, SameCardinality
             DEF TryFast, Abstract!Start
        <4> QED
          BY <4>1 DEF Abstract!Next
      <3>2. CASE ~(sem < PoolSize)
        <4>1. sem = PoolSize
          BY <1>0, <3>2, PoolAssumption
        <4>2. Abstract!Contend(r)
          BY <1>0, <2>0, <2>3, <3>2, <4>1, PhaseMove, Phases, PhaseCounts, SameCardinality
             DEF TryFast, Abstract!Contend
        <4> QED
          BY <4>2 DEF Abstract!Next
      <3> QED
        BY <3>1, <3>2
    <2>4. CASE AddWaiting(r)
      <3>1. CASE waiting + 1 > MaxWaiting
        BY <1>0, <2>4, <3>1, PhaseMove, Phases DEF AddWaiting
      <3>2. CASE ~(waiting + 1 > MaxWaiting)
        <4>1. Cardinality(Abstract!In("waiting")) < MaxQueueSize
          BY <1>0, <3>2, PhaseCounts, Int32Conversion, QueueAssumption
        <4>2. Goto(r, "select") /\ pc[r] = "add"
          BY <2>4, <3>2 DEF AddWaiting
        <4>3. Abstract!Wait(r)
          BY <1>0, <2>0, <4>1, <4>2, PhaseMove, Phases, SameCardinality DEF Abstract!Wait
        <4> QED
          BY <4>3 DEF Abstract!Next
      <3> QED
        BY <3>1, <3>2
    <2>5. CASE SelectSend(r)
      <3>1. Abstract!Start(r)
        BY <1>0, <2>0, <2>5, PhaseMove, Phases, PhaseCounts, SameCardinality DEF SelectSend, Abstract!Start
      <3> QED
        BY <3>1 DEF Abstract!Next
    <2>6. CASE SelectDone(r) \/ SelectPark(r) \/ CtxWake(r) \/ LeaveQueue(r)
      BY <1>0, <2>6, PhaseMove, Phases DEF SelectDone, SelectPark, CtxWake, LeaveQueue
    <2>7. CASE Shed(r) \/ GiveUp(r) \/ (Release(r) /\ sendq = <<>>)
      <3>1. Goto(r, "idle") /\ pc[r] \in {"shed", "cancelled", "run"}
        BY <2>7 DEF Shed, GiveUp, Release
      <3>2. Abstract!Leave(r)
        BY <1>0, <2>0, <3>1, PhaseMove, Phases DEF Abstract!Leave
      <3> QED
        BY <3>2 DEF Abstract!Next
    <2>8. CASE Release(r) /\ sendq # <<>>
      <3> PICK h : h = Head(sendq)
        OBVIOUS
      <3>1. h \in Req /\ pc[h] = "blocked"
        BY <1>0, <2>8 DEF Senders
      <3>2. pc[r] = "run" /\ pc' = [pc EXCEPT ![r] = "idle", ![h] = "granted"]
        BY <2>8 DEF Release
      <3>3. Phase' = [Phase EXCEPT ![r] = "out", ![h] = "running"]
        BY <1>0, <3>1, <3>2, Phases DEF Phase
      <3>4. Abstract!HandOver(r, h)
        BY <2>0, <3>1, <3>2, <3>3, Phases DEF Phase, Abstract!HandOver
      <3> QED
        BY <3>1, <3>4 DEF Abstract!Next
    <2> QED
      BY <1>2, <2>1, <2>2, <2>3, <2>4, <2>5, <2>6, <2>7, <2>8 DEF Step
  <1> QED
    BY <1>1, <1>2 DEF Next

\* The channel, the counter and the contexts implement the abstract pool, which
\* Daemon uses in their place.
THEOREM PoolImplements == Spec => Implements
  <1>1. Init => Abstract!Init
    BY Phases DEF Init, Abstract!Init, Phase
  <1> QED
    BY <1>1, AbstractStep, Accounting, PTL DEF Spec, Implements, Abstract!Spec
=============================================================================
