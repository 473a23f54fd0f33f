-------------------------- MODULE WorldResolverProofs --------------------------
(***************************************************************************)
(* Proofs about WorldResolver for any number of worlds, tenants, threads   *)
(* and restarts.                                                           *)
(***************************************************************************)
EXTENDS WorldResolver, SequenceTheorems, TLAPS

Busy(d) == drain[d].at # "idle"

\* What _drain_lock gives.
OneAtATime == \A d, e \in Drainer : Busy(d) /\ Busy(e) => d = e

HasWorld ==
  /\ \A d \in Drainer : Busy(d) => drain[d].world \in World
  /\ \A a \in Asker : ask[a].at # "idle" => ask[a].world \in World /\ ask[a].tenant \in Tenant

\* _pending is a dictionary: one request per world.
QueuedOnce == \A i, j \in DOMAIN pending : pending[i].world = pending[j].world => i = j

-----------------------------------------------------------------------------
(* Taking an element out of a sequence                                      *)

LEMMA Removal ==
  ASSUME NEW S, NEW s \in Seq(S), NEW k \in DOMAIN s
  PROVE  /\ RemoveAt(s, k) \in Seq(S)
         /\ Len(RemoveAt(s, k)) = Len(s) - 1
         /\ \A i \in 1..(Len(s) - 1) :
              RemoveAt(s, k)[i] = IF i < k THEN s[i] ELSE s[i + 1]
<1>1. Len(s) \in Nat /\ k \in 1..Len(s) /\ \A i \in 1..Len(s) : s[i] \in S
  BY LenProperties, ElementOfSeq
<1> DEFINE l == SubSeq(s, 1, k - 1)
           r == SubSeq(s, k + 1, Len(s))
<1>2. l \in Seq(S) /\ Len(l) = k - 1 /\ \A i \in 1..(k - 1) : l[i] = s[i]
  <2>1. \A i \in 1..(k - 1) : s[i] \in S
    BY <1>1
  <2>2. /\ l \in Seq(S)
        /\ Len(l) = IF 1 <= k - 1 THEN (k - 1) - 1 + 1 ELSE 0
        /\ \A i \in 1..((k - 1) - 1 + 1) : l[i] = s[1 + i - 1]
    BY <1>1, <2>1, SubSeqProperties
  <2> QED BY <1>1, <2>2
<1>3. r \in Seq(S) /\ Len(r) = Len(s) - k /\ \A i \in 1..(Len(s) - k) : r[i] = s[k + i]
  <2>1. \A i \in (k + 1)..Len(s) : s[i] \in S
    BY <1>1
  <2>2. /\ r \in Seq(S)
        /\ Len(r) = IF k + 1 <= Len(s) THEN Len(s) - (k + 1) + 1 ELSE 0
        /\ \A i \in 1..(Len(s) - (k + 1) + 1) : r[i] = s[k + 1 + i - 1]
    BY <1>1, <2>1, SubSeqProperties
  <2> QED BY <1>1, <2>2
<1> DEFINE c == l \o r
<1>4. /\ c \in Seq(S) /\ Len(c) = Len(l) + Len(r)
      /\ \A i \in 1..(Len(l) + Len(r)) :
           c[i] = IF i <= Len(l) THEN l[i] ELSE r[i - Len(l)]
  BY <1>2, <1>3, ConcatProperties
<1>5. RemoveAt(s, k) = c
  BY DEF RemoveAt
<1> HIDE DEF l, r, c
<1>6. Len(c) = Len(s) - 1
  BY <1>1, <1>2, <1>3, <1>4
<1>7. ASSUME NEW i \in 1..(Len(s) - 1)
      PROVE  c[i] = IF i < k THEN s[i] ELSE s[i + 1]
  <2>a. Len(l) = k - 1 /\ Len(r) = Len(s) - k
    BY <1>2, <1>3
  <2>b. i \in 1..(Len(l) + Len(r))
    BY <1>1, <2>a
  <2>c. c[i] = IF i <= Len(l) THEN l[i] ELSE r[i - Len(l)]
    BY <1>4, <2>b
  <2>1. c[i] = IF i <= k - 1 THEN l[i] ELSE r[i - (k - 1)]
    BY <2>a, <2>c
  <2>2. CASE i < k
    BY <1>1, <1>2, <2>1, <2>2
  <2>3. CASE i >= k
    <3>1. i - (k - 1) \in 1..(Len(s) - k)
      BY <1>1, <2>3
    <3>2. r[i - (k - 1)] = s[k + (i - (k - 1))]
      BY <1>3, <3>1
    <3>3. k + (i - (k - 1)) = i + 1
      BY <1>1
    <3> QED BY <1>1, <2>1, <2>3, <3>2, <3>3
  <2> QED BY <1>1, <2>2, <2>3
<1> QED BY <1>4, <1>5, <1>6, <1>7

-----------------------------------------------------------------------------
(* Types                                                                    *)

Labels == {"idle", "cache", "state", "tenant", "fetch", "put", "ready", "done",
           "giveup", "persist"}

\* A step that moves a drainer leaves its other local variables alone.
LEMMA StepUpdate ==
  ASSUME drain \in [Drainer -> Drain], NEW d \in Drainer, NEW l \in Labels, Step(d, l)
  PROVE  /\ drain' \in [Drainer -> Drain]
         /\ drain'[d].at = l /\ drain'[d].world = drain[d].world
         /\ drain'[d].error = drain[d].error
         /\ \A e \in Drainer : e # d => drain'[e] = drain[e]
BY DEF Step, Drain, Labels

\* Returning from drain_once.
LEMMA Return ==
  ASSUME drain \in [Drainer -> Drain], NEW d \in Drainer,
         drain' = [drain EXCEPT ![d] = NotDraining]
  PROVE  /\ drain' \in [Drainer -> Drain]
         /\ drain'[d].at = "idle"
         /\ \A e \in Drainer : e # d => drain'[e] = drain[e]
BY DEF NotDraining, Drain, Failure

\* What any step of a drainer does to the drainers.
DrainMoves(d) ==
  /\ drain' \in [Drainer -> Drain]
  /\ \A e \in Drainer : e # d => drain'[e] = drain[e]
  /\ Busy(d)' => drain'[d].world \in World

LEMMA Queued ==
  ASSUME pending \in Seq(Request), NEW i \in DOMAIN pending
  PROVE  pending[i] \in Request /\ pending[i].world \in World /\ pending[i].tenants \subseteq Tenant
<1>1. i \in 1..Len(pending)
  BY LenProperties
<1>2. pending[i] \in Request
  BY <1>1, ElementOfSeq
<1> QED BY <1>2 DEF Request

LEMMA DrainersMove ==
  ASSUME TypeOK, HasWorld, NEW d \in Drainer, DrainStep(d)
  PROVE  DrainMoves(d)
<1>1. drain \in [Drainer -> Drain] /\ (Busy(d) => drain[d].world \in World)
  BY DEF TypeOK, HasWorld
<1>2. CASE DrainBegin(d)
  <2>1. PICK i \in DOMAIN pending : drain' = [drain EXCEPT ![d] =
          [NotDraining EXCEPT !.at = "cache", !.world = pending[i].world]]
    BY <1>2 DEF DrainBegin
  <2>2. pending[i].world \in World
    BY Queued DEF TypeOK
  <2> QED BY <1>1, <2>1, <2>2 DEF DrainMoves, NotDraining, Drain, Failure
<1>3. CASE DrainCache(d) \/ DrainState(d)
  <2>1. \E l \in Labels : Step(d, l)
    BY <1>3 DEF DrainCache, DrainState, Labels
  <2>2. Busy(d)
    BY <1>3 DEF DrainCache, DrainState, Busy
  <2> QED BY <1>1, <2>1, <2>2, StepUpdate DEF DrainMoves
<1>4. CASE DrainTenant(d)
  <2>1. CASE Step(d, "giveup")
    BY <1>1, <1>4, <2>1, StepUpdate DEF DrainMoves, DrainTenant, Busy, Labels
  <2>2. CASE ~Step(d, "giveup")
    <3>1. PICK i \in DOMAIN pending : \E t \in pending[i].tenants :
            drain' = [drain EXCEPT ![d].at = "fetch", ![d].tried = @ \cup {t}]
      BY <1>4, <2>2 DEF DrainTenant
    <3>2. pending[i].tenants \subseteq Tenant
      BY Queued DEF TypeOK
    <3>3. PICK t \in Tenant :
            drain' = [drain EXCEPT ![d].at = "fetch", ![d].tried = @ \cup {t}]
      BY <3>1, <3>2
    <3>4. drain[d] \in Drain /\ drain[d].world \in World
      BY <1>1, <1>4 DEF DrainTenant, Busy
    <3>5. [drain[d] EXCEPT !.at = "fetch", !.tried = @ \cup {t}] \in Drain
      BY <3>4 DEF Drain
    <3>6. drain' = [drain EXCEPT ![d] = [drain[d] EXCEPT !.at = "fetch", !.tried = @ \cup {t}]]
      BY <3>3
    <3> QED BY <1>1, <3>4, <3>5, <3>6 DEF DrainMoves
  <2> QED BY <2>1, <2>2
<1>5. CASE FetchServed(d)
  BY <1>1, <1>5, StepUpdate DEF FetchServed, DrainMoves, Busy, Labels
<1>6. CASE FetchFailed(d)
  <2>1. PICK e \in Failure \ {"none"} :
          drain' = [drain EXCEPT ![d].at = IF e = "401" THEN "tenant" ELSE "giveup",
                                 ![d].error = e]
    BY <1>6 DEF FetchFailed
  <2>2. drain[d].world \in World
    BY <1>1, <1>6 DEF FetchFailed, Busy
  <2> QED BY <1>1, <2>1, <2>2, ZenonT(40) DEF DrainMoves, Drain
<1>7. CASE DrainPut(d) \/ DrainReady(d)
  BY <1>1, <1>7, StepUpdate DEF DrainPut, DrainReady, DrainMoves, Busy, Labels
<1>8. CASE DrainFinish(d)
  <2>1. CASE drain[d].at = "done"
    BY <1>1, <1>8, <2>1, Return DEF DrainFinish, DrainMoves, Busy
  <2>2. CASE drain[d].at # "done"
    BY <1>1, <1>8, <2>2, StepUpdate DEF DrainFinish, DrainMoves, Busy, Labels
  <2> QED BY <2>1, <2>2
<1>9. CASE DrainPersist(d)
  BY <1>1, <1>9, Return DEF DrainPersist, DrainMoves, Busy
<1> QED BY <1>2, <1>3, <1>4, <1>5, <1>6, <1>7, <1>8, <1>9 DEF DrainStep

LEMMA RowsTyped ==
  ASSUME TypeOK, HasWorld, NEW d \in Drainer, DrainStep(d)
  PROVE  /\ cache' \in [World -> {"none", "fresh", "stale"}]
         /\ row' \in [World -> Row]
         /\ told' \subseteq World
         /\ UNCHANGED <<ask, restarts>>
<1>1. /\ Busy(d) => drain[d].world \in World
      /\ cache \in [World -> {"none", "fresh", "stale"}]
      /\ row \in [World -> Row] /\ told \subseteq World
  BY DEF TypeOK, HasWorld
<1>2. CASE DrainPut(d)
  BY <1>1, <1>2 DEF DrainPut, Busy
<1>3. CASE DrainReady(d)
  BY <1>1, <1>3 DEF DrainReady, Busy, Row
<1>4. CASE DrainPersist(d)
  BY <1>1, <1>4 DEF DrainPersist, Busy, Row, Outcome
<1>5. CASE FetchFailed(d)
  BY <1>1, <1>5 DEF FetchFailed, Busy
<1>6. CASE \/ DrainBegin(d) \/ DrainCache(d) \/ DrainState(d) \/ DrainTenant(d)
           \/ FetchServed(d) \/ DrainFinish(d)
  BY <1>1, <1>6 DEF DrainBegin, DrainCache, DrainState, DrainTenant,
     FetchServed, DrainFinish
<1> QED BY <1>2, <1>3, <1>4, <1>5, <1>6 DEF DrainStep

\* The queue stays a sequence of requests with one per world.
QueueOK == pending \in Seq(Request) /\ QueuedOnce

LEMMA PopQueue ==
  ASSUME QueueOK, NEW w, Pop(w)
  PROVE  /\ QueueOK'
         /\ \A i \in DOMAIN pending' : /\ pending'[i].world # w
                                       /\ \E j \in DOMAIN pending : pending'[i] = pending[j]
<1>1. /\ Len(pending) \in Nat /\ DOMAIN pending = 1..Len(pending)
      /\ \A i, j \in 1..Len(pending) : pending[i].world = pending[j].world => i = j
      /\ pending \in Seq(Request)
  BY LenProperties DEF QueueOK, QueuedOnce
<1>2. CASE \E i \in DOMAIN pending :
             pending[i].world = w /\ pending' = RemoveAt(pending, i)
  <2>1. PICK k \in DOMAIN pending :
          pending[k].world = w /\ pending' = RemoveAt(pending, k)
    BY <1>2
  <2>2. /\ pending' \in Seq(Request)
        /\ Len(pending') = Len(pending) - 1
        /\ \A i \in 1..(Len(pending) - 1) :
             pending'[i] = IF i < k THEN pending[i] ELSE pending[i + 1]
    BY <1>1, <2>1, Removal
  <2>3. DOMAIN pending' = 1..(Len(pending) - 1)
    BY <2>2, LenProperties
  <2>4. k \in 1..Len(pending)
    BY <1>1
  <2>5. QueuedOnce'
    <3> SUFFICES ASSUME NEW i \in DOMAIN pending', NEW j \in DOMAIN pending',
                        pending'[i].world = pending'[j].world
                 PROVE  i = j
      BY DEF QueuedOnce
    <3>1. i \in 1..(Len(pending) - 1) /\ j \in 1..(Len(pending) - 1)
      BY <2>3
    <3> QED BY <1>1, <2>2, <2>4, <3>1
  <2>6. ASSUME NEW i \in DOMAIN pending'
        PROVE  /\ pending'[i].world # w
               /\ \E j \in DOMAIN pending : pending'[i] = pending[j]
    <3>1. i \in 1..(Len(pending) - 1)
      BY <2>3
    <3> DEFINE j == IF i < k THEN i ELSE i + 1
    <3>2. j \in 1..Len(pending) /\ j # k /\ pending'[i] = pending[j]
      BY <1>1, <2>2, <2>4, <3>1
    <3>3. pending[j].world # w
      BY <1>1, <2>1, <2>4, <3>2
    <3> QED BY <1>1, <3>2, <3>3
  <2> QED BY <2>2, <2>5, <2>6 DEF QueueOK
<1>3. CASE (\A i \in DOMAIN pending : pending[i].world # w) /\ UNCHANGED pending
  BY <1>1, <1>3 DEF QueueOK, QueuedOnce
<1> QED BY <1>2, <1>3 DEF Pop

\* Marking a request as in flight changes nothing else.
LEMMA BeginQueue ==
  ASSUME QueueOK, NEW d \in Drainer, DrainBegin(d)
  PROVE  /\ QueueOK'
         /\ \E k \in DOMAIN pending :
              /\ drain' = [drain EXCEPT ![d] =
                   [NotDraining EXCEPT !.at = "cache", !.world = pending[k].world]]
              /\ DOMAIN pending' = DOMAIN pending
              /\ \A i \in DOMAIN pending :
                   /\ pending'[i].world = pending[i].world
                   /\ pending'[i].inflight => i = k \/ pending[i].inflight
<1>1. PICK k \in DOMAIN pending :
        /\ pending' = [pending EXCEPT ![k].inflight = TRUE]
        /\ drain' = [drain EXCEPT ![d] =
             [NotDraining EXCEPT !.at = "cache", !.world = pending[k].world]]
  BY DEF DrainBegin
<1>2. pending \in Seq(Request) /\ DOMAIN pending = 1..Len(pending) /\ pending[k] \in Request
  BY LenProperties, ElementOfSeq DEF QueueOK
<1>3. [pending[k] EXCEPT !.inflight = TRUE] \in Request
  BY <1>2 DEF Request
<1>4. /\ pending' \in Seq(Request) /\ Len(pending') = Len(pending)
      /\ \A j \in 1..Len(pending) :
           pending'[j] = IF j = k THEN [pending[k] EXCEPT !.inflight = TRUE] ELSE pending[j]
  BY <1>1, <1>2, <1>3, ExceptSeq
<1>5. DOMAIN pending' = DOMAIN pending
  BY <1>2, <1>4, LenProperties
<1>6. \A i \in DOMAIN pending : /\ pending'[i].world = pending[i].world
                                /\ pending'[i].inflight => i = k \/ pending[i].inflight
  BY <1>2, <1>4 DEF Request
<1>7. QueuedOnce'
  BY <1>5, <1>6 DEF QueueOK, QueuedOnce
<1> QED BY <1>1, <1>4, <1>5, <1>6, <1>7 DEF QueueOK

\* enqueue adds a request that is not in flight, or a tenant.
LEMMA AddQueue ==
  ASSUME QueueOK, HasWorld, NEW a \in Asker, EnqueueAdd(a)
  PROVE  /\ QueueOK'
         /\ \A i \in DOMAIN pending' : pending'[i].inflight =>
              /\ i \in DOMAIN pending /\ pending[i].inflight
              /\ pending'[i].world = pending[i].world
<1>1. ask[a].world \in World /\ ask[a].tenant \in Tenant
  BY DEF HasWorld, EnqueueAdd
<1>2. /\ pending \in Seq(Request) /\ DOMAIN pending = 1..Len(pending)
      /\ Len(pending) \in Nat
      /\ \A i \in 1..Len(pending) : pending[i] \in Request
  BY LenProperties, ElementOfSeq DEF QueueOK
<1>3. CASE \E i \in DOMAIN pending : pending[i].world = ask[a].world
  <2> DEFINE e(i) == IF pending[i].world = ask[a].world
                     THEN [pending[i] EXCEPT !.tenants = @ \cup {ask[a].tenant}]
                     ELSE pending[i]
  <2>1. pending' = [i \in 1..Len(pending) |-> e(i)]
    BY <1>2, <1>3 DEF EnqueueAdd
  <2>2. \A i \in 1..Len(pending) : e(i) \in Request /\ e(i).world = pending[i].world
                                   /\ e(i).inflight = pending[i].inflight
    BY <1>1, <1>2 DEF Request
  <2> HIDE DEF e
  <2>3. pending' \in Seq(Request)
    BY <1>2, <2>1, <2>2, IsASeq
  <2>4. DOMAIN pending' = DOMAIN pending /\ \A i \in DOMAIN pending : pending'[i] = e(i)
    BY <1>2, <2>1
  <2> QED BY <1>2, <2>2, <2>3, <2>4 DEF QueueOK, QueuedOnce
<1>4. CASE ~\E i \in DOMAIN pending : pending[i].world = ask[a].world
  <2> DEFINE new == [world |-> ask[a].world, tenants |-> {ask[a].tenant}, inflight |-> FALSE]
  <2>1. pending' = Append(pending, new)
    BY <1>4 DEF EnqueueAdd
  <2>2. new \in Request /\ new.world = ask[a].world /\ ~new.inflight
    BY <1>1 DEF Request
  <2> HIDE DEF new
  <2>3. /\ pending' \in Seq(Request) /\ Len(pending') = Len(pending) + 1
        /\ \A i \in 1..Len(pending) : pending'[i] = pending[i]
        /\ pending'[Len(pending) + 1] = new
    BY <1>2, <2>1, <2>2, AppendProperties
  <2>4. DOMAIN pending' = 1..(Len(pending) + 1)
    BY <2>3, LenProperties
  <2>5. QueuedOnce'
    BY <1>2, <1>4, <2>2, <2>3, <2>4 DEF QueueOK, QueuedOnce
  <2> QED BY <1>2, <2>2, <2>3, <2>4, <2>5 DEF QueueOK
<1> QED BY <1>3, <1>4

-----------------------------------------------------------------------------
(* The invariants                                                           *)

Shape == TypeOK /\ HasWorld /\ QueuedOnce /\ OneAtATime

\* Steps outside drain_once and enqueue.
Passing == \E w \in World : CacheAges(w) \/ RetryAfterEnds(w) \/ DeadlinePasses(w)

LEMMA ShapeOfQueue ==
  ASSUME Shape
  PROVE  QueueOK /\ HasWorld /\ TypeOK /\ OneAtATime
BY DEF Shape, QueueOK, TypeOK

LEMMA ShapeDrain ==
  ASSUME Shape, NEW d \in Drainer, DrainStep(d)
  PROVE  Shape'
<1>1. DrainMoves(d)
  BY DrainersMove DEF Shape
<1>2. /\ cache' \in [World -> {"none", "fresh", "stale"}]
      /\ row' \in [World -> Row] /\ told' \subseteq World
      /\ ask' = ask /\ restarts' = restarts
  BY RowsTyped DEF Shape
<1>3. QueueOK'
  <2>1. CASE DrainBegin(d)
    BY <2>1, ShapeOfQueue, BeginQueue
  <2>2. CASE DrainFinish(d)
    <3>1. Pop(drain[d].world)
      BY <2>2 DEF DrainFinish
    <3> QED BY <3>1, ShapeOfQueue, PopQueue
  <2>3. CASE ~DrainBegin(d) /\ ~DrainFinish(d)
    <3>1. pending' = pending
      BY <2>3 DEF DrainStep, DrainCache, DrainState, DrainTenant, FetchServed,
         FetchFailed, DrainPut, DrainReady, DrainPersist
    <3> QED BY <3>1, ShapeOfQueue DEF QueueOK, QueuedOnce
  <2> QED BY <2>1, <2>2, <2>3
<1>4. OneAtATime'
  <2>1. \A e \in Drainer : e # d => ~Busy(e)
    <3>1. CASE DrainBegin(d)
      BY <3>1 DEF DrainBegin, Busy
    <3>2. CASE ~DrainBegin(d)
      <4>1. Busy(d)
        BY <3>2 DEF DrainStep, DrainCache, DrainState, DrainTenant, FetchServed,
           FetchFailed, DrainPut, DrainReady, DrainFinish, DrainPersist, Busy
      <4> QED BY <4>1 DEF Shape, OneAtATime
    <3> QED BY <3>1, <3>2
  <2> QED BY <1>1, <2>1 DEF OneAtATime, DrainMoves, Busy
<1>5. HasWorld'
  BY <1>1, <1>2 DEF Shape, HasWorld, DrainMoves, Busy
<1>6. TypeOK'
  BY <1>1, <1>2, <1>3 DEF Shape, TypeOK, DrainMoves, QueueOK
<1> QED BY <1>3, <1>4, <1>5, <1>6 DEF Shape, QueueOK

LEMMA ShapeEnqueue ==
  ASSUME Shape, NEW a \in Asker, Enqueue(a)
  PROVE  Shape'
<1>1. UNCHANGED <<cache, row, drain, told, restarts>>
  BY DEF Enqueue, EnqueueBegin, EnqueueState, EnqueueAdd
<1>2. ask \in [Asker -> Ask]
      /\ \A b \in Asker : ask[b].at # "idle" => ask[b].world \in World /\ ask[b].tenant \in Tenant
  BY DEF Shape, TypeOK, HasWorld
<1>3. /\ ask' \in [Asker -> Ask]
      /\ \A b \in Asker : ask'[b].at # "idle" => ask'[b].world \in World /\ ask'[b].tenant \in Tenant
  <2>1. CASE EnqueueBegin(a)
    BY <1>2, <2>1 DEF EnqueueBegin, Ask
  <2>2. CASE EnqueueState(a)
    <3>1. ask[a].world \in World /\ ask[a].tenant \in Tenant
      BY <1>2, <2>2 DEF EnqueueState
    <3>2. \/ ask' = [ask EXCEPT ![a] = NotAsking]
          \/ ask' = [ask EXCEPT ![a] = [ask[a] EXCEPT !.at = "add"]]
      BY <2>2 DEF EnqueueState
    <3> QED BY <1>2, <3>1, <3>2 DEF Ask, NotAsking
  <2>3. CASE EnqueueAdd(a)
    BY <1>2, <2>3 DEF EnqueueAdd, Ask, NotAsking
  <2> QED BY <2>1, <2>2, <2>3 DEF Enqueue
<1>4. QueueOK'
  <2>1. CASE EnqueueAdd(a)
    BY <2>1, ShapeOfQueue, AddQueue
  <2>2. CASE ~EnqueueAdd(a)
    <3>1. pending' = pending
      BY <2>2 DEF Enqueue, EnqueueBegin, EnqueueState
    <3> QED BY <3>1, ShapeOfQueue DEF QueueOK, QueuedOnce
  <2> QED BY <2>1, <2>2
<1>5. OneAtATime'
  BY <1>1 DEF Shape, OneAtATime, Busy
<1>6. HasWorld'
  BY <1>1, <1>3 DEF Shape, HasWorld, Busy
<1>7. TypeOK'
  BY <1>1, <1>3, <1>4 DEF Shape, TypeOK, QueueOK
<1> QED BY <1>4, <1>5, <1>6, <1>7 DEF Shape, QueueOK

LEMMA ShapePassing ==
  ASSUME Shape, Passing
  PROVE  Shape'
<1>1. PICK w \in World : CacheAges(w) \/ RetryAfterEnds(w) \/ DeadlinePasses(w)
  BY DEF Passing
<1>2. UNCHANGED <<pending, drain, ask, restarts>>
  BY <1>1 DEF CacheAges, RetryAfterEnds, DeadlinePasses
<1>3. /\ cache' \in [World -> {"none", "fresh", "stale"}]
      /\ row' \in [World -> Row] /\ told' \subseteq World
  <2>1. CASE CacheAges(w)
    BY <2>1 DEF CacheAges, Shape, TypeOK
  <2>2. CASE RetryAfterEnds(w)
    BY <2>2 DEF RetryAfterEnds, Shape, TypeOK
  <2>3. CASE DeadlinePasses(w)
    BY <2>3 DEF DeadlinePasses, Shape, TypeOK, Row
  <2> QED BY <1>1, <2>1, <2>2, <2>3
<1> QED BY <1>2, <1>3 DEF Shape, TypeOK, HasWorld, QueuedOnce, OneAtATime, Busy

LEMMA ShapeRestart ==
  ASSUME Shape, Restart
  PROVE  Shape'
<1>1. /\ UNCHANGED <<cache, row, told>>
      /\ pending' = <<>> /\ restarts' = restarts + 1
      /\ drain' = [d \in Drainer |-> NotDraining]
      /\ ask' = [a \in Asker |-> NotAsking]
  BY DEF Restart
<1>2. pending' \in Seq(Request) /\ QueuedOnce'
  BY <1>1, EmptySeq DEF QueuedOnce
<1>3. drain' \in [Drainer -> Drain] /\ \A d \in Drainer : drain'[d].at = "idle"
  BY <1>1 DEF NotDraining, Drain, Failure
<1>4. ask' \in [Asker -> Ask] /\ \A a \in Asker : ask'[a].at = "idle"
  BY <1>1 DEF NotAsking, Ask
<1> QED BY <1>1, <1>2, <1>3, <1>4 DEF Shape, TypeOK, HasWorld, OneAtATime, Busy

LEMMA ShapeInit == Init => Shape
<1> SUFFICES ASSUME Init PROVE Shape
  OBVIOUS
<1>1. pending \in Seq(Request) /\ QueuedOnce
  BY EmptySeq DEF Init, QueuedOnce
<1>2. drain \in [Drainer -> Drain] /\ \A d \in Drainer : drain[d].at = "idle"
  BY DEF Init, NotDraining, Drain, Failure
<1>3. ask \in [Asker -> Ask] /\ \A a \in Asker : ask[a].at = "idle"
  BY DEF Init, NotAsking, Ask
<1>4. /\ cache \in [World -> {"none", "fresh", "stale"}]
      /\ row \in [World -> Row] /\ told \subseteq World /\ restarts \in Nat
  BY DEF Init, Row
<1> QED BY <1>1, <1>2, <1>3, <1>4 DEF Shape, TypeOK, HasWorld, OneAtATime, Busy

LEMMA ShapeStep == Shape /\ [Next]_vars => Shape'
<1> SUFFICES ASSUME Shape, [Next]_vars PROVE Shape'
  OBVIOUS
<1>1. CASE UNCHANGED vars
  BY <1>1 DEF vars, Shape, TypeOK, HasWorld, QueuedOnce, OneAtATime, Busy
<1> QED BY <1>1, ShapeDrain, ShapeEnqueue, ShapePassing, ShapeRestart DEF Next, Passing

\* The queue holds a world once and only one thread is inside drain_once.
LEMMA ResolverShape == Spec => []Shape
BY ShapeInit, ShapeStep, PTL DEF Spec

\* Every variable keeps its type.
THEOREM ResolverTypeCorrect == Spec => []TypeOK
<1>1. Shape => TypeOK
  BY DEF Shape
<1> QED BY <1>1, ResolverShape, PTL

-----------------------------------------------------------------------------
(* What holds of rows and requests in flight                                *)

\* Between the test of the deadline and the end of a successful call.
Resolving == {"tenant", "fetch", "put", "ready"}

Quiet ==
  \A d \in Drainer : drain[d].at \in Resolving => row[drain[d].world].deadline # "ahead"

Written == \A d \in Drainer : drain[d].at = "ready" => cache[drain[d].world] # "none"

\* QuietInBackoff and ReadyIsCached made inductive.
RowInv == Quiet /\ Written /\ ReadyIsCached

\* Only the thread inside drain_once moves.
LEMMA OthersIdle ==
  ASSUME Shape, NEW d \in Drainer, DrainStep(d)
  PROVE  \A e \in Drainer : e # d => drain'[e] = drain[e] /\ ~Busy(e)
<1>1. \A e \in Drainer : e # d => drain'[e] = drain[e]
  BY DrainersMove DEF Shape, DrainMoves
<1>2. CASE DrainBegin(d)
  BY <1>1, <1>2 DEF DrainBegin, Busy
<1>3. CASE ~DrainBegin(d)
  <2>1. Busy(d)
    BY <1>3 DEF DrainStep, DrainCache, DrainState, DrainTenant, FetchServed,
       FetchFailed, DrainPut, DrainReady, DrainFinish, DrainPersist, Busy
  <2> QED BY <1>1, <2>1 DEF Shape, OneAtATime
<1> QED BY <1>2, <1>3

LEMMA RowDrain ==
  ASSUME Shape, RowInv, NEW d \in Drainer, DrainStep(d)
  PROVE  RowInv'
<1>1. \A e \in Drainer : e # d => drain'[e].at = "idle"
  BY OthersIdle DEF Busy
<1>2. /\ drain \in [Drainer -> Drain] /\ row \in [World -> Row]
      /\ cache \in [World -> {"none", "fresh", "stale"}]
      /\ Busy(d) => drain[d].world \in World
  BY DEF Shape, TypeOK, HasWorld
<1> SUFFICES /\ drain'[d].at \in Resolving => row'[drain'[d].world].deadline # "ahead"
             /\ drain'[d].at = "ready" => cache'[drain'[d].world] # "none"
             /\ ReadyIsCached'
  BY <1>1 DEF RowInv, Quiet, Written, Resolving
<1>3. CASE DrainBegin(d)
  <2>1. drain'[d].at = "cache" /\ UNCHANGED <<row, cache>>
    BY <1>2, <1>3 DEF DrainBegin, NotDraining
  <2> QED BY <2>1 DEF RowInv, ReadyIsCached, Resolving
<1>4. CASE DrainCache(d)
  <2>1. drain'[d].at \in {"done", "state"} /\ UNCHANGED <<row, cache>>
    BY <1>2, <1>4, StepUpdate DEF DrainCache, Labels
  <2> QED BY <2>1 DEF RowInv, ReadyIsCached, Resolving
<1>5. CASE DrainState(d)
  <2>1. CASE row[drain[d].world].deadline = "ahead"
    BY <1>2, <1>5, <2>1, StepUpdate DEF DrainState, Labels, RowInv,
       ReadyIsCached, Resolving
  <2>2. CASE row[drain[d].world].deadline # "ahead"
    BY <1>2, <1>5, <2>2, StepUpdate DEF DrainState, Labels, RowInv,
       ReadyIsCached, Resolving
  <2> QED BY <2>1, <2>2
<1>6. CASE DrainTenant(d) \/ FetchFailed(d)
  <2>1. /\ drain[d].at \in {"tenant", "fetch"}
        /\ drain'[d].at \in {"fetch", "giveup", "tenant"}
        /\ drain'[d].world = drain[d].world
        /\ UNCHANGED <<row, cache>>
    <3>1. CASE DrainTenant(d)
      BY <1>2, <3>1 DEF DrainTenant, Step, Drain
    <3>2. CASE FetchFailed(d)
      BY <1>2, <3>2 DEF FetchFailed, Drain
    <3> QED BY <1>6, <3>1, <3>2
  <2> QED BY <2>1 DEF RowInv, Quiet, ReadyIsCached, Resolving
<1>7. CASE FetchServed(d)
  BY <1>2, <1>7, StepUpdate DEF FetchServed, Labels, RowInv, Quiet,
     ReadyIsCached, Resolving
<1>8. CASE DrainPut(d)
  <2>1. drain'[d].at = "ready" /\ drain'[d].world = drain[d].world /\ row' = row
    BY <1>2, <1>8, StepUpdate DEF DrainPut, Labels
  <2>2. drain[d].world \in World
    BY <1>2, <1>8 DEF DrainPut, Busy
  <2>3. /\ cache'[drain[d].world] = "fresh"
        /\ \A w \in World : cache[w] # "none" => cache'[w] # "none"
    BY <1>2, <1>8, <2>2 DEF DrainPut
  <2> QED BY <1>8, <2>1, <2>3 DEF DrainPut, RowInv, Quiet, ReadyIsCached, Resolving
<1>9. CASE DrainReady(d)
  <2>1. drain'[d].at = "done" /\ cache' = cache
    BY <1>2, <1>9, StepUpdate DEF DrainReady, Labels
  <2>2. \A w \in World : row'[w].outcome = "ready" =>
          w = drain[d].world \/ row[w].outcome = "ready"
    BY <1>2, <1>9 DEF DrainReady
  <2> QED BY <1>9, <2>1, <2>2 DEF DrainReady, RowInv, Written, ReadyIsCached, Resolving
<1>10. CASE DrainFinish(d)
  <2>1. drain'[d].at \in {"idle", "persist"} /\ UNCHANGED <<row, cache>>
    <3>1. CASE drain[d].at = "done"
      BY <1>2, <1>10, <3>1, Return DEF DrainFinish
    <3>2. CASE drain[d].at # "done"
      BY <1>2, <1>10, <3>2, StepUpdate DEF DrainFinish, Labels
    <3> QED BY <1>10, <3>1, <3>2 DEF DrainFinish
  <2> QED BY <2>1 DEF RowInv, ReadyIsCached, Resolving
<1>11. CASE DrainPersist(d)
  <2>1. drain'[d].at = "idle" /\ cache' = cache
    BY <1>2, <1>11, Return DEF DrainPersist
  <2>2. \A w \in World : row'[w].outcome = "ready" => row[w].outcome = "ready"
    BY <1>2, <1>11 DEF DrainPersist, Row, Outcome
  <2> QED BY <2>1, <2>2 DEF RowInv, ReadyIsCached, Resolving
<1> QED
  BY <1>3, <1>4, <1>5, <1>6, <1>7, <1>8, <1>9, <1>10, <1>11 DEF DrainStep

LEMMA RowStep == Shape /\ RowInv /\ [Next]_vars => RowInv'
<1> SUFFICES ASSUME Shape, RowInv, [Next]_vars PROVE RowInv'
  OBVIOUS
<1>1. ASSUME NEW a \in Asker, Enqueue(a)
      PROVE  RowInv'
  <2>1. UNCHANGED <<cache, row, drain>>
    BY <1>1 DEF Enqueue, EnqueueBegin, EnqueueState, EnqueueAdd
  <2> QED BY <2>1 DEF RowInv, Quiet, Written, ReadyIsCached
<1>2. ASSUME NEW w \in World, CacheAges(w) \/ RetryAfterEnds(w) \/ DeadlinePasses(w)
      PROVE  RowInv'
  <2>1. /\ drain' = drain
        /\ \A d \in Drainer : Busy(d) => drain[d].world \in World
    BY <1>2 DEF CacheAges, RetryAfterEnds, DeadlinePasses, Shape, HasWorld
  <2>2. \A v \in World : /\ cache[v] # "none" => cache'[v] # "none"
                         /\ row'[v].outcome = row[v].outcome
                         /\ row'[v].deadline = "ahead" => row[v].deadline = "ahead"
    BY <1>2 DEF CacheAges, RetryAfterEnds, DeadlinePasses, Shape, TypeOK, Row
  <2> QED BY <2>1, <2>2 DEF RowInv, Quiet, Written, ReadyIsCached, Resolving, Busy
<1>3. CASE Restart
  BY <1>3 DEF Restart, RowInv, Quiet, Written, ReadyIsCached, NotDraining, Resolving
<1>4. CASE UNCHANGED vars
  BY <1>4 DEF vars, RowInv, Quiet, Written, ReadyIsCached
<1> QED BY RowDrain, <1>1, <1>2, <1>3, <1>4 DEF Next

LEMMA RowAlways == Spec => []RowInv
<1>1. Init => RowInv
  BY DEF Init, RowInv, Quiet, Written, ReadyIsCached, NotDraining, Resolving
<1> QED BY <1>1, RowStep, ResolverShape, PTL DEF Spec

\* No request for a world goes out while its stored deadline lies ahead.
THEOREM BackoffRespected == Spec => []QuietInBackoff
<1>1. RowInv => QuietInBackoff
  BY DEF RowInv, Quiet, QuietInBackoff, Resolving
<1> QED BY <1>1, RowAlways, PTL

\* A row that claims success has its metadata, across crashes.
THEOREM ReadyHasMetadata == Spec => []ReadyIsCached
<1>1. RowInv => ReadyIsCached
  BY DEF RowInv
<1> QED BY <1>1, RowAlways, PTL

-----------------------------------------------------------------------------
(* Requests in flight                                                       *)

Holding == {"cache", "state", "tenant", "fetch", "put", "ready", "done", "giveup"}

LEMMA HoldingIsBusy ==
  ASSUME TypeOK, NEW d \in Drainer
  PROVE  drain[d].at \notin {"idle", "persist"} <=> drain[d].at \in Holding
BY DEF TypeOK, Drain, Holding

LEMMA FlightDrain ==
  ASSUME Shape, FlightHasDrainer, NEW d \in Drainer, DrainStep(d)
  PROVE  FlightHasDrainer'
<1>1. \A e \in Drainer : e # d => drain'[e] = drain[e] /\ ~Busy(e)
  BY OthersIdle
<1>2. drain \in [Drainer -> Drain]
  BY DEF Shape, TypeOK
<1>3. \A i \in DOMAIN pending : pending[i].inflight =>
        drain[d].at \notin {"idle", "persist"} /\ drain[d].world = pending[i].world
  BY <1>1 DEF FlightHasDrainer, Busy
<1>4. CASE DrainBegin(d)
  <2>1. PICK k \in DOMAIN pending :
          /\ drain' = [drain EXCEPT ![d] =
               [NotDraining EXCEPT !.at = "cache", !.world = pending[k].world]]
          /\ DOMAIN pending' = DOMAIN pending
          /\ \A i \in DOMAIN pending :
               /\ pending'[i].world = pending[i].world
               /\ pending'[i].inflight => i = k \/ pending[i].inflight
    BY <1>4, ShapeOfQueue, BeginQueue
  <2>2. drain'[d].at = "cache" /\ drain'[d].world = pending[k].world
    BY <1>2, <2>1 DEF NotDraining
  <2>3. \A i \in DOMAIN pending : ~pending[i].inflight
    BY <1>3, <1>4 DEF DrainBegin
  <2> QED BY <2>1, <2>2, <2>3 DEF FlightHasDrainer
<1>5. CASE DrainFinish(d)
  <2>1. \A i \in DOMAIN pending' :
          /\ pending'[i].world # drain[d].world
          /\ \E j \in DOMAIN pending : pending'[i] = pending[j]
    BY <1>5, ShapeOfQueue, PopQueue DEF DrainFinish
  <2>2. \A i \in DOMAIN pending' : ~pending'[i].inflight
    BY <1>3, <2>1
  <2> QED BY <2>2 DEF FlightHasDrainer
<1>6. CASE DrainPersist(d)
  <2>1. \A i \in DOMAIN pending : ~pending[i].inflight
    BY <1>3, <1>6 DEF DrainPersist
  <2> QED BY <1>6, <2>1 DEF DrainPersist, FlightHasDrainer
<1>7. CASE \/ DrainCache(d) \/ DrainState(d) \/ DrainTenant(d) \/ FetchServed(d)
           \/ FetchFailed(d) \/ DrainPut(d) \/ DrainReady(d)
  <2>1. /\ pending' = pending
        /\ drain'[d].at \in Holding
        /\ drain'[d].world = drain[d].world
    <3>1. CASE DrainTenant(d)
      BY <1>2, <3>1 DEF DrainTenant, Step, Drain, Holding
    <3>2. CASE FetchFailed(d)
      BY <1>2, <3>2 DEF FetchFailed, Drain, Holding
    <3>3. CASE DrainCache(d)
      BY <1>2, <3>3, StepUpdate DEF DrainCache, Labels, Holding
    <3>4. CASE DrainState(d)
      BY <1>2, <3>4, StepUpdate DEF DrainState, Labels, Holding
    <3>5. CASE FetchServed(d) \/ DrainPut(d) \/ DrainReady(d)
      BY <1>2, <3>5, StepUpdate DEF FetchServed, DrainPut, DrainReady, Labels, Holding
    <3> QED BY <1>7, <3>1, <3>2, <3>3, <3>4, <3>5
  <2> QED BY <1>3, <2>1 DEF FlightHasDrainer, Holding
<1> QED BY <1>4, <1>5, <1>6, <1>7 DEF DrainStep

\* A request never stays in flight without a thread to finish it.
THEOREM FlightsAreDrained == Spec => []FlightHasDrainer
<1>1. Init => FlightHasDrainer
  BY DEF Init, FlightHasDrainer
<1>2. Shape /\ FlightHasDrainer /\ [Next]_vars => FlightHasDrainer'
  <2> SUFFICES ASSUME Shape, FlightHasDrainer, [Next]_vars PROVE FlightHasDrainer'
    OBVIOUS
  <2>1. ASSUME NEW a \in Asker, Enqueue(a)
        PROVE  FlightHasDrainer'
    <3>1. drain' = drain
      BY <2>1 DEF Enqueue, EnqueueBegin, EnqueueState, EnqueueAdd
    <3>2. CASE EnqueueAdd(a)
      <4>1. \A i \in DOMAIN pending' : pending'[i].inflight =>
              /\ i \in DOMAIN pending /\ pending[i].inflight
              /\ pending'[i].world = pending[i].world
        BY <3>2, ShapeOfQueue, AddQueue
      <4> QED BY <3>1, <4>1 DEF FlightHasDrainer
    <3>3. CASE ~EnqueueAdd(a)
      BY <2>1, <3>1, <3>3 DEF Enqueue, EnqueueBegin, EnqueueState, FlightHasDrainer
    <3> QED BY <3>2, <3>3
  <2>2. CASE Passing
    BY <2>2 DEF Passing, CacheAges, RetryAfterEnds, DeadlinePasses, FlightHasDrainer
  <2>3. CASE Restart
    BY <2>3 DEF Restart, FlightHasDrainer
  <2>4. CASE UNCHANGED vars
    BY <2>4 DEF vars, FlightHasDrainer
  <2> QED BY FlightDrain, <2>1, <2>2, <2>3, <2>4 DEF Next, Passing
<1> QED BY <1>1, <1>2, ResolverShape, PTL DEF Spec

-----------------------------------------------------------------------------
(* Retry-After, in a process that is not restarted                          *)

\* The row puts the world off for at least as long as VRChat does.
Limited(r) == r.deadline = "ahead" /\ r.outcome = "limited"

\* The drainer has a 429 for the world, and has not written its deadline.
Bringing(r, w) == r.at \in {"giveup", "persist"} /\ r.world = w /\ r.error = "429"

\* A world VRChat has put off is on its way to a deadline, or has one.
ToldIsKept ==
  \A w \in told : Limited(row[w]) \/ \E d \in Drainer : Bringing(drain[d], w)

\* The drainer is about to ask, or was answered something other than 429.
NotPutOff(r) ==
  r.at \in Resolving \/ (r.at \in {"giveup", "persist"} /\ r.error # "429")

\* RetryAfterHonoured made inductive.
ToldInv ==
  /\ ToldIsKept
  /\ \A d \in Drainer : NotPutOff(drain[d]) => drain[d].world \notin told

LEMMA ToldDrain ==
  ASSUME Shape, RowInv, ToldInv, NEW d \in Drainer, DrainStep(d)
  PROVE  ToldInv'
<1>1. \A e \in Drainer : e # d => drain'[e] = drain[e] /\ ~Busy(e)
  BY OthersIdle
<1>2. /\ drain \in [Drainer -> Drain] /\ row \in [World -> Row]
      /\ Busy(d) => drain[d].world \in World
      /\ told \subseteq World
  BY DEF Shape, TypeOK, HasWorld
<1>3. \A w \in told : Limited(row[w]) \/ Bringing(drain[d], w)
  BY <1>1 DEF ToldInv, ToldIsKept, Busy, Bringing
<1> SUFFICES /\ \A w \in told' : Limited(row'[w]) \/ Bringing(drain'[d], w)
             /\ NotPutOff(drain'[d]) => drain'[d].world \notin told'
  BY <1>1 DEF ToldInv, ToldIsKept, Busy, Resolving, NotPutOff
<1>4. CASE DrainBegin(d)
  <2>1. drain'[d].at = "cache" /\ UNCHANGED <<row, told>>
    BY <1>2, <1>4 DEF DrainBegin, NotDraining
  <2>2. drain[d].at = "idle"
    BY <1>4 DEF DrainBegin
  <2> QED BY <1>3, <2>1, <2>2
    DEF ToldInv, Resolving, Bringing, Limited, NotPutOff
<1>5. CASE DrainCache(d)
  <2>1. drain'[d].at \in {"done", "state"} /\ drain[d].at = "cache" /\ UNCHANGED <<row, told>>
    BY <1>2, <1>5, StepUpdate DEF DrainCache, Labels
  <2> QED BY <1>3, <2>1 DEF ToldInv, Resolving, Bringing, Limited, NotPutOff
<1>6. CASE DrainState(d)
  <2>1. /\ UNCHANGED <<row, told>> /\ drain[d].at = "state"
        /\ drain'[d].world = drain[d].world
        /\ \/ drain'[d].at = "done"
           \/ drain'[d].at = "tenant" /\ row[drain[d].world].deadline # "ahead"
    BY <1>2, <1>6, StepUpdate DEF DrainState, Labels
  <2> QED BY <1>3, <2>1 DEF ToldInv, Resolving, Bringing, Limited, NotPutOff
<1>7. CASE DrainTenant(d)
  <2>1. /\ drain[d].at = "tenant" /\ drain'[d].at \in {"fetch", "giveup"}
        /\ drain'[d].world = drain[d].world
        /\ UNCHANGED <<row, told>>
    BY <1>2, <1>7 DEF DrainTenant, Step, Drain
  <2> QED BY <1>3, <2>1 DEF ToldInv, Resolving, Bringing, Limited, NotPutOff
<1>8. CASE FetchServed(d)
  <2>1. /\ drain[d].at = "fetch" /\ drain'[d].at = "put"
        /\ drain'[d].world = drain[d].world
        /\ UNCHANGED <<row, told>>
    BY <1>2, <1>8, StepUpdate DEF FetchServed, Labels
  <2> QED BY <1>3, <2>1 DEF ToldInv, Resolving, Bringing, Limited, NotPutOff
<1>9. CASE FetchFailed(d)
  <2>1. /\ drain[d].at = "fetch" /\ row' = row
        /\ drain'[d].world = drain[d].world
        /\ \/ drain'[d].at = "tenant" /\ told' = told
           \/ drain'[d].at = "giveup" /\ told' = told
           \/ /\ drain'[d].at = "giveup" /\ drain'[d].error = "429"
              /\ told' = told \cup {drain[d].world}
    BY <1>2, <1>9 DEF FetchFailed, Drain
  <2> QED BY <1>3, <2>1 DEF ToldInv, Resolving, Bringing, Limited, NotPutOff
<1>10. CASE DrainPut(d)
  <2>1. /\ drain[d].at = "put" /\ drain'[d].at = "ready"
        /\ drain'[d].world = drain[d].world
        /\ UNCHANGED <<row, told>>
    BY <1>2, <1>10, StepUpdate DEF DrainPut, Labels
  <2> QED BY <1>3, <2>1 DEF ToldInv, Resolving, Bringing, Limited, NotPutOff
<1>11. CASE DrainReady(d)
  <2>1. drain[d].at = "ready" /\ drain'[d].at = "done" /\ told' = told
    BY <1>2, <1>11, StepUpdate DEF DrainReady, Labels
  <2>2. drain[d].world \notin told
    BY <2>1 DEF ToldInv, Resolving, Bringing, Limited, NotPutOff
  <2>3. \A w \in told : row'[w] = row[w]
    BY <1>2, <1>11, <2>2 DEF DrainReady
  <2> QED BY <1>3, <2>1, <2>3 DEF Resolving, Bringing, Limited, NotPutOff
<1>12. CASE DrainFinish(d)
  <2>1. /\ UNCHANGED <<row, told>>
        /\ \/ drain[d].at = "done" /\ drain'[d].at = "idle"
           \/ drain[d].at = "giveup" /\ drain'[d].at = "persist"
              /\ drain'[d].world = drain[d].world
              /\ drain'[d].error = drain[d].error
    <3>1. CASE drain[d].at = "done"
      BY <1>2, <1>12, <3>1, Return DEF DrainFinish
    <3>2. CASE drain[d].at # "done"
      BY <1>2, <1>12, <3>2, StepUpdate DEF DrainFinish, Labels
    <3> QED BY <3>1, <3>2
  <2> QED BY <1>3, <2>1 DEF ToldInv, Resolving, Bringing, Limited, NotPutOff
<1>13. CASE DrainPersist(d)
  <2>1. drain[d].at = "persist" /\ drain'[d].at = "idle" /\ told' = told
    BY <1>2, <1>13, Return DEF DrainPersist
  <2>2. \A w \in World : \/ Limited(row'[w])
                         \/ drain[d].error # "429" /\ w = drain[d].world
                         \/ w # drain[d].world /\ row'[w] = row[w]
    BY <1>2, <1>13 DEF DrainPersist, Outcome, Limited
  <2> QED BY <1>2, <1>3, <2>1, <2>2
    DEF ToldInv, Resolving, Bringing, Limited, NotPutOff
<1> QED
  BY <1>4, <1>5, <1>6, <1>7, <1>8, <1>9, <1>10, <1>11, <1>12, <1>13 DEF DrainStep

\* Until the process is restarted, no request goes out before VRChat's
\* Retry-After ends.
THEOREM RetryAfterRespected == Spec => []RetryAfterHonoured
<1> DEFINE Inv == restarts = 0 => ToldInv
<1>1. Init => Inv
  BY DEF Init, ToldInv, ToldIsKept, NotDraining, Resolving, NotPutOff
<1>2. Shape /\ RowInv /\ Inv /\ [Next]_vars => Inv'
  <2> SUFFICES ASSUME Shape, RowInv, Inv, [Next]_vars PROVE Inv'
    OBVIOUS
  <2>1. ASSUME NEW d \in Drainer, DrainStep(d)
        PROVE  Inv'
    BY <2>1, ToldDrain, RowsTyped DEF Shape
  <2>2. ASSUME NEW a \in Asker, Enqueue(a)
        PROVE  Inv'
    BY <2>2 DEF Enqueue, EnqueueBegin, EnqueueState, EnqueueAdd, ToldInv, ToldIsKept
  <2>3. ASSUME NEW w \in World, CacheAges(w) \/ RetryAfterEnds(w)
        PROVE  Inv'
    BY <2>3 DEF CacheAges, RetryAfterEnds, ToldInv, ToldIsKept
  <2>4. ASSUME NEW w \in World, DeadlinePasses(w)
        PROVE  Inv'
    <3>1. \A v \in told : Limited(row[v]) => row'[v] = row[v]
      BY <2>4 DEF DeadlinePasses, Limited, Shape, TypeOK
    <3> QED BY <2>4, <3>1 DEF DeadlinePasses, ToldInv, ToldIsKept
  <2>5. CASE Restart
    BY <2>5 DEF Restart, Shape, TypeOK
  <2>6. CASE UNCHANGED vars
    BY <2>6 DEF vars, ToldInv, ToldIsKept
  <2> QED BY <2>1, <2>2, <2>3, <2>4, <2>5, <2>6 DEF Next
<1>3. Inv => RetryAfterHonoured
  BY DEF ToldInv, RetryAfterHonoured, Resolving, NotPutOff
<1> QED BY <1>1, <1>2, <1>3, ResolverShape, RowAlways, PTL DEF Spec

=============================================================================
