----------------------------- MODULE WorldResolver -----------------------------
(***************************************************************************)
(* The background resolver of world metadata (server/worlds.py): request   *)
(* handlers and the collector enqueue worlds they met, and drain_once asks *)
(* VRChat for one world at a time, through one tenant's session after the  *)
(* other, and writes the metadata or a retry deadline.                     *)
(*                                                                         *)
(* Three locks are involved: _drain_lock around all of drain_once, lock    *)
(* around the queue, store.lock around each read or write of a row.  A     *)
(* step is one region of the last two, or one request to VRChat.  What a   *)
(* session answers is the environment's choice; HostedSession models the   *)
(* session behind it.  Time is abstracted to deadlines ahead and past, the *)
(* number of attempts (it only lengthens a delay) and the pacing between   *)
(* requests are left out.                                                  *)
(***************************************************************************)
EXTENDS Naturals, Sequences, SequencesExt

CONSTANTS
  World,        \* world ids
  Tenant,       \* tenants whose sessions may be used
  Drainer,      \* threads that call drain_once
  Asker,        \* threads that call enqueue
  NoWorld,
  NoTenant,
  MaxRestarts   \* bound: restarts of the server process

ASSUME NamesAssumption ==
  /\ NoWorld \notin World
  /\ NoTenant \notin Tenant
  /\ MaxRestarts \in Nat

VARIABLES
  cache,      \* world_cache by world: no row, a row, or one older than a day
  row,        \* world_resolution_state by world: outcome and retry_at
  pending,    \* _pending, in insertion order
  drain,      \* where each drainer is, and its local variables
  ask,        \* where each enqueue call is, and its arguments
  told,       \* worlds whose last 429 still forbids a request, as VRChat sees it
  restarts

vars == <<cache, row, pending, drain, ask, told, restarts>>

\* "limited" is outcome 'retry' with error_category 'rate_limited'.
Row == [outcome : {"none", "ready", "retry", "limited", "unavailable"},
        deadline : {"none", "ahead", "past"}]
Request == [world : World, tenants : SUBSET Tenant, inflight : BOOLEAN]
Failure == {"none", "401", "404", "429", "other"}
Drain == [at : {"idle", "cache", "state", "tenant", "fetch", "put", "ready",
                "done", "giveup", "persist"},
          world : World \cup {NoWorld}, tried : SUBSET Tenant, error : Failure]
Ask == [at : {"idle", "state", "add"}, world : World \cup {NoWorld},
        tenant : Tenant \cup {NoTenant}]

NotDraining == [at |-> "idle", world |-> NoWorld, tried |-> {}, error |-> "none"]
NotAsking == [at |-> "idle", world |-> NoWorld, tenant |-> NoTenant]

Init ==
  /\ cache = [w \in World |-> "none"]
  /\ row = [w \in World |-> [outcome |-> "none", deadline |-> "none"]]
  /\ pending = <<>>
  /\ drain = [d \in Drainer |-> NotDraining]
  /\ ask = [a \in Asker |-> NotAsking]
  /\ told = {}
  /\ restarts = 0

-----------------------------------------------------------------------------
(* enqueue                                                                  *)

\* A positive cache answer ends the call.
EnqueueBegin(a) ==
  /\ ask[a].at = "idle"
  /\ \E w \in World, t \in Tenant :
       /\ cache[w] # "fresh"
       /\ ask' = [ask EXCEPT ![a] = [at |-> "state", world |-> w, tenant |-> t]]
  /\ UNCHANGED <<cache, row, pending, drain, told, restarts>>

\* So does a retry deadline that lies ahead.
EnqueueState(a) ==
  /\ ask[a].at = "state"
  /\ ask' = [ask EXCEPT ![a] = IF row[ask[a].world].deadline = "ahead"
                               THEN NotAsking ELSE [@ EXCEPT !.at = "add"]]
  /\ UNCHANGED <<cache, row, pending, drain, told, restarts>>

\* The world is queued once; a tenant joins the request, in flight or not.
EnqueueAdd(a) ==
  LET w == ask[a].world
      t == ask[a].tenant
  IN
  /\ ask[a].at = "add"
  /\ pending' =
       IF \E i \in DOMAIN pending : pending[i].world = w
       THEN [i \in DOMAIN pending |->
               IF pending[i].world = w
               THEN [pending[i] EXCEPT !.tenants = @ \cup {t}] ELSE pending[i]]
       ELSE Append(pending, [world |-> w, tenants |-> {t}, inflight |-> FALSE])
  /\ ask' = [ask EXCEPT ![a] = NotAsking]
  /\ UNCHANGED <<cache, row, drain, told, restarts>>

-----------------------------------------------------------------------------
(* drain_once                                                               *)

Step(d, label) == drain' = [drain EXCEPT ![d].at = label]

\* Mutant: the newest request first.
BeginNewest(d) ==
  /\ \A e \in Drainer : drain[e].at = "idle"
  /\ \E i \in DOMAIN pending :
       /\ ~pending[i].inflight
       /\ \A j \in DOMAIN pending : j > i => pending[j].inflight
       /\ pending' = [pending EXCEPT ![i].inflight = TRUE]
       /\ drain' = [drain EXCEPT ![d] =
            [NotDraining EXCEPT !.at = "cache", !.world = pending[i].world]]
  /\ UNCHANGED <<cache, row, ask, told, restarts>>

\* _drain_lock is free; the first request that is not in flight is taken up.
DrainBegin(d) ==
  /\ \A e \in Drainer : drain[e].at = "idle"
  /\ \E i \in DOMAIN pending :
       /\ ~pending[i].inflight
       /\ \A j \in 1..(i - 1) : pending[j].inflight
       /\ pending' = [pending EXCEPT ![i].inflight = TRUE]
       /\ drain' = [drain EXCEPT ![d] =
            [NotDraining EXCEPT !.at = "cache", !.world = pending[i].world]]
  /\ UNCHANGED <<cache, row, ask, told, restarts>>

\* The world may have been cached since it was queued.
DrainCache(d) ==
  /\ drain[d].at = "cache"
  /\ Step(d, IF cache[drain[d].world] = "fresh" THEN "done" ELSE "state")
  /\ UNCHANGED <<cache, row, pending, ask, told, restarts>>

\* Mutant: the deadline that enqueue looked at is not looked at again.
StateTrusted(d) ==
  /\ drain[d].at = "state"
  /\ Step(d, "tenant")
  /\ UNCHANGED <<cache, row, pending, ask, told, restarts>>

\* It may have been put off since.
DrainState(d) ==
  /\ drain[d].at = "state"
  /\ Step(d, IF row[drain[d].world].deadline = "ahead" THEN "done" ELSE "tenant")
  /\ UNCHANGED <<cache, row, pending, ask, told, restarts>>

\* _next_tenant: one whose session has not been tried, while there is one.
DrainTenant(d) ==
  /\ drain[d].at = "tenant"
  /\ \/ \E i \in DOMAIN pending :
          /\ pending[i].world = drain[d].world
          /\ \E t \in pending[i].tenants \ drain[d].tried :
               drain' = [drain EXCEPT ![d].at = "fetch", ![d].tried = @ \cup {t}]
     \/ /\ \A i \in DOMAIN pending :
             pending[i].world = drain[d].world => pending[i].tenants \subseteq drain[d].tried
        /\ Step(d, "giveup")
  /\ UNCHANGED <<cache, row, pending, ask, told, restarts>>

\* VRChat served the world.
FetchServed(d) ==
  /\ drain[d].at = "fetch"
  /\ Step(d, "put")
  /\ UNCHANGED <<cache, row, pending, ask, told, restarts>>

\* fetch_world raised: 401 goes on to the next tenant, the rest gives up.
FetchFailed(d) ==
  /\ drain[d].at = "fetch"
  /\ \E e \in Failure \ {"none"} :
       /\ drain' = [drain EXCEPT ![d].at = IF e = "401" THEN "tenant" ELSE "giveup",
                                 ![d].error = e]
       /\ told' = IF e = "429" THEN told \cup {drain[d].world} ELSE told
  /\ UNCHANGED <<cache, row, pending, ask, restarts>>

\* Mutant: the row says "ready" before the metadata is written.
PutAfterState(d) ==
  /\ drain[d].at = "put"
  /\ row' = [row EXCEPT ![drain[d].world] = [outcome |-> "ready", deadline |-> "none"]]
  /\ Step(d, "ready")
  /\ UNCHANGED <<cache, pending, ask, told, restarts>>

\* world_cache_put
DrainPut(d) ==
  /\ drain[d].at = "put"
  /\ cache' = [cache EXCEPT ![drain[d].world] = "fresh"]
  /\ Step(d, "ready")
  /\ UNCHANGED <<row, pending, ask, told, restarts>>

\* The row is reset.
DrainReady(d) ==
  /\ drain[d].at = "ready"
  /\ row' = [row EXCEPT ![drain[d].world] = [outcome |-> "ready", deadline |-> "none"]]
  /\ Step(d, "done")
  /\ UNCHANGED <<cache, pending, ask, told, restarts>>

\* _pending.pop(world_id, None)
Pop(w) ==
  \/ \E i \in DOMAIN pending :
       pending[i].world = w /\ pending' = RemoveAt(pending, i)
  \/ (\A i \in DOMAIN pending : pending[i].world # w) /\ UNCHANGED pending

\* Mutant: a failed request stays in the queue, in flight.
FinishOnlyServed(d) ==
  /\ drain[d].at \in {"done", "giveup"}
  /\ IF drain[d].at = "done"
     THEN Pop(drain[d].world) /\ drain' = [drain EXCEPT ![d] = NotDraining]
     ELSE Step(d, "persist") /\ UNCHANGED pending
  /\ UNCHANGED <<cache, row, ask, told, restarts>>

\* _finish_request: the request leaves the queue with every tenant that joined
\* it, before a failure has written its deadline.
DrainFinish(d) ==
  /\ drain[d].at \in {"done", "giveup"}
  /\ Pop(drain[d].world)
  /\ IF drain[d].at = "done"
     THEN drain' = [drain EXCEPT ![d] = NotDraining]
     ELSE Step(d, "persist")
  /\ UNCHANGED <<cache, row, ask, told, restarts>>

\* The outcome of a request that failed with e, and its error category.
Outcome(e) ==
  IF e = "404" THEN "unavailable" ELSE IF e = "429" THEN "limited" ELSE "retry"

\* The deadline lies at least as far ahead as Retry-After asks.
DrainPersist(d) ==
  /\ drain[d].at = "persist"
  /\ row' = [row EXCEPT ![drain[d].world] =
       [outcome |-> Outcome(drain[d].error), deadline |-> "ahead"]]
  /\ drain' = [drain EXCEPT ![d] = NotDraining]
  /\ UNCHANGED <<cache, pending, ask, told, restarts>>

-----------------------------------------------------------------------------
(* Time and the process                                                     *)

\* A day goes by.
CacheAges(w) ==
  /\ cache[w] = "fresh"
  /\ cache' = [cache EXCEPT ![w] = "stale"]
  /\ UNCHANGED <<row, pending, drain, ask, told, restarts>>

\* The interval VRChat asked for ends.
RetryAfterEnds(w) ==
  /\ w \in told
  /\ told' = told \ {w}
  /\ UNCHANGED <<cache, row, pending, drain, ask, restarts>>

\* Mutant: the delay is the exponential backoff, whatever Retry-After said.
DeadlineIgnoresRetryAfter(w) ==
  /\ row[w].deadline = "ahead"
  /\ row' = [row EXCEPT ![w].deadline = "past"]
  /\ UNCHANGED <<cache, pending, drain, ask, told, restarts>>

\* retry_at comes.  After a 429 the delay is the maximum of Retry-After and the
\* backoff, from a later start, so the interval VRChat asked for has ended.
DeadlinePasses(w) ==
  /\ row[w].deadline = "ahead"
  /\ ~(row[w].outcome = "limited" /\ w \in told)
  /\ row' = [row EXCEPT ![w].deadline = "past"]
  /\ UNCHANGED <<cache, pending, drain, ask, told, restarts>>

\* The process ends and starts again: rows survive, the queue does not.
Restart ==
  /\ restarts < MaxRestarts
  /\ restarts' = restarts + 1
  /\ pending' = <<>>
  /\ drain' = [d \in Drainer |-> NotDraining]
  /\ ask' = [a \in Asker |-> NotAsking]
  /\ UNCHANGED <<cache, row, told>>

-----------------------------------------------------------------------------

Enqueue(a) == EnqueueBegin(a) \/ EnqueueState(a) \/ EnqueueAdd(a)

DrainStep(d) ==
  \/ DrainBegin(d) \/ DrainCache(d) \/ DrainState(d) \/ DrainTenant(d)
  \/ FetchServed(d) \/ FetchFailed(d)
  \/ DrainPut(d) \/ DrainReady(d) \/ DrainFinish(d) \/ DrainPersist(d)

Next ==
  \/ \E a \in Asker : Enqueue(a)
  \/ \E d \in Drainer : DrainStep(d)
  \/ \E w \in World : CacheAges(w) \/ RetryAfterEnds(w) \/ DeadlinePasses(w)
  \/ Restart

Spec == Init /\ [][Next]_vars

\* The resolver's thread calls drain_once again and again, a request to VRChat
\* times out, and a thread that has begun an iteration finishes it.
Fairness == WF_vars(\E d \in Drainer : DrainStep(d))

FairSpec == Spec /\ Fairness

-----------------------------------------------------------------------------

TypeOK ==
  /\ cache \in [World -> {"none", "fresh", "stale"}]
  /\ row \in [World -> Row]
  /\ pending \in Seq(Request)
  /\ drain \in [Drainer -> Drain]
  /\ ask \in [Asker -> Ask]
  /\ told \subseteq World
  /\ restarts \in Nat

\* No request goes out for a world whose stored deadline lies ahead.  enqueue
\* and drain_once both test it before they act, and _finish_request lets a new
\* request in before the old one's deadline is written.
QuietInBackoff ==
  \A d \in Drainer : drain[d].at = "fetch" => row[drain[d].world].deadline # "ahead"

\* Nor while VRChat's own Retry-After runs, until the process is restarted.
RetryAfterHonoured ==
  restarts = 0 =>
    \A d \in Drainer : drain[d].at = "fetch" => drain[d].world \notin told

\* A request in flight has a drainer that will finish it: none is stuck in the
\* queue, where it would keep its world from being asked for again.
FlightHasDrainer ==
  \A i \in DOMAIN pending : pending[i].inflight =>
    \E d \in Drainer : /\ drain[d].at \notin {"idle", "persist"}
                       /\ drain[d].world = pending[i].world

\* A row that says "ready" has its metadata, wherever the process died.
ReadyIsCached == \A w \in World : row[w].outcome = "ready" => cache[w] # "none"

\* What is queued is taken up and leaves the queue, though others keep asking.
QueueMoves ==
  \A w \in World :
    (\E i \in DOMAIN pending : pending[i].world = w) ~>
      (\A i \in DOMAIN pending : pending[i].world # w)

=============================================================================
