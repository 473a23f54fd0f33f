--------------------------- MODULE PresenceIngest ---------------------------
(***************************************************************************)
(* What one tenant's running session does with what VRChat tells it.  Two  *)
(* threads feed the store: the poll (_sync in server/hosted_collector.py)  *)
(* fetches the friend list page by page and commits a complete snapshot    *)
(* (Store.ingest_authoritative_snapshot), the pipeline listener applies    *)
(* one event at a time (Store.ingest).  Each takes its time stamp before   *)
(* it waits for store.lock, so stamps and commits may disagree in order.   *)
(*                                                                         *)
(* A friend's status, location and platform are one presence.  Times are   *)
(* readings of one clock that advances with every reading.  That there is  *)
(* one session, and that a superseded one stores nothing, is the subject   *)
(* of HostedSession; here the session is the current one throughout.       *)
(***************************************************************************)
EXTENDS Integers, Sequences, FiniteSets

CONSTANTS
  Friend,       \* VRChat user ids
  Online,       \* presences other than offline
  Category,     \* error categories of a failed poll
  Skews,        \* how far an event's own timestamp is ahead of this clock
  Grace,        \* the five minutes an event may be ahead
  EventLimit,   \* Store.event_limit
  MaxWire,      \* bound: events on their way
  MaxClock      \* bound: readings of the clock

Offline == "offline"
Unknown == "unknown"    \* old_status of a person never seen before
Silent == "silent"      \* an event that says nothing about presence
Absent == "absent"      \* not in VRChat's friend list
Presence == Online \cup {Offline}

ASSUME ParameterAssumption ==
  /\ IsFiniteSet(Friend)
  /\ Online \cap {Offline, Unknown, Silent, Absent} = {}
  /\ "network" \in Category /\ "success" \notin Category
  /\ Skews \subseteq Nat
  /\ Grace \in Nat /\ EventLimit \in Nat /\ MaxWire \in Nat /\ MaxClock \in Nat

VARIABLES
  truth,      \* VRChat: each friend's presence, or Absent
  wire,       \* VRChat: events sent to the listener and not yet received
  clock,      \* last reading of the clock
  listener,   \* the event a listener has stamped and not yet stored
  poll,       \* the poll in progress
  rows,       \* table friends
  history,    \* table status_events
  tracking,   \* table friend_tracking_events
  samples,    \* table collection_samples
  usage,      \* the row of portable_backup_usage
  calm,       \* history variable: VRChat has been quiet since this poll began
  settled     \* history variable: a calm poll committed, no change since

tables == <<rows, history, tracking, samples, usage>>
ghosts == <<calm, settled>>
vars == <<truth, wire, clock, listener, poll, rows, history, tracking,
          samples, usage, calm, settled>>

NoRow == [presence |-> Unknown, changed |-> 0, at |-> 0]
Row == [presence : Presence, changed : Nat, at : Nat]
Event == [friend : Friend, old : Presence \cup {Unknown}, new : Presence, at : Nat]
Edge == [friend : Friend, tracked : BOOLEAN, at : Nat]
\* The code stores the number of friends; the set stands for it.
Sample == [outcome : Category \cup {"success"}, friends : SUBSET Friend, at : Nat]
\* own is the event's own timestamp, 0 when it has none.
Message == [friend : Friend, says : Presence \cup {Silent}, own : Nat]

\* What an event says is stored under the stamp it got when it was received.
Received == [friend : Friend, says : Presence \cup {Silent}, at : Nat]
Idle == [friend |-> Absent, says |-> Silent, at |-> 0]

\* stayed, which no code reads, is the set of friends VRChat has listed from
\* the poll's first page on.
NotPolling == [pc |-> "idle", got |-> <<>>, stayed |-> {}, at |-> 0]
Poll == [pc : {"idle", "online", "fetched", "stamped"},
         got : UNION {[S -> Presence] : S \in SUBSET Friend},
         stayed : SUBSET Friend, at : Nat]

Init ==
  /\ truth \in [Friend -> Presence \cup {Absent}]
  /\ wire = <<>>
  /\ clock = 0
  /\ listener = Idle
  /\ poll = NotPolling
  /\ rows = [f \in Friend |-> NoRow]
  /\ history = {} /\ tracking = {} /\ samples = {}
  /\ usage = [friends |-> 0, bytes |-> 0, events |-> 0]
  /\ calm = FALSE /\ settled = FALSE

\* A reading of the clock: no two are equal.
ReadClock == clock < MaxClock /\ clock' = clock + 1

-----------------------------------------------------------------------------
(* The store                                                                *)

\* _normalize_friend: what is not said is taken from the stored row.
Normalized(f, says, at) ==
  LET old == rows[f]
      presence == IF says # Silent THEN says
                  ELSE IF old = NoRow THEN Offline ELSE old.presence
  IN [presence |-> presence, at |-> at,
      changed |-> IF presence # old.presence THEN at ELSE old.changed]

\* Mutant of Transition: the first sight of a person is not recorded.
TransitionOfKnown(f, new) ==
  IF rows[f] = NoRow \/ new.presence = rows[f].presence THEN {}
  ELSE {[friend |-> f, old |-> rows[f].presence, new |-> new.presence, at |-> new.at]}

\* _transition_event: an event if the record differs from the stored row.
Transition(f, new) ==
  IF new.presence = rows[f].presence THEN {}
  ELSE {[friend |-> f, old |-> rows[f].presence, new |-> new.presence, at |-> new.at]}

Batch(says, at) == [f \in DOMAIN says |-> Normalized(f, says[f], at)]
Transitions(batch) == UNION {Transition(f, batch[f]) : f \in DOMAIN batch}

\* Mutant of Accepted: the upsert has no condition.
AcceptedAlways(batch) == DOMAIN batch

\* The upsert's condition: excluded.updated_at >= friends.updated_at.
Accepted(batch) == {f \in DOMAIN batch : rows[f] = NoRow \/ batch[f].at >= rows[f].at}

\* Bytes of an exported row: an offline one has no location to tell.
Bytes(row) == CASE row = NoRow -> 0 [] row.presence = Offline -> 1 [] OTHER -> 2

\* The bytes of some rows of a table, one by one, and their number.
Stock(table, S) == {u \in S \X (1..2) : u[2] <= Bytes(table[u[1]])}
Size(table, S) == Cardinality(Stock(table, S))

\* Mutant of Usage: refused rows are counted too.
UsageOfBatch(batch, accepted, new) ==
  [friends |-> usage.friends + Cardinality({f \in accepted : rows[f] = NoRow}),
   bytes |-> usage.bytes + Size(batch, DOMAIN batch) - Size(rows, DOMAIN batch),
   events |-> usage.events + Cardinality(new)]

\* portable_backup_usage, carried along instead of being counted again.
Usage(batch, accepted, new) ==
  [friends |-> usage.friends + Cardinality({f \in accepted : rows[f] = NoRow}),
   bytes |-> usage.bytes + Size(batch, accepted) - Size(rows, accepted),
   events |-> usage.events + Cardinality(new)]

\* Store.ingest, its limits apart.  An event is recorded whether or not the
\* row it belongs to is accepted.
Ingest(batch) ==
  LET accepted == Accepted(batch)
      new == Transitions(batch) \ history
  IN /\ rows' = [f \in Friend |-> IF f \in accepted THEN batch[f] ELSE rows[f]]
     /\ history' = history \cup new
     /\ usage' = Usage(batch, accepted, new)

\* Whether all of it fits: one event too many rolls the whole batch back.
Fits(batch) == usage.events + Cardinality(Transitions(batch) \ history) <= EventLimit

\* Rows of a table ordered by their time: the last one of a set.
Latest(S) == CHOOSE x \in S : \A y \in S : y.at <= x.at

\* previous_tracking: the last edge of each friend says whether he is tracked.
Tracked ==
  {f \in Friend : LET edges == {e \in tracking : e.friend = f}
                  IN edges # {} /\ Latest(edges).tracked}

\* Mutant of Edges: whoever has a row counts as tracked.
EdgesOfRows(listed, at) ==
  LET known == {f \in Friend : rows[f] # NoRow}
  IN {[friend |-> f, tracked |-> TRUE, at |-> at] : f \in listed \ known}
     \cup {[friend |-> f, tracked |-> FALSE, at |-> at] : f \in known \ listed}

\* tracking_edges: what a complete list adds to and removes from the tracked.
Edges(listed, at) ==
  {[friend |-> f, tracked |-> TRUE, at |-> at] : f \in listed \ Tracked}
  \cup {[friend |-> f, tracked |-> FALSE, at |-> at] : f \in Tracked \ listed}

\* Mutant of RecordFailure: every retry is recorded.
RecordEveryFailure(c) ==
  /\ ReadClock
  /\ samples' = samples \cup {[outcome |-> c, friends |-> {}, at |-> clock']}

\* record_collection_failure: a sample unless the last one is the same failure.
RecordFailure(c) ==
  /\ ReadClock
  /\ samples' =
       IF samples # {} /\ Latest(samples).outcome = c THEN samples
       ELSE samples \cup {[outcome |-> c, friends |-> {}, at |-> clock']}

-----------------------------------------------------------------------------
(* VRChat                                                                   *)

\* An event is sent, with or without a timestamp of its own.
Send(f, says) ==
  IF Len(wire) = MaxWire THEN UNCHANGED wire
  ELSE \E own \in {0} \cup {clock' + s : s \in Skews} :
         wire' = Append(wire, [friend |-> f, says |-> says, own |-> own])

\* A friend comes, goes, moves, is added or removed.
UpstreamChange(f) ==
  /\ ReadClock
  /\ \E p \in Presence \cup {Absent} :
       /\ p # truth[f]
       /\ truth' = [truth EXCEPT ![f] = p]
       /\ Send(f, IF p = Absent THEN Silent ELSE p)
       /\ poll' = IF p = Absent THEN [poll EXCEPT !.stayed = @ \ {f}] ELSE poll
  /\ calm' = FALSE
  /\ settled' = FALSE
  /\ UNCHANGED <<listener, tables>>

\* Something else about a friend changes: a status text, a name.
UpstreamUpdate(f) ==
  /\ ReadClock
  /\ truth[f] # Absent
  /\ Send(f, Silent)
  /\ calm' = FALSE
  /\ UNCHANGED <<truth, listener, poll, tables, settled>>

\* The connection is lost, with what was on its way.
PipelineDrops ==
  /\ wire # <<>>
  /\ wire' = <<>>
  /\ UNCHANGED <<truth, clock, listener, poll, tables, ghosts>>

-----------------------------------------------------------------------------
(* The listener                                                             *)

\* _event_time: the event's own timestamp or else the clock, before the lock.
ListenerTake ==
  /\ listener = Idle
  /\ wire # <<>>
  /\ LET m == Head(wire) IN
       /\ IF m.own = 0 THEN ReadClock ELSE UNCHANGED clock
       /\ listener' = [friend |-> m.friend, says |-> m.says,
                       at |-> IF m.own = 0 THEN clock' ELSE m.own]
  /\ wire' = Tail(wire)
  /\ UNCHANGED <<truth, poll, tables, ghosts>>

\* The batch of one that the event makes of the row as it is by now.
Patch == Batch([f \in {listener.friend} |-> listener.says], listener.at)

ListenerStore ==
  /\ listener # Idle
  /\ Fits(Patch)
  /\ Ingest(Patch)
  /\ listener' = Idle
  /\ UNCHANGED <<truth, wire, clock, poll, tracking, samples, ghosts>>

\* ingest raises: nothing is stored, and the exception ends the connection.
ListenerFails ==
  /\ listener # Idle
  /\ ~Fits(Patch)
  /\ listener' = Idle
  /\ wire' = <<>>
  /\ UNCHANGED <<truth, clock, poll, tables, ghosts>>

-----------------------------------------------------------------------------
(* The poll                                                                 *)

Listed == {f \in Friend : truth[f] # Absent}

\* The pages with offline=false.
PollOnline ==
  /\ poll.pc = "idle"
  /\ poll' = [pc |-> "online", stayed |-> Listed, at |-> 0,
              got |-> [f \in {g \in Listed : truth[g] # Offline} |-> truth[f]]]
  /\ calm' = (wire = <<>>)
  /\ UNCHANGED <<truth, wire, clock, listener, tables, settled>>

\* The pages with offline=true, asked for later; who is on both was online.
PollOffline ==
  /\ poll.pc = "online"
  /\ LET offline == {f \in Listed : truth[f] = Offline} IN
       poll' = [poll EXCEPT !.pc = "fetched",
                  !.got = [f \in DOMAIN poll.got \cup offline |->
                             IF f \in DOMAIN poll.got THEN poll.got[f] ELSE Offline]]
  /\ UNCHANGED <<truth, wire, clock, listener, tables, ghosts>>

\* stamp = _now(), before the store's lock.
PollStamp ==
  /\ poll.pc = "fetched"
  /\ ReadClock
  /\ poll' = [poll EXCEPT !.pc = "stamped", !.at = clock']
  /\ UNCHANGED <<truth, wire, listener, tables, ghosts>>

Snapshot == Batch(poll.got, poll.at)

\* ingest_authoritative_snapshot: rows, history, edges and sample in one
\* transaction.  Its events carry the snapshot's stamp, so that none is ahead
\* of it and the anomaly ledger gets nothing.
PollCommit ==
  /\ poll.pc = "stamped"
  /\ Fits(Snapshot)
  /\ Ingest(Snapshot)
  /\ tracking' = tracking \cup Edges(DOMAIN poll.got, poll.at)
  /\ samples' = samples \cup {[outcome |-> "success", friends |-> DOMAIN poll.got,
                               at |-> poll.at]}
  /\ poll' = NotPolling
  /\ settled' = (settled \/ calm)
  /\ UNCHANGED <<truth, wire, clock, listener, calm>>

\* The snapshot is rolled back, and the failure recorded as a network error.
PollOverLimit ==
  /\ poll.pc = "stamped"
  /\ ~Fits(Snapshot)
  /\ RecordFailure("network")
  /\ poll' = NotPolling
  /\ UNCHANGED <<truth, wire, listener, rows, history, tracking, usage, calm, settled>>

\* A request fails: a snapshot is complete or it is not stored.
PollFails(c) ==
  /\ poll.pc \in {"idle", "online"}
  /\ RecordFailure(c)
  /\ poll' = NotPolling
  /\ UNCHANGED <<truth, wire, listener, rows, history, tracking, usage, calm, settled>>

\* The process ends and starts again: the tables survive.
Restart ==
  /\ poll' = NotPolling
  /\ listener' = Idle
  /\ wire' = <<>>
  /\ UNCHANGED <<truth, clock, tables, ghosts>>

-----------------------------------------------------------------------------

ListenerStep == ListenerTake \/ ListenerStore \/ ListenerFails
PollStep ==
  \/ PollOnline \/ PollOffline \/ PollStamp \/ PollCommit \/ PollOverLimit
  \/ \E c \in Category : PollFails(c)

Next ==
  \/ \E f \in Friend : UpstreamChange(f) \/ UpstreamUpdate(f)
  \/ PipelineDrops
  \/ ListenerStep
  \/ PollStep
  \/ Restart

Spec == Init /\ [][Next]_vars

-----------------------------------------------------------------------------
(* What holds                                                               *)

\* Every variable keeps its type.
TypeOK ==
  /\ truth \in [Friend -> Presence \cup {Absent}]
  /\ wire \in Seq(Message)
  /\ clock \in Nat
  /\ listener \in Received \cup {Idle}
  /\ poll \in Poll
  /\ rows \in [Friend -> Row \cup {NoRow}]
  /\ history \subseteq Event
  /\ tracking \subseteq Edge
  /\ samples \subseteq Sample
  /\ usage \in [friends : Nat, bytes : Int, events : Nat]
  /\ calm \in BOOLEAN /\ settled \in BOOLEAN

Successes == {s \in samples : s.outcome = "success"}

\* The tracked friends, computed from the append-only edges in time order, are
\* those of the last complete snapshot: no failure, event or restart between
\* two snapshots bends what heatmaps divide by.
TrackedIsLastSnapshot ==
  Tracked = IF Successes = {} THEN {} ELSE Latest(Successes).friends

\* The last change a row tells of is in the history, with what it changed to,
\* though rows and history refuse stale and repeated records by different rules.
RowChangeIsInHistory ==
  \A f \in Friend : rows[f] # NoRow =>
    \E e \in history : /\ e.friend = f
                       /\ e.at = rows[f].changed
                       /\ e.new = rows[f].presence

\* The cached usage, which the limits trust, is what counting would give.
UsageMatchesTables ==
  /\ usage.friends = Cardinality({f \in Friend : rows[f] # NoRow})
  /\ usage.bytes = Size(rows, Friend)
  /\ usage.events = Cardinality(history)

\* Once a snapshot fetched in a quiet moment is stored, the rows say what
\* VRChat says until something changes there: neither an event the listener
\* still holds nor a later poll takes a row back.
QuietSnapshotHolds ==
  settled => \A f \in Listed : rows[f].presence = truth[f]

\* Of two samples in a row no two are the same failure:
\* read-only-intelligence-design.md:162, "failure state transitions are
\* recorded once rather than on every retry".
FailuresAreTransitions ==
  \A s \in samples : s.outcome # "success" =>
    LET earlier == {e \in samples : e.at < s.at}
    IN earlier # {} => Latest(earlier).outcome # s.outcome

-----------------------------------------------------------------------------
(* What the documentation says and the code does not do                     *)

\* docs/isme/decisions/2026-08-30-002-observation-coverage.md:31-32: "Events
\* more than five minutes ahead of ingestion are retained but quarantined from
\* current state and all analytics."
FutureIsQuarantined == \A f \in Friend : rows[f].at <= clock + Grace

\* docs/superpowers/specs/2026-08-30-read-only-intelligence-design.md:177: a
\* person's denominator "ends when a later complete snapshot confirms absence":
\* who was listed from the first page to the last is not absent.
AbsenceIsConfirmed ==
  [][\A e \in tracking' \ tracking : ~e.tracked => e.friend \notin poll.stayed]_vars

\* README.md:23 offers "全部变化记录", all changes on record: when a snapshot
\* has settled and no event is left, the history ends where the row is.
HistoryEndsAtRow ==
  (settled /\ listener = Idle) =>
    \A f \in Listed : rows[f] # NoRow =>
      Latest({e \in history : e.friend = f}).new = rows[f].presence

=============================================================================
