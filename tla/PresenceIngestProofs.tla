----------------------- MODULE PresenceIngestProofs -----------------------
(***************************************************************************)
(* Proofs about PresenceIngest for any number of friends, presences,       *)
(* categories, clock readings and events.  No proof but that of the usage  *)
(* counters depends on them, and none uses the limit that they feed.       *)
(***************************************************************************)
EXTENDS PresenceIngest, FiniteSetTheorems, TLAPS

PollFields == {"pc", "got", "stayed", "at"}

\* A list of friends that names its friends with presences.
IsList(got) ==
  /\ DOMAIN got \subseteq Friend
  /\ \A f \in DOMAIN got : got[f] \in Presence

\* The types of everything but the counters.
FeedTyped ==
  /\ truth \in [Friend -> Presence \cup {Absent}]
  /\ wire \in Seq(Message)
  /\ clock \in Nat
  /\ listener \in Received \cup {Idle}

PollTyped ==
  /\ poll = [x \in PollFields |-> poll[x]] /\ poll.at \in Nat
  /\ poll.pc \in {"idle", "online", "fetched", "stamped"}
  /\ poll.pc # "idle" => IsList(poll.got)

TablesTyped ==
  /\ rows \in [Friend -> Row \cup {NoRow}]
  /\ history \subseteq Event
  /\ tracking \subseteq Edge
  /\ samples \subseteq Sample

Typed == FeedTyped /\ PollTyped /\ TablesTyped

\* Samples and edges are in the past of the clock, and of a stamp that a poll
\* holds: only one poll runs at a time.
Stamped ==
  /\ \A s \in samples : s.at <= clock
  /\ \A e \in tracking : e.at <= clock
  /\ poll.pc = "stamped" =>
       /\ poll.at <= clock
       /\ \A s \in samples : s.at < poll.at
       /\ \A e \in tracking : e.at < poll.at

Base == Typed /\ Stamped

-----------------------------------------------------------------------------
(* Operators                                                                *)

\* The row with the greatest time is the last one.
LEMMA NewestIsLatest ==
  ASSUME NEW S, NEW x \in S, x.at \in Nat,
         \A y \in S : y.at \in Nat /\ (y # x => y.at < x.at)
  PROVE  Latest(S) = x
<1>1. \A y \in S : y.at <= x.at
  OBVIOUS
<1>2. Latest(S) \in S /\ \A y \in S : y.at <= Latest(S).at
  BY <1>1 DEF Latest
<1> QED BY <1>2

\* What a report says, filled up from the row, is a row.
LEMMA NormalizedIsRow ==
  ASSUME Typed, NEW f \in Friend, NEW says \in Presence \cup {Silent}, NEW at \in Nat
  PROVE  /\ Normalized(f, says, at) \in Row
         /\ Normalized(f, says, at).at = at
         /\ says # Silent => Normalized(f, says, at).presence = says
         /\ says = Silent /\ rows[f] # NoRow =>
              Normalized(f, says, at).presence = rows[f].presence
         /\ Normalized(f, says, at).changed =
              IF Normalized(f, says, at).presence # rows[f].presence
              THEN at ELSE rows[f].changed
<1>1. rows[f] \in Row \/ rows[f] = NoRow
  BY DEF Typed, TablesTyped
<1>2. Silent \notin Presence
  BY ParameterAssumption DEF Presence, Silent, Offline
<1> QED BY <1>1, <1>2 DEF Normalized, Row, NoRow, Presence

\* A missing row has the presence of nobody.
LEMMA MissingIsUnknown ==
  ASSUME Typed, NEW f \in Friend
  PROVE  rows[f] = NoRow <=> rows[f].presence \notin Presence
<1>1. Unknown \notin Presence
  BY ParameterAssumption DEF Presence, Unknown, Offline
<1> QED BY <1>1 DEF Typed, TablesTyped, Row, NoRow

\* A batch is made of reports about friends.
Reports(says, at) ==
  /\ DOMAIN says \subseteq Friend /\ at \in Nat
  /\ \A f \in DOMAIN says : says[f] \in Presence \cup {Silent}

LEMMA BatchRows ==
  ASSUME NEW says, NEW at
  PROVE  /\ DOMAIN Batch(says, at) = DOMAIN says
         /\ \A f \in DOMAIN says : Batch(says, at)[f] = Normalized(f, says[f], at)
BY DEF Batch

\* What Ingest does to one row.
LEMMA IngestRow ==
  ASSUME Typed, NEW says, NEW at, Reports(says, at), Ingest(Batch(says, at)),
         NEW f \in Friend
  PROVE  \/ rows'[f] = rows[f] /\ (f \in DOMAIN says => rows[f] # NoRow /\ at < rows[f].at)
         \/ /\ f \in DOMAIN says
            /\ rows'[f] = Normalized(f, says[f], at)
            /\ rows[f] = NoRow \/ rows[f].at <= at
<1> DEFINE batch == Batch(says, at)
<1>1. rows'[f] = IF f \in Accepted(batch) THEN batch[f] ELSE rows[f]
  BY DEF Ingest
<1>2. CASE f \in DOMAIN says
  <2>1. batch[f] = Normalized(f, says[f], at) /\ batch[f].at = at /\ f \in DOMAIN batch
    BY <1>2, BatchRows, NormalizedIsRow DEF Reports
  <2>2. f \in Accepted(batch) <=> rows[f] = NoRow \/ at >= rows[f].at
    BY <2>1 DEF Accepted
  <2>3. rows[f] # NoRow => rows[f].at \in Nat
    BY DEF Typed, TablesTyped, Row
  <2> HIDE DEF batch
  <2>4. at \in Nat
    BY DEF Reports
  <2> QED BY <1>1, <1>2, <2>1, <2>2, <2>3, <2>4
<1>3. CASE f \notin DOMAIN says
  <2>1. f \notin Accepted(batch)
    BY <1>3, BatchRows DEF Accepted
  <2> QED BY <1>1, <1>3, <2>1
<1> QED BY <1>2, <1>3

LEMMA IngestTypes ==
  ASSUME Typed, NEW says, NEW at, Reports(says, at), Ingest(Batch(says, at))
  PROVE  rows' \in [Friend -> Row \cup {NoRow}] /\ history' \subseteq Event
<1>1. \A f \in Friend : rows'[f] \in Row \cup {NoRow}
  <2> TAKE f \in Friend
  <2>1. f \in DOMAIN says => Normalized(f, says[f], at) \in Row
    BY NormalizedIsRow DEF Reports
  <2>2. rows[f] \in Row \cup {NoRow}
    BY DEF Typed, TablesTyped
  <2> QED BY <2>1, <2>2, IngestRow
<1>2. rows' = [f \in Friend |-> rows'[f]]
  BY DEF Ingest
<1>3. Transitions(Batch(says, at)) \subseteq Event
  <2> SUFFICES ASSUME NEW f \in DOMAIN says,
                      NEW e \in Transition(f, Normalized(f, says[f], at))
               PROVE  e \in Event
    BY BatchRows DEF Transitions
  <2>1. Normalized(f, says[f], at) \in Row /\ f \in Friend
    BY NormalizedIsRow DEF Reports
  <2>2. rows[f].presence \in Presence \cup {Unknown}
    BY <2>1 DEF Typed, TablesTyped, Row, NoRow
  <2>3. e = [friend |-> f, old |-> rows[f].presence,
             new |-> Normalized(f, says[f], at).presence, at |-> Normalized(f, says[f], at).at]
    BY DEF Transition
  <2> QED BY <2>1, <2>2, <2>3 DEF Event, Row
<1>4. history' = history \cup (Transitions(Batch(says, at)) \ history)
  BY DEF Ingest
<1> QED BY <1>1, <1>2, <1>3, <1>4 DEF Typed, TablesTyped

\* The reports of the two threads.
LEMMA PatchReports ==
  ASSUME Typed, listener # Idle
  PROVE  Reports([f \in {listener.friend} |-> listener.says], listener.at)
BY DEF Typed, FeedTyped, Received, Reports

LEMMA SnapshotReports ==
  ASSUME Typed, poll.pc = "stamped"
  PROVE  Reports(poll.got, poll.at)
BY DEF Typed, PollTyped, IsList, Reports

-----------------------------------------------------------------------------
(* Types and stamps                                                         *)

LEMMA NotPollingIsTyped ==
  /\ NotPolling = [x \in PollFields |-> NotPolling[x]]
  /\ NotPolling.pc = "idle" /\ NotPolling.at = 0
BY DEF NotPolling, PollFields

LEMMA BaseInit == Init => Base
<1> SUFFICES ASSUME Init
             PROVE  Base
  OBVIOUS
<1>1. poll = [x \in PollFields |-> poll[x]] /\ poll.pc = "idle" /\ poll.at = 0
  BY NotPollingIsTyped DEF Init
<1>2. FeedTyped
  BY DEF Init, FeedTyped
<1>3. PollTyped
  BY <1>1 DEF PollTyped
<1>4. TablesTyped
  BY DEF Init, TablesTyped
<1>5. Stamped
  BY <1>1 DEF Init, Stamped
<1> QED BY <1>2, <1>3, <1>4, <1>5 DEF Base, Typed

\* A message that is sent, or not, when the wire is full.
LEMMA SendTypes ==
  ASSUME wire \in Seq(Message), clock \in Nat, ReadClock, NEW f \in Friend,
         NEW says \in Presence \cup {Silent}, Send(f, says)
  PROVE  /\ wire' \in Seq(Message)
         /\ \/ wire' = wire
            \/ \E own \in {0} \cup {clock' + s : s \in Skews} :
                 wire' = Append(wire, [friend |-> f, says |-> says, own |-> own])
<1>1. CASE UNCHANGED wire
  BY <1>1
<1>2. CASE ~UNCHANGED wire
  <2>1. PICK own \in {0} \cup {clock' + s : s \in Skews} :
          wire' = Append(wire, [friend |-> f, says |-> says, own |-> own])
    BY <1>2 DEF Send
  <2>2. own \in Nat
    BY ParameterAssumption DEF ReadClock
  <2> DEFINE m == [friend |-> f, says |-> says, own |-> own]
  <2>3. m \in Message
    BY <2>2 DEF Message
  <2>4. wire' = Append(wire, m)
    BY <2>1
  <2>5. wire' \in Seq(Message)
    <3> HIDE DEF m
    <3> QED BY <2>3, <2>4
  <2> QED BY <2>1, <2>5, Zenon
<1> QED BY <1>1, <1>2

LEMMA PollStays ==
  ASSUME PollTyped, poll' = poll \/ poll' = NotPolling
  PROVE  PollTyped'
BY NotPollingIsTyped DEF PollTyped, IsList

LEMMA TablesStay ==
  ASSUME TablesTyped, UNCHANGED <<rows, history, tracking, samples>>
  PROVE  TablesTyped'
BY DEF TablesTyped

\* A step that stores no sample and stamps no poll.
LEMMA Unstored ==
  ASSUME Base, Typed', UNCHANGED <<samples, tracking>>, clock' = clock \/ clock' = clock + 1,
         poll'.pc # "stamped" \/ (poll'.at = poll.at /\ poll'.pc = poll.pc)
  PROVE  Base'
<1>1. /\ \A x \in samples : x.at \in Nat
      /\ \A x \in tracking : x.at \in Nat
      /\ clock \in Nat /\ poll.at \in Nat
  BY DEF Base, Typed, FeedTyped, PollTyped, TablesTyped, Sample, Edge
<1> QED BY <1>1 DEF Base, Stamped

\* A new failure, if it is recorded, is stamped after every other sample.
LEMMA FailureBase ==
  ASSUME Base, NEW c \in Category, RecordFailure(c), poll' = NotPolling,
         UNCHANGED <<truth, wire, listener, rows, history, tracking>>
  PROVE  Base'
<1>1. clock \in Nat /\ clock' = clock + 1
  BY DEF Base, Typed, FeedTyped, RecordFailure, ReadClock
<1>2. \A s \in samples' : s \in samples \/ s = [outcome |-> c, friends |-> {}, at |-> clock']
  BY DEF RecordFailure
<1>3. samples' \subseteq Sample
  BY <1>1, <1>2 DEF Base, Typed, TablesTyped, Sample
<1>4. FeedTyped' /\ TablesTyped'
  BY <1>1, <1>3 DEF Base, Typed, FeedTyped, TablesTyped
<1>5. PollTyped'
  BY PollStays DEF Base, Typed
<1>6. \A s \in samples' : s.at <= clock'
  <2> TAKE s \in samples'
  <2>1. CASE s \in samples
    BY <1>1, <2>1 DEF Base, Stamped, Typed, TablesTyped, Sample
  <2>2. CASE s = [outcome |-> c, friends |-> {}, at |-> clock']
    BY <1>1, <2>2
  <2> QED BY <1>2, <2>1, <2>2
<1>7. \A e \in tracking' : e.at <= clock'
  BY <1>1 DEF Base, Stamped, Typed, TablesTyped, Edge
<1> QED BY <1>4, <1>5, <1>6, <1>7, NotPollingIsTyped DEF Base, Typed, Stamped

\* What a friend's change does to the poll.
LEMMA PollLosesSight ==
  ASSUME PollTyped, NEW f \in Friend, NEW p,
         poll' = IF p = Absent THEN [poll EXCEPT !.stayed = @ \ {f}] ELSE poll
  PROVE  /\ PollTyped'
         /\ poll'.pc = poll.pc /\ poll'.got = poll.got /\ poll'.at = poll.at
<1>1. /\ poll' = [x \in PollFields |-> poll'[x]]
      /\ poll'.pc = poll.pc /\ poll'.got = poll.got /\ poll'.at = poll.at
  BY DEF PollTyped, PollFields
<1> QED BY <1>1 DEF PollTyped, IsList

LEMMA BaseNext == Base /\ [Next]_vars => Base'
<1> SUFFICES ASSUME Base, [Next]_vars
             PROVE  Base'
  OBVIOUS
<1>0. FeedTyped /\ PollTyped /\ TablesTyped /\ Typed /\ Stamped
  BY DEF Base, Typed
<1>1. ASSUME NEW f \in Friend, UpstreamChange(f)
      PROVE  Base'
  <2>1. PICK p \in Presence \cup {Absent} :
          /\ truth' = [truth EXCEPT ![f] = p]
          /\ Send(f, IF p = Absent THEN Silent ELSE p)
          /\ poll' = IF p = Absent THEN [poll EXCEPT !.stayed = @ \ {f}] ELSE poll
    BY <1>1 DEF UpstreamChange
  <2>2. ReadClock /\ UNCHANGED <<listener, rows, history, tracking, samples>>
    BY <1>1 DEF UpstreamChange, tables
  <2>3. clock \in Nat /\ clock' = clock + 1
    BY <1>0, <2>2 DEF FeedTyped, ReadClock
  <2>4. wire' \in Seq(Message)
    BY <1>0, <2>1, <2>2, <2>3, SendTypes DEF FeedTyped
  <2>5. FeedTyped'
    BY <1>0, <2>1, <2>2, <2>3, <2>4 DEF FeedTyped
  <2>6. PollTyped' /\ poll'.pc = poll.pc /\ poll'.at = poll.at
    BY <1>0, <2>1, PollLosesSight
  <2> QED BY <1>0, <2>2, <2>3, <2>5, <2>6, TablesStay, Unstored DEF Typed
<1>2. ASSUME NEW f \in Friend, UpstreamUpdate(f)
      PROVE  Base'
  <2>1. /\ ReadClock /\ Send(f, Silent)
        /\ UNCHANGED <<truth, listener, poll, rows, history, tracking, samples>>
    BY <1>2 DEF UpstreamUpdate, tables
  <2>2. clock \in Nat /\ clock' = clock + 1 /\ wire' \in Seq(Message)
    BY <1>0, <2>1, SendTypes DEF FeedTyped, ReadClock
  <2>3. FeedTyped'
    BY <1>0, <2>1, <2>2 DEF FeedTyped
  <2> QED BY <1>0, <2>1, <2>2, <2>3, PollStays, TablesStay, Unstored DEF Typed
<1>3. CASE PipelineDrops \/ ListenerFails \/ Restart
  <2>1. /\ wire' = <<>> /\ UNCHANGED <<truth, clock, rows, history, tracking, samples>>
        /\ listener' = listener \/ listener' = Idle
        /\ poll' = poll \/ poll' = NotPolling
    BY <1>3 DEF PipelineDrops, ListenerFails, Restart, tables
  <2>2. FeedTyped'
    BY <1>0, <2>1 DEF FeedTyped
  <2> QED BY <1>0, <2>1, <2>2, NotPollingIsTyped, PollStays, TablesStay, Unstored DEF Typed
<1>4. CASE ListenerTake
  <2>1. /\ wire # <<>> /\ wire' = Tail(wire)
        /\ IF Head(wire).own = 0 THEN ReadClock ELSE UNCHANGED clock
        /\ listener' = [friend |-> Head(wire).friend, says |-> Head(wire).says,
                        at |-> IF Head(wire).own = 0 THEN clock' ELSE Head(wire).own]
        /\ UNCHANGED <<truth, poll, rows, history, tracking, samples>>
    BY <1>4 DEF ListenerTake, tables
  <2>2. Head(wire) \in Message /\ wire' \in Seq(Message)
    BY <1>0, <2>1 DEF FeedTyped
  <2>3. clock \in Nat /\ (clock' = clock \/ clock' = clock + 1)
    BY <1>0, <2>1 DEF FeedTyped, ReadClock
  <2>4. Head(wire).friend \in Friend /\ Head(wire).says \in Presence \cup {Silent}
        /\ Head(wire).own \in Nat
    BY <2>2 DEF Message
  <2>5. listener' \in Received
    BY <2>1, <2>3, <2>4 DEF Received
  <2>6. FeedTyped'
    BY <1>0, <2>1, <2>2, <2>3, <2>5 DEF FeedTyped
  <2> QED BY <1>0, <2>1, <2>3, <2>6, PollStays, TablesStay, Unstored DEF Typed
<1>5. CASE ListenerStore
  <2>1. /\ listener # Idle /\ listener' = Idle
        /\ Ingest(Batch([f \in {listener.friend} |-> listener.says], listener.at))
        /\ UNCHANGED <<truth, wire, clock, poll, tracking, samples>>
    BY <1>5 DEF ListenerStore, Patch
  <2>2. rows' \in [Friend -> Row \cup {NoRow}] /\ history' \subseteq Event
    BY <1>0, <2>1, PatchReports, IngestTypes
  <2>3. FeedTyped'
    BY <1>0, <2>1 DEF FeedTyped
  <2>4. TablesTyped'
    BY <1>0, <2>1, <2>2 DEF TablesTyped
  <2> QED BY <1>0, <2>1, <2>3, <2>4, PollStays, Unstored DEF Typed
<1>6. CASE PollOnline
  <2>1. /\ poll' = [pc |-> "online", stayed |-> Listed, at |-> 0,
                    got |-> [f \in {g \in Listed : truth[g] # Offline} |-> truth[f]]]
        /\ UNCHANGED <<truth, wire, clock, listener, rows, history, tracking, samples>>
    BY <1>6 DEF PollOnline, tables
  <2>2. poll' = [x \in PollFields |-> poll'[x]] /\ poll'.pc = "online" /\ poll'.at = 0
    BY <2>1 DEF PollFields
  <2>3. IsList([f \in {g \in Listed : truth[g] # Offline} |-> truth[f]])
    BY <1>0 DEF FeedTyped, IsList, Listed
  <2>4. PollTyped'
    BY <2>1, <2>2, <2>3 DEF PollTyped, IsList
  <2>5. FeedTyped'
    BY <1>0, <2>1 DEF FeedTyped
  <2> QED BY <1>0, <2>1, <2>2, <2>4, <2>5, TablesStay, Unstored DEF Typed
<1>7. CASE PollOffline
  <2> DEFINE all == [f \in DOMAIN poll.got \cup {g \in Listed : truth[g] = Offline} |->
                       IF f \in DOMAIN poll.got THEN poll.got[f] ELSE Offline]
  <2>1. /\ poll.pc = "online" /\ poll' = [poll EXCEPT !.pc = "fetched", !.got = all]
        /\ UNCHANGED <<truth, wire, clock, listener, rows, history, tracking, samples>>
    BY <1>7 DEF PollOffline, tables
  <2>2. IsList(all)
    BY <1>0, <2>1 DEF PollTyped, IsList, Listed, Presence
  <2> HIDE DEF all
  <2>3. /\ poll' = [x \in PollFields |-> poll'[x]]
        /\ poll'.pc = "fetched" /\ poll'.at = poll.at /\ poll'.got = all
    BY <1>0, <2>1 DEF PollTyped, PollFields
  <2>4. poll'.at \in Nat
    BY <1>0, <2>3 DEF PollTyped
  <2>5. PollTyped'
    BY <2>2, <2>3, <2>4 DEF PollTyped, IsList
  <2>6. FeedTyped'
    BY <1>0, <2>1 DEF FeedTyped
  <2> QED BY <1>0, <2>1, <2>3, <2>5, <2>6, TablesStay, Unstored DEF Typed
<1>8. CASE PollStamp
  <2>1. /\ poll.pc = "fetched" /\ ReadClock
        /\ poll' = [poll EXCEPT !.pc = "stamped", !.at = clock']
        /\ UNCHANGED <<truth, wire, listener, rows, history, tracking, samples>>
    BY <1>8 DEF PollStamp, tables
  <2>2. clock \in Nat /\ clock' = clock + 1
    BY <1>0, <2>1 DEF FeedTyped, ReadClock
  <2>3. /\ poll' = [x \in PollFields |-> poll'[x]]
        /\ poll'.pc = "stamped" /\ poll'.at = clock' /\ poll'.got = poll.got
    BY <1>0, <2>1 DEF PollTyped, PollFields
  <2>4. PollTyped'
    <3>1. IsList(poll'.got)
      BY <1>0, <2>1, <2>3 DEF PollTyped, IsList
    <3>2. poll'.at \in Nat
      BY <2>2, <2>3
    <3> QED BY <2>3, <3>1, <3>2 DEF PollTyped, IsList
  <2>5. FeedTyped'
    BY <1>0, <2>1, <2>2 DEF FeedTyped
  <2>6. /\ \A s \in samples : s.at \in Nat /\ s.at <= clock
        /\ \A e \in tracking : e.at \in Nat /\ e.at <= clock
    BY <1>0 DEF TablesTyped, Stamped, Sample, Edge
  <2>7. Stamped'
    BY <2>1, <2>2, <2>3, <2>6 DEF Stamped
  <2> QED BY <1>0, <2>1, <2>4, <2>5, <2>7, TablesStay DEF Base, Typed
<1>9. CASE PollCommit
  <2>1. /\ poll.pc = "stamped" /\ Ingest(Batch(poll.got, poll.at)) /\ poll' = NotPolling
        /\ tracking' = tracking \cup Edges(DOMAIN poll.got, poll.at)
        /\ samples' = samples \cup {[outcome |-> "success", friends |-> DOMAIN poll.got,
                                     at |-> poll.at]}
        /\ UNCHANGED <<truth, wire, clock, listener>>
    BY <1>9 DEF PollCommit, Snapshot
  <2>2. rows' \in [Friend -> Row \cup {NoRow}] /\ history' \subseteq Event
    BY <1>0, <2>1, SnapshotReports, IngestTypes
  <2>3. DOMAIN poll.got \subseteq Friend /\ poll.at \in Nat /\ poll.at <= clock
    BY <1>0, <2>1 DEF PollTyped, IsList, Stamped
  <2>4. \A e \in Edges(DOMAIN poll.got, poll.at) : e \in Edge /\ e.at = poll.at
    <3>1. Tracked \subseteq Friend
      BY DEF Tracked
    <3> SUFFICES ASSUME NEW e \in Edges(DOMAIN poll.got, poll.at)
                 PROVE  e \in Edge /\ e.at = poll.at
      OBVIOUS
    <3>2. PICK f \in Friend, b \in BOOLEAN : e = [friend |-> f, tracked |-> b, at |-> poll.at]
      BY <2>3, <3>1 DEF Edges
    <3> QED BY <2>3, <3>2 DEF Edge
  <2>5. [outcome |-> "success", friends |-> DOMAIN poll.got, at |-> poll.at] \in Sample
    BY <2>3 DEF Sample
  <2>6. samples' \subseteq Sample /\ tracking' \subseteq Edge
    BY <1>0, <2>1, <2>4, <2>5 DEF TablesTyped
  <2>7. TablesTyped'
    BY <2>2, <2>6 DEF TablesTyped
  <2>8. FeedTyped'
    BY <1>0, <2>1 DEF FeedTyped
  <2>9. Stamped'
    BY <1>0, <2>1, <2>3, <2>4, NotPollingIsTyped DEF Stamped
  <2> QED BY <1>0, <2>1, <2>7, <2>8, <2>9, PollStays DEF Base, Typed
<1>10. CASE PollOverLimit
  <2>1. "network" \in Category
    BY ParameterAssumption
  <2> QED BY <1>10, <2>1, FailureBase DEF PollOverLimit
<1>11. ASSUME NEW c \in Category, PollFails(c)
       PROVE  Base'
  BY <1>11, FailureBase DEF PollFails
<1>12. CASE UNCHANGED vars
  <2>1. FeedTyped'
    BY <1>0, <1>12 DEF FeedTyped, vars
  <2>2. /\ poll' = poll
        /\ UNCHANGED <<clock, rows, history, tracking, samples>>
    BY <1>12 DEF vars
  <2> QED BY <1>0, <2>1, <2>2, PollStays, TablesStay, Unstored DEF Typed
<1> QED BY <1>1, <1>2, <1>3, <1>4, <1>5, <1>6, <1>7, <1>8, <1>9, <1>10, <1>11, <1>12
        DEF Next, ListenerStep, PollStep

LEMMA BaseAlways == Spec => []Base
BY BaseInit, BaseNext, PTL DEF Spec

-----------------------------------------------------------------------------
(* Rows and history                                                         *)

\* Whatever is refused or repeated in a batch, each row it changes has its event.
LEMMA IngestKeepsHistory ==
  ASSUME Typed, RowChangeIsInHistory, NEW says, NEW at, Reports(says, at),
         Ingest(Batch(says, at))
  PROVE  RowChangeIsInHistory'
<1> SUFFICES ASSUME NEW f \in Friend, rows'[f] # NoRow
             PROVE  \E e \in history' : /\ e.friend = f
                                        /\ e.at = rows'[f].changed
                                        /\ e.new = rows'[f].presence
  BY DEF RowChangeIsInHistory
<1> DEFINE n == Normalized(f, says[f], at)
<1>1. history' = history \cup Transitions(Batch(says, at))
  BY DEF Ingest
<1>2. rows[f] # NoRow => \E e \in history' : /\ e.friend = f
                                             /\ e.at = rows[f].changed
                                             /\ e.new = rows[f].presence
  BY <1>1 DEF RowChangeIsInHistory
<1>3. CASE rows'[f] = rows[f]
  BY <1>2, <1>3
<1>4. CASE f \in DOMAIN says /\ rows'[f] = n
  <2>1. /\ n \in Row /\ n.at = at
        /\ n.changed = IF n.presence # rows[f].presence THEN at ELSE rows[f].changed
    BY <1>4, NormalizedIsRow DEF Reports
  <2>2. CASE n.presence # rows[f].presence
    <3> DEFINE e == [friend |-> f, old |-> rows[f].presence, new |-> n.presence, at |-> n.at]
    <3>1. e \in Transition(f, n)
      BY <2>2 DEF Transition
    <3>2. e \in Transitions(Batch(says, at))
      BY <1>4, <3>1, BatchRows DEF Transitions
    <3>3. e \in history'
      BY <1>1, <3>2
    <3>4. e.friend = f /\ e.at = n.changed /\ e.new = n.presence
      BY <2>1, <2>2
    <3> QED BY <1>4, <3>3, <3>4
  <2>3. CASE n.presence = rows[f].presence
    <3>1. rows[f] # NoRow
      BY <2>1, <2>3, MissingIsUnknown DEF Row
    <3> QED BY <1>2, <1>4, <2>1, <2>3, <3>1
  <2> QED BY <2>2, <2>3
<1> QED BY <1>3, <1>4, IngestRow

LEMMA HistoryNext ==
  ASSUME Base, RowChangeIsInHistory, [Next]_vars
  PROVE  RowChangeIsInHistory'
<1>0. Typed
  BY DEF Base
<1>1. CASE ListenerStore
  BY <1>0, <1>1, PatchReports, IngestKeepsHistory DEF ListenerStore, Patch
<1>2. CASE PollCommit
  BY <1>0, <1>2, SnapshotReports, IngestKeepsHistory DEF PollCommit, Snapshot
<1>3. CASE UNCHANGED <<rows, history>>
  BY <1>3 DEF RowChangeIsInHistory
<1>4. ListenerStore \/ PollCommit \/ UNCHANGED <<rows, history>>
  BY DEF Next, ListenerStep, PollStep, UpstreamChange, UpstreamUpdate, PipelineDrops,
         ListenerTake, ListenerFails, PollOnline, PollOffline, PollStamp, PollOverLimit,
         PollFails, Restart, tables, vars
<1> QED BY <1>1, <1>2, <1>3, <1>4

\* The last change a row tells of is in the history (storage.py: the
\* upsert of rows has a condition, the insertion of events has another).
THEOREM HistoryComplete == Spec => []RowChangeIsInHistory
<1>1. Init => RowChangeIsInHistory
  BY DEF Init, RowChangeIsInHistory
<1>2. Base /\ RowChangeIsInHistory /\ [Next]_vars => RowChangeIsInHistory'
  BY HistoryNext
<1> QED BY <1>1, <1>2, BaseAlways, PTL DEF Spec

-----------------------------------------------------------------------------
(* Samples and tracking                                                     *)

\* The steps that write a sample; only a snapshot writes edges.
LEMMA SampleWriters ==
  ASSUME [Next]_vars
  PROVE  \/ PollCommit
         \/ UNCHANGED tracking /\ \E c \in Category : RecordFailure(c)
         \/ UNCHANGED <<tracking, samples>>
<1>1. CASE PollOverLimit
  BY <1>1, ParameterAssumption DEF PollOverLimit
<1>2. CASE \E c \in Category : PollFails(c)
  BY <1>2 DEF PollFails
<1>3. CASE ListenerStore
  BY <1>3 DEF ListenerStore
<1>4. CASE ~PollOverLimit /\ ~ListenerStore /\ ~PollCommit /\ ~\E c \in Category : PollFails(c)
  BY <1>4
  DEF Next, ListenerStep, PollStep, UpstreamChange, UpstreamUpdate, PipelineDrops,
      ListenerTake, ListenerFails, PollOnline, PollOffline, PollStamp, Restart, tables, vars
<1> QED BY <1>1, <1>2, <1>3, <1>4

\* The edges of one friend.
Of(f, edges) == {e \in edges : e.friend = f}

\* After a snapshot those are tracked whom it lists.
LEMMA SnapshotTracks ==
  ASSUME Base, poll.pc = "stamped",
         tracking' = tracking \cup Edges(DOMAIN poll.got, poll.at)
  PROVE  Tracked' = DOMAIN poll.got
<1>1. /\ DOMAIN poll.got \subseteq Friend /\ poll.at \in Nat
      /\ \A e \in tracking : e.at \in Nat /\ e.at < poll.at
  BY DEF Base, Typed, PollTyped, TablesTyped, IsList, Stamped, Edge
<1>2. Tracked = {f \in Friend : Of(f, tracking) # {} /\ Latest(Of(f, tracking)).tracked}
  BY DEF Tracked, Of
<1>3. Tracked' = {f \in Friend : Of(f, tracking') # {} /\ Latest(Of(f, tracking')).tracked}
  BY DEF Tracked, Of
<1>4. Tracked \subseteq Friend
  BY DEF Tracked
<1>5. ASSUME NEW f \in Friend, NEW b \in BOOLEAN,
             Of(f, Edges(DOMAIN poll.got, poll.at))
               = {[friend |-> f, tracked |-> b, at |-> poll.at]}
      PROVE  Of(f, tracking') # {} /\ Latest(Of(f, tracking')).tracked = b
  <2> DEFINE x == [friend |-> f, tracked |-> b, at |-> poll.at]
  <2>1. Of(f, tracking') = Of(f, tracking) \cup {x}
    BY <1>5 DEF Of
  <2>2. x.at = poll.at /\ x.tracked = b
    OBVIOUS
  <2> HIDE DEF x
  <2>3. \A y \in Of(f, tracking) : y.at \in Nat /\ y.at < poll.at
    BY <1>1 DEF Of
  <2>4. Latest(Of(f, tracking')) = x
    <3>1. x \in Of(f, tracking') /\ x.at \in Nat
      BY <1>1, <2>1, <2>2
    <3>2. \A y \in Of(f, tracking') : y.at \in Nat /\ (y # x => y.at < x.at)
      BY <1>1, <2>1, <2>2, <2>3
    <3> QED BY <3>1, <3>2, NewestIsLatest
  <2> QED BY <2>1, <2>2, <2>4
<1>6. ASSUME NEW f \in Friend
      PROVE  f \in Tracked' <=> f \in DOMAIN poll.got
  <2>1. CASE f \in DOMAIN poll.got /\ f \notin Tracked
    <3>1. Of(f, Edges(DOMAIN poll.got, poll.at))
            = {[friend |-> f, tracked |-> TRUE, at |-> poll.at]}
      BY <2>1 DEF Of, Edges
    <3> QED BY <1>3, <1>5, <2>1, <3>1
  <2>2. CASE f \notin DOMAIN poll.got /\ f \in Tracked
    <3>1. Of(f, Edges(DOMAIN poll.got, poll.at))
            = {[friend |-> f, tracked |-> FALSE, at |-> poll.at]}
      BY <2>2 DEF Of, Edges
    <3> QED BY <1>3, <1>5, <2>2, <3>1
  <2>3. CASE f \in DOMAIN poll.got <=> f \in Tracked
    <3>1. Of(f, Edges(DOMAIN poll.got, poll.at)) = {}
      BY <2>3 DEF Of, Edges
    <3>2. Of(f, tracking') = Of(f, tracking)
      BY <3>1 DEF Of
    <3> QED BY <1>2, <1>3, <2>3, <3>2
  <2> QED BY <2>1, <2>2, <2>3
<1> QED BY <1>1, <1>3, <1>6

LEMMA TrackedNext ==
  ASSUME Base, TrackedIsLastSnapshot, [Next]_vars
  PROVE  TrackedIsLastSnapshot'
<1>1. CASE PollCommit
  <2> DEFINE new == [outcome |-> "success", friends |-> DOMAIN poll.got, at |-> poll.at]
  <2>1. /\ poll.pc = "stamped" /\ samples' = samples \cup {new}
        /\ tracking' = tracking \cup Edges(DOMAIN poll.got, poll.at)
    BY <1>1 DEF PollCommit
  <2>2. Tracked' = DOMAIN poll.got
    BY <2>1, SnapshotTracks
  <2>3. new.at = poll.at /\ new.outcome = "success" /\ new.friends = DOMAIN poll.got
    OBVIOUS
  <2>4. poll.at \in Nat /\ \A s \in samples : s.at \in Nat /\ s.at < poll.at
    BY <2>1 DEF Base, Typed, PollTyped, TablesTyped, Stamped, Sample
  <2> HIDE DEF new
  <2>5. Successes' = Successes \cup {new}
    BY <2>1, <2>3 DEF Successes
  <2>6. Latest(Successes') = new
    <3>1. new \in Successes' /\ new.at \in Nat
      BY <2>3, <2>4, <2>5
    <3>2. \A y \in Successes' : y.at \in Nat /\ (y # new => y.at < new.at)
      BY <2>3, <2>4, <2>5 DEF Successes
    <3> QED BY <3>1, <3>2, NewestIsLatest
  <2> QED BY <2>2, <2>3, <2>5, <2>6 DEF TrackedIsLastSnapshot
<1>2. ASSUME UNCHANGED tracking, NEW c \in Category, RecordFailure(c)
      PROVE  TrackedIsLastSnapshot'
  <2>1. c # "success"
    BY ParameterAssumption
  <2>2. Successes' = Successes
    BY <1>2, <2>1 DEF RecordFailure, Successes
  <2>3. Tracked' = Tracked
    BY <1>2 DEF Tracked
  <2> QED BY <2>2, <2>3 DEF TrackedIsLastSnapshot
<1>3. CASE UNCHANGED <<tracking, samples>>
  BY <1>3 DEF TrackedIsLastSnapshot, Tracked, Successes
<1> QED BY <1>1, <1>2, <1>3, SampleWriters

\* The tracked friends are those of the last complete snapshot
\* (storage.py:1626-1646 computes edges from edges).
THEOREM TrackingExact == Spec => []TrackedIsLastSnapshot
<1>1. Init => TrackedIsLastSnapshot
  BY DEF Init, TrackedIsLastSnapshot, Tracked, Successes
<1>2. Base /\ TrackedIsLastSnapshot /\ [Next]_vars => TrackedIsLastSnapshot'
  BY TrackedNext
<1> QED BY <1>1, <1>2, BaseAlways, PTL DEF Spec

LEMMA FailuresNext ==
  ASSUME Base, FailuresAreTransitions, [Next]_vars
  PROVE  FailuresAreTransitions'
<1> DEFINE Before(s) == {e \in samples : e.at < s.at}
<1>0. \A s \in samples : s.at \in Nat /\ s.at <= clock
  BY DEF Base, Typed, TablesTyped, Stamped, Sample
<1>1. ASSUME NEW new, samples' = samples \cup {new}, \A s \in samples : s.at < new.at,
             new.at \in Nat,
             new.outcome # "success" => (samples # {} => Latest(samples).outcome # new.outcome)
      PROVE  FailuresAreTransitions'
  <2> SUFFICES ASSUME NEW s \in samples', s.outcome # "success",
                      {e \in samples' : e.at < s.at} # {}
               PROVE  Latest({e \in samples' : e.at < s.at}).outcome # s.outcome
    BY DEF FailuresAreTransitions
  <2>1. CASE s \in samples
    <3>1. {e \in samples' : e.at < s.at} = Before(s)
      BY <1>0, <1>1, <2>1
    <3> QED BY <2>1, <3>1 DEF FailuresAreTransitions
  <2>2. CASE s = new
    <3>1. {e \in samples' : e.at < s.at} = samples
      BY <1>0, <1>1, <2>2
    <3> QED BY <1>1, <2>2, <3>1
  <2> QED BY <1>1, <2>1, <2>2
<1>2. CASE PollCommit
  <2> DEFINE new == [outcome |-> "success", friends |-> DOMAIN poll.got, at |-> poll.at]
  <2>1. poll.pc = "stamped" /\ samples' = samples \cup {new}
    BY <1>2 DEF PollCommit
  <2>2. new.at = poll.at /\ new.outcome = "success"
    OBVIOUS
  <2>3. poll.at \in Nat /\ \A s \in samples : s.at < poll.at
    BY <2>1 DEF Base, Typed, PollTyped, Stamped
  <2> HIDE DEF new
  <2> QED BY <1>1, <2>1, <2>2, <2>3
<1>3. ASSUME NEW c \in Category, RecordFailure(c)
      PROVE  FailuresAreTransitions'
  <2> DEFINE new == [outcome |-> c, friends |-> {}, at |-> clock']
  <2>1. clock \in Nat /\ clock' = clock + 1
    BY <1>3 DEF Base, Typed, FeedTyped, RecordFailure, ReadClock
  <2>2. CASE samples # {} /\ Latest(samples).outcome = c
    <3>1. samples' = samples
      BY <1>3, <2>2 DEF RecordFailure
    <3> QED BY <3>1 DEF FailuresAreTransitions
  <2>3. CASE ~(samples # {} /\ Latest(samples).outcome = c)
    <3>1. samples' = samples \cup {new}
      BY <1>3, <2>3 DEF RecordFailure
    <3>2. new.at = clock' /\ new.outcome = c
      OBVIOUS
    <3>3. new.at \in Nat /\ \A s \in samples : s.at < new.at
      BY <1>0, <2>1, <3>2
    <3> HIDE DEF new
    <3> QED BY <1>1, <2>3, <3>1, <3>2, <3>3
  <2> QED BY <2>2, <2>3
<1>4. CASE UNCHANGED samples
  BY <1>4 DEF FailuresAreTransitions
<1> QED BY <1>2, <1>3, <1>4, SampleWriters

\* Of two samples in a row no two are the same failure (storage.py:1783-1839).
THEOREM FailuresRecordedOnce == Spec => []FailuresAreTransitions
<1>1. Init => FailuresAreTransitions
  BY DEF Init, FailuresAreTransitions
<1>2. Base /\ FailuresAreTransitions /\ [Next]_vars => FailuresAreTransitions'
  BY FailuresNext
<1> QED BY <1>1, <1>2, BaseAlways, PTL DEF Spec

-----------------------------------------------------------------------------
(* Quiet snapshots                                                          *)

\* With clocks that agree no stamp is ahead of this one.
NoneAhead ==
  /\ \A i \in 1..Len(wire) : wire[i].own <= clock
  /\ listener # Idle => listener.at <= clock
  /\ \A f \in Friend : rows[f].at <= clock

\* A poll that began in a quiet moment has what VRChat says, and once it is
\* stamped nothing that waits or is stored has a later stamp.
CalmPollIsTrue ==
  calm /\ poll.pc # "idle" =>
    /\ wire = <<>>
    /\ \A f \in DOMAIN poll.got : f \in Listed /\ poll.got[f] = truth[f]
    /\ poll.pc = "online" => \A f \in Listed : truth[f] # Offline => f \in DOMAIN poll.got
    /\ poll.pc # "online" => Listed \subseteq DOMAIN poll.got
    /\ poll.pc = "stamped" =>
         /\ listener # Idle => listener.at < poll.at
         /\ \A f \in Friend : rows[f].at < poll.at

\* Since a settled snapshot, nothing on its way says otherwise, or it is late.
NothingDisagrees ==
  settled =>
    /\ \A i \in 1..Len(wire) : wire[i].says = Silent
    /\ listener # Idle /\ listener.friend \in Listed =>
         listener.says = Silent \/ listener.at < rows[listener.friend].at
    /\ poll.pc # "idle" =>
         \A f \in DOMAIN poll.got : f \in Listed => poll.got[f] = truth[f]

QuietInv == NoneAhead /\ CalmPollIsTrue /\ NothingDisagrees /\ QuietSnapshotHolds

LEMMA TailElements ==
  ASSUME NEW S, NEW s \in Seq(S), s # <<>>
  PROVE  /\ 1 \in 1..Len(s) /\ Head(s) = s[1]
         /\ \A i \in 1..Len(Tail(s)) : i + 1 \in 1..Len(s) /\ Tail(s)[i] = s[i + 1]
OBVIOUS

LEMMA AppendElements ==
  ASSUME NEW S, NEW s \in Seq(S), NEW m \in S
  PROVE  \A i \in 1..Len(Append(s, m)) :
           Append(s, m)[i] = m \/ (i \in 1..Len(s) /\ Append(s, m)[i] = s[i])
OBVIOUS

\* A message that is sent is as old as the change it is about.
LEMMA SentIsPast ==
  ASSUME Typed, Skews \subseteq {0}, ReadClock, NoneAhead, NEW f \in Friend,
         NEW says \in Presence \cup {Silent}, Send(f, says)
  PROVE  \A i \in 1..Len(wire') :
           /\ wire'[i].own <= clock'
           /\ wire'[i].says = says \/ (i \in 1..Len(wire) /\ wire'[i] = wire[i])
<1>1. wire \in Seq(Message) /\ clock \in Nat /\ clock' = clock + 1
  BY DEF Typed, FeedTyped, ReadClock
<1>2. \A i \in 1..Len(wire) : wire[i].own \in Nat /\ wire[i].own <= clock'
  <2> TAKE i \in 1..Len(wire)
  <2>1. wire[i] \in Message
    BY <1>1
  <2>2. wire[i].own \in Nat
    BY <2>1 DEF Message
  <2> QED BY <1>1, <2>2 DEF NoneAhead
<1>3. CASE wire' = wire
  BY <1>2, <1>3
<1>4. CASE wire' # wire
  <2>1. PICK own \in {0} \cup {clock' + s : s \in Skews} :
          wire' = Append(wire, [friend |-> f, says |-> says, own |-> own])
    BY <1>1, <1>4, SendTypes
  <2>2. own \in Nat /\ own <= clock'
    BY <1>1
  <2> DEFINE m == [friend |-> f, says |-> says, own |-> own]
  <2>3. m \in Message /\ m.own = own /\ m.says = says
    BY <2>2 DEF Message
  <2>4. wire' = Append(wire, m)
    BY <2>1
  <2> HIDE DEF m
  <2> QED BY <1>1, <1>2, <2>2, <2>3, <2>4, AppendElements
<1> QED BY <1>3, <1>4

\* A step that leaves the tables alone and ends the poll, or leaves it.
LEMMA QuietStays ==
  ASSUME Base, Base', QuietInv, UNCHANGED <<truth, rows, settled, calm>>,
         clock' = clock \/ clock' = clock + 1,
         wire' = wire \/ wire' = <<>>, listener' = listener \/ listener' = Idle,
         poll' = poll \/ poll'.pc = "idle"
  PROVE  QuietInv'
<1>1. clock \in Nat /\ \A f \in Friend : rows[f].at \in Nat
  BY DEF Base, Typed, FeedTyped, TablesTyped, Row, NoRow
<1>2. \A i \in 1..Len(wire) : wire[i].own \in Nat
  <2> TAKE i \in 1..Len(wire)
  <2>1. wire[i] \in Message
    BY DEF Base, Typed, FeedTyped
  <2> QED BY <2>1 DEF Message
<1>3. listener # Idle => listener.at \in Nat
  BY DEF Base, Typed, FeedTyped, Received
<1>4. Len(<<>>) = 0
  OBVIOUS
<1>5. NoneAhead'
  BY <1>1, <1>2, <1>3, <1>4 DEF QuietInv, NoneAhead
<1>6. CalmPollIsTrue'
  BY DEF QuietInv, CalmPollIsTrue, Listed
<1>7. NothingDisagrees'
  BY <1>4 DEF QuietInv, NothingDisagrees, Listed
<1>8. QuietSnapshotHolds'
  BY DEF QuietInv, QuietSnapshotHolds, Listed
<1> QED BY <1>5, <1>6, <1>7, <1>8 DEF QuietInv

\* Rows that were stored before keep what they say when late or silent reports come.
LEMMA SettledRow ==
  ASSUME Typed, QuietSnapshotHolds, settled, NEW says, NEW at, Reports(says, at),
         Ingest(Batch(says, at)), NEW f \in Listed,
         f \in DOMAIN says => says[f] \in {Silent, truth[f]} \/ at < rows[f].at
  PROVE  rows'[f].presence = truth[f] /\ rows[f].at <= rows'[f].at
<1>1. /\ f \in Friend /\ truth[f] \in Presence /\ rows[f].presence = truth[f]
      /\ rows[f].at \in Nat /\ at \in Nat
  BY DEF Typed, FeedTyped, TablesTyped, Row, NoRow, Listed, QuietSnapshotHolds, Reports
<1>2. rows[f] # NoRow
  BY <1>1, MissingIsUnknown
<1>3. CASE rows'[f] = rows[f]
  BY <1>1, <1>3
<1>4. CASE /\ f \in DOMAIN says /\ rows'[f] = Normalized(f, says[f], at)
           /\ rows[f] = NoRow \/ rows[f].at <= at
  <2>1. says[f] \in {Silent, truth[f]} /\ rows[f].at <= at
    BY <1>1, <1>2, <1>4
  <2> DEFINE n == Normalized(f, says[f], at)
  <2>2. says[f] \in Presence \cup {Silent} /\ at \in Nat
    BY <1>4 DEF Reports
  <2>3. /\ n.at = at
        /\ says[f] # Silent => n.presence = says[f]
        /\ says[f] = Silent => n.presence = rows[f].presence
    BY <1>1, <1>2, <2>2, NormalizedIsRow
  <2> HIDE DEF n
  <2>4. rows'[f] = n
    BY <1>4 DEF n
  <2> QED BY <1>1, <2>1, <2>3, <2>4
<1> QED BY <1>1, <1>3, <1>4, IngestRow

LEMMA QuietNext ==
  ASSUME Skews \subseteq {0}, Base, Base', QuietInv, [Next]_vars
  PROVE  QuietInv'
<1>0. /\ Typed /\ Stamped /\ FeedTyped /\ PollTyped /\ TablesTyped
      /\ NoneAhead /\ CalmPollIsTrue /\ NothingDisagrees /\ QuietSnapshotHolds
  BY DEF Base, Typed, QuietInv
<1>1. clock \in Nat /\ \A f \in Friend : rows[f].at \in Nat
  BY <1>0 DEF FeedTyped, TablesTyped, Row, NoRow
<1>2. listener # Idle => /\ listener.at \in Nat /\ listener.friend \in Friend
                         /\ listener.says \in Presence \cup {Silent}
  BY <1>0 DEF FeedTyped, Received
<1>3. ASSUME NEW f \in Friend, UpstreamChange(f)
      PROVE  QuietInv'
  <2>1. PICK p \in Presence \cup {Absent} : Send(f, IF p = Absent THEN Silent ELSE p)
    BY <1>3 DEF UpstreamChange
  <2>2. ReadClock /\ ~calm' /\ ~settled' /\ UNCHANGED <<listener, rows>>
    BY <1>3 DEF UpstreamChange, tables
  <2>3. \A i \in 1..Len(wire') : wire'[i].own <= clock'
    BY <1>0, <2>1, <2>2, SentIsPast
  <2>4. NoneAhead'
    BY <1>0, <1>1, <1>2, <2>2, <2>3 DEF NoneAhead, ReadClock
  <2> QED BY <2>2, <2>4
          DEF QuietInv, CalmPollIsTrue, NothingDisagrees, QuietSnapshotHolds
<1>4. ASSUME NEW f \in Friend, UpstreamUpdate(f)
      PROVE  QuietInv'
  <2>1. /\ ReadClock /\ Send(f, Silent) /\ ~calm'
        /\ UNCHANGED <<truth, listener, poll, rows, settled>>
    BY <1>4 DEF UpstreamUpdate, tables
  <2>2. \A i \in 1..Len(wire') :
          /\ wire'[i].own <= clock'
          /\ wire'[i].says = Silent \/ (i \in 1..Len(wire) /\ wire'[i] = wire[i])
    BY <1>0, <2>1, SentIsPast
  <2>3. NoneAhead'
    BY <1>0, <1>1, <1>2, <2>1, <2>2 DEF NoneAhead, ReadClock
  <2>4. NothingDisagrees'
    BY <1>0, <2>1, <2>2 DEF NothingDisagrees, Listed
  <2> QED BY <1>0, <2>1, <2>3, <2>4 DEF QuietInv, CalmPollIsTrue, QuietSnapshotHolds, Listed
<1>5. CASE PipelineDrops \/ ListenerFails \/ Restart
  <2>1. /\ wire' = <<>> /\ UNCHANGED <<truth, clock, rows, calm, settled>>
        /\ listener' = listener \/ listener' = Idle
        /\ poll' = poll \/ poll'.pc = "idle"
    BY <1>5, NotPollingIsTyped
       DEF PipelineDrops, ListenerFails, Restart, tables, ghosts
  <2> QED BY <2>1, QuietStays
<1>6. CASE PollOverLimit \/ \E c \in Category : PollFails(c)
  <2>1. /\ ReadClock /\ poll'.pc = "idle"
        /\ UNCHANGED <<truth, wire, listener, rows, calm, settled>>
    BY <1>6, NotPollingIsTyped DEF PollOverLimit, PollFails, RecordFailure
  <2> QED BY <2>1, QuietStays DEF ReadClock
<1>7. CASE ListenerTake
  <2>1. /\ wire # <<>> /\ wire' = Tail(wire)
        /\ IF Head(wire).own = 0 THEN ReadClock ELSE UNCHANGED clock
        /\ listener' = [friend |-> Head(wire).friend, says |-> Head(wire).says,
                        at |-> IF Head(wire).own = 0 THEN clock' ELSE Head(wire).own]
        /\ UNCHANGED <<truth, poll, rows, calm, settled>>
    BY <1>7 DEF ListenerTake, tables, ghosts
  <2>2. /\ 1 \in 1..Len(wire) /\ Head(wire) = wire[1]
        /\ \A i \in 1..Len(wire') : i + 1 \in 1..Len(wire) /\ wire'[i] = wire[i + 1]
    BY <1>0, <2>1, TailElements DEF FeedTyped
  <2>3. \A i \in 1..Len(wire) : wire[i].own \in Nat /\ wire[i].own <= clock
    <3> TAKE i \in 1..Len(wire)
    <3>1. wire[i] \in Message
      BY <1>0 DEF FeedTyped
    <3>2. wire[i].own \in Nat
      BY <3>1 DEF Message
    <3> QED BY <1>0, <3>2 DEF NoneAhead
  <2>4. clock' = clock \/ clock' = clock + 1
    BY <2>1 DEF ReadClock
  <2>5. listener'.at <= clock'
    BY <1>1, <2>1, <2>2, <2>3, <2>4
  <2>6. NoneAhead'
    BY <1>0, <1>1, <2>1, <2>2, <2>3, <2>4, <2>5 DEF NoneAhead
  <2>7. CalmPollIsTrue'
    BY <1>0, <2>1 DEF CalmPollIsTrue
  <2>8. settled => listener'.says = Silent
    BY <1>0, <2>1, <2>2 DEF NothingDisagrees
  <2>9. NothingDisagrees'
    BY <1>0, <2>1, <2>2, <2>8 DEF NothingDisagrees, Listed
  <2> QED BY <1>0, <2>1, <2>6, <2>7, <2>9 DEF QuietInv, QuietSnapshotHolds, Listed
<1>8. CASE ListenerStore
  <2> DEFINE says == [f \in {listener.friend} |-> listener.says]
  <2>1. /\ listener # Idle /\ listener' = Idle /\ Ingest(Batch(says, listener.at))
        /\ UNCHANGED <<truth, wire, clock, poll, calm, settled>>
    BY <1>8 DEF ListenerStore, Patch, ghosts
  <2>2. Reports(says, listener.at)
    BY <1>0, <2>1, PatchReports
  <2>3. /\ DOMAIN says = {listener.friend} /\ says[listener.friend] = listener.says
    OBVIOUS
  <2> HIDE DEF says
  <2>4. \A f \in Friend : rows'[f] = rows[f] \/ rows'[f].at = listener.at
    <3> TAKE f \in Friend
    <3>1. f \in DOMAIN says => Normalized(f, says[f], listener.at).at = listener.at
      BY <1>0, <2>2, NormalizedIsRow DEF Reports
    <3> QED BY <1>0, <2>1, <2>2, <3>1, IngestRow
  <2>5. NoneAhead'
    BY <1>0, <2>1, <2>4 DEF NoneAhead
  <2>6. CalmPollIsTrue'
    BY <1>0, <2>1, <2>4 DEF CalmPollIsTrue, Listed
  <2>7. NothingDisagrees'
    BY <1>0, <2>1 DEF NothingDisagrees, Listed
  <2>8. QuietSnapshotHolds'
    <3> SUFFICES ASSUME settled, NEW f \in Listed
                 PROVE  rows'[f].presence = truth[f]
      BY <2>1 DEF QuietSnapshotHolds, Listed
    <3>1. f \in DOMAIN says => says[f] \in {Silent, truth[f]} \/ listener.at < rows[f].at
      BY <1>0, <2>1, <2>3 DEF NothingDisagrees
    <3> QED BY <1>0, <2>1, <2>2, <3>1, SettledRow
  <2> QED BY <2>5, <2>6, <2>7, <2>8 DEF QuietInv
<1>9. CASE PollOnline
  <2>1. /\ poll' = [pc |-> "online", stayed |-> Listed, at |-> 0,
                    got |-> [f \in {g \in Listed : truth[g] # Offline} |-> truth[f]]]
        /\ calm' = (wire = <<>>)
        /\ UNCHANGED <<truth, wire, clock, listener, rows, settled>>
    BY <1>9 DEF PollOnline, tables
  <2>2. /\ poll'.pc = "online" /\ DOMAIN poll'.got = {g \in Listed : truth[g] # Offline}
        /\ \A f \in DOMAIN poll'.got : poll'.got[f] = truth[f]
    BY <2>1
  <2>3. NoneAhead' /\ QuietSnapshotHolds'
    BY <1>0, <2>1 DEF NoneAhead, QuietSnapshotHolds, Listed
  <2>4. CalmPollIsTrue'
    BY <2>1, <2>2 DEF CalmPollIsTrue, Listed
  <2>5. NothingDisagrees'
    BY <1>0, <2>1, <2>2 DEF NothingDisagrees, Listed
  <2> QED BY <2>3, <2>4, <2>5 DEF QuietInv
<1>10. CASE PollOffline
  <2> DEFINE offline == {g \in Listed : truth[g] = Offline}
             all == [f \in DOMAIN poll.got \cup offline |->
                       IF f \in DOMAIN poll.got THEN poll.got[f] ELSE Offline]
  <2>1. /\ poll.pc = "online" /\ poll' = [poll EXCEPT !.pc = "fetched", !.got = all]
        /\ UNCHANGED <<truth, wire, clock, listener, rows, calm, settled>>
    BY <1>10 DEF PollOffline, tables, ghosts
  <2>2. /\ DOMAIN all = DOMAIN poll.got \cup offline
        /\ \A f \in DOMAIN all :
             all[f] = IF f \in DOMAIN poll.got THEN poll.got[f] ELSE Offline
    OBVIOUS
  <2> HIDE DEF all
  <2>3. poll'.pc = "fetched" /\ poll'.got = all
    BY <1>0, <2>1 DEF PollTyped, PollFields
  <2>4. NoneAhead' /\ QuietSnapshotHolds'
    BY <1>0, <2>1 DEF NoneAhead, QuietSnapshotHolds, Listed
  <2>5. CalmPollIsTrue'
    <3> SUFFICES ASSUME calm
                 PROVE  /\ wire = <<>>
                        /\ \A f \in DOMAIN all : f \in Listed /\ all[f] = truth[f]
                        /\ Listed \subseteq DOMAIN all
      BY <2>1, <2>3 DEF CalmPollIsTrue, Listed
    <3>1. /\ wire = <<>>
          /\ \A f \in DOMAIN poll.got : f \in Listed /\ poll.got[f] = truth[f]
          /\ \A f \in Listed : truth[f] # Offline => f \in DOMAIN poll.got
      BY <1>0, <2>1 DEF CalmPollIsTrue
    <3> QED BY <2>2, <3>1
  <2>6. settled => \A f \in DOMAIN all : f \in Listed => all[f] = truth[f]
    BY <1>0, <2>1, <2>2 DEF NothingDisagrees
  <2>7. NothingDisagrees'
    BY <1>0, <2>1, <2>3, <2>6 DEF NothingDisagrees, Listed
  <2> QED BY <2>4, <2>5, <2>7 DEF QuietInv
<1>11. CASE PollStamp
  <2>1. /\ poll.pc = "fetched" /\ clock' = clock + 1
        /\ poll' = [poll EXCEPT !.pc = "stamped", !.at = clock']
        /\ UNCHANGED <<truth, wire, listener, rows, calm, settled>>
    BY <1>11 DEF PollStamp, ReadClock, tables, ghosts
  <2>2. poll'.pc = "stamped" /\ poll'.at = clock' /\ poll'.got = poll.got
    BY <1>0, <2>1 DEF PollTyped, PollFields
  <2>3. /\ listener # Idle => listener.at < clock'
        /\ \A f \in Friend : rows[f].at < clock'
    BY <1>0, <1>1, <1>2, <2>1 DEF NoneAhead
  <2>4. \A i \in 1..Len(wire) : wire[i].own <= clock'
    <3> TAKE i \in 1..Len(wire)
    <3>1. wire[i] \in Message
      BY <1>0 DEF FeedTyped
    <3>2. wire[i].own \in Nat /\ wire[i].own <= clock
      BY <1>0, <3>1 DEF Message, NoneAhead
    <3> QED BY <1>1, <2>1, <3>2
  <2>5. NoneAhead'
    BY <1>1, <1>2, <2>1, <2>3, <2>4 DEF NoneAhead
  <2>6. CalmPollIsTrue'
    BY <1>0, <2>1, <2>2, <2>3 DEF CalmPollIsTrue, Listed
  <2>7. NothingDisagrees'
    BY <1>0, <2>1, <2>2 DEF NothingDisagrees, Listed
  <2> QED BY <1>0, <2>1, <2>5, <2>6, <2>7 DEF QuietInv, QuietSnapshotHolds, Listed
<1>12. CASE PollCommit
  <2>1. /\ poll.pc = "stamped" /\ poll' = NotPolling /\ Ingest(Batch(poll.got, poll.at))
        /\ settled' = (settled \/ calm) /\ UNCHANGED <<truth, wire, clock, listener, calm>>
    BY <1>12 DEF PollCommit, Snapshot
  <2>2. Reports(poll.got, poll.at) /\ poll.at \in Nat /\ poll.at <= clock
    BY <1>0, <2>1, SnapshotReports DEF PollTyped, Stamped
  <2>3. \A f \in DOMAIN poll.got : /\ Normalized(f, poll.got[f], poll.at).at = poll.at
                                   /\ Normalized(f, poll.got[f], poll.at).presence = poll.got[f]
    <3> TAKE f \in DOMAIN poll.got
    <3>1. f \in Friend /\ poll.got[f] \in Presence /\ Silent \notin Presence
      BY <1>0, <2>1, ParameterAssumption
      DEF PollTyped, IsList, Presence, Silent, Offline
    <3> QED BY <1>0, <2>2, <3>1, NormalizedIsRow
  <2>4. \A f \in Friend : rows'[f] = rows[f] \/ rows'[f].at = poll.at
    BY <1>0, <2>1, <2>2, <2>3, IngestRow
  <2>5. NoneAhead'
    BY <1>0, <2>1, <2>2, <2>4 DEF NoneAhead
  <2>6. poll'.pc = "idle"
    BY <2>1, NotPollingIsTyped
  <2>7. CalmPollIsTrue'
    BY <2>6 DEF CalmPollIsTrue
  <2>8. CASE calm
    <3>1. /\ wire = <<>>
          /\ \A f \in DOMAIN poll.got : f \in Listed /\ poll.got[f] = truth[f]
          /\ Listed \subseteq DOMAIN poll.got
          /\ listener # Idle => listener.at < poll.at
          /\ \A f \in Friend : rows[f].at < poll.at
      BY <1>0, <2>1, <2>8 DEF CalmPollIsTrue
    <3>2. ASSUME NEW f \in Listed
          PROVE  rows'[f].presence = truth[f] /\ rows'[f].at = poll.at
      <4>1. f \in Friend /\ f \in DOMAIN poll.got /\ rows[f].at < poll.at
        BY <3>1 DEF Listed
      <4>2. rows'[f] = Normalized(f, poll.got[f], poll.at)
        BY <1>0, <1>1, <2>1, <2>2, <4>1, IngestRow
      <4> QED BY <2>3, <3>1, <4>1, <4>2
    <3>3. QuietSnapshotHolds'
      BY <2>1, <3>2 DEF QuietSnapshotHolds, Listed
    <3>4. Len(wire) = 0
      BY <3>1
    <3>5. NothingDisagrees'
      BY <2>1, <2>6, <3>1, <3>2, <3>4 DEF NothingDisagrees, Listed
    <3> QED BY <2>5, <2>7, <3>3, <3>5 DEF QuietInv
  <2>9. CASE settled
    <3>1. ASSUME NEW f \in Listed
          PROVE  rows'[f].presence = truth[f] /\ rows[f].at <= rows'[f].at
      <4>1. f \in DOMAIN poll.got => poll.got[f] = truth[f]
        BY <1>0, <2>1, <2>9 DEF NothingDisagrees
      <4> QED BY <1>0, <2>1, <2>2, <2>9, <4>1, SettledRow
    <3>2. QuietSnapshotHolds'
      BY <2>1, <3>1 DEF QuietSnapshotHolds, Listed
    <3>3. ASSUME listener # Idle, listener.friend \in Listed
          PROVE  listener.says = Silent \/ listener.at < rows'[listener.friend].at
      <4>1. listener.says = Silent \/ listener.at < rows[listener.friend].at
        BY <1>0, <2>9, <3>3 DEF NothingDisagrees
      <4>2. rows[listener.friend].at \in Nat /\ rows'[listener.friend].at \in Nat
        BY <1>1, <1>2, <2>2, <2>4, <3>3
      <4> QED BY <1>2, <3>1, <3>3, <4>1, <4>2
    <3>4. NothingDisagrees'
      BY <1>0, <2>1, <2>6, <2>9, <3>3 DEF NothingDisagrees, Listed
    <3> QED BY <2>5, <2>7, <3>2, <3>4 DEF QuietInv
  <2>10. CASE ~calm /\ ~settled
    BY <2>1, <2>5, <2>7, <2>10 DEF QuietInv, NothingDisagrees, QuietSnapshotHolds
  <2> QED BY <2>8, <2>9, <2>10
<1>13. CASE UNCHANGED vars
  BY <1>13, QuietStays DEF vars
<1> QED BY <1>3, <1>4, <1>5, <1>6, <1>7, <1>8, <1>9, <1>10, <1>11, <1>12, <1>13
        DEF Next, ListenerStep, PollStep

LEMMA QuietInit == Init => QuietInv
<1> SUFFICES ASSUME Init
             PROVE  QuietInv
  OBVIOUS
<1>1. poll.pc = "idle" /\ wire = <<>> /\ Len(wire) = 0 /\ ~calm /\ ~settled
  BY NotPollingIsTyped DEF Init
<1>2. \A f \in Friend : rows[f].at = 0
  BY DEF Init, NoRow
<1> QED BY <1>1, <1>2
        DEF Init, QuietInv, NoneAhead, CalmPollIsTrue, NothingDisagrees, QuietSnapshotHolds

\* While events carry no later time than they were sent at, what a quiet
\* snapshot stored holds until VRChat changes (storage.py:1336 and
\* hosted_collector.py's two threads): no late event, no later poll takes it back.
THEOREM QuietHolds ==
  ASSUME Skews \subseteq {0}
  PROVE  Spec => []QuietSnapshotHolds
<1>1. Base /\ Base' /\ QuietInv /\ [Next]_vars => QuietInv'
  BY QuietNext
<1>2. QuietInv => QuietSnapshotHolds
  BY DEF QuietInv
<1> QED BY <1>1, <1>2, QuietInit, BaseAlways, PTL DEF Spec

-----------------------------------------------------------------------------
(* Usage                                                                    *)

\* What is counted is finite.
UsageInv == IsFiniteSet(history) /\ UsageMatchesTables

LEMMA StockFinite ==
  ASSUME NEW table, NEW S, S \subseteq Friend
  PROVE  IsFiniteSet(Stock(table, S)) /\ Size(table, S) \in Nat
<1>1. IsFiniteSet(S) /\ IsFiniteSet(1..2)
  BY ParameterAssumption, FS_Subset, FS_Interval
<1>2. IsFiniteSet(S \X (1..2))
  BY <1>1, FS_Product
<1>3. Stock(table, S) \in SUBSET (S \X (1..2))
  BY DEF Stock
<1>4. IsFiniteSet(Stock(table, S))
  BY <1>2, <1>3, FS_Subset
<1> QED BY <1>4, FS_CardinalityType DEF Size

\* The size of a table is that of some rows and of the others.
LEMMA StockSplit ==
  ASSUME NEW table, NEW S, S \subseteq Friend, NEW A, A \subseteq S
  PROVE  Size(table, S) = Size(table, A) + Size(table, S \ A)
<1>1. Stock(table, S) = Stock(table, A) \cup Stock(table, S \ A)
  BY DEF Stock
<1>2. Stock(table, A) \cap Stock(table, S \ A) = {}
  BY DEF Stock
<1>3. /\ IsFiniteSet(Stock(table, A)) /\ IsFiniteSet(Stock(table, S \ A))
      /\ Size(table, A) \in Nat /\ Size(table, S \ A) \in Nat
  BY StockFinite
<1>4. Cardinality(Stock(table, S))
        = Cardinality(Stock(table, A)) + Cardinality(Stock(table, S \ A)) - Cardinality({})
  BY <1>1, <1>2, <1>3, FS_Union, ZenonT(40)
<1> QED BY <1>3, <1>4, FS_EmptySet DEF Size

LEMMA StockSame ==
  ASSUME NEW t, NEW u, NEW S, \A f \in S : t[f] = u[f]
  PROVE  Size(t, S) = Size(u, S)
<1>1. Stock(t, S) = Stock(u, S)
  BY DEF Stock
<1> QED BY <1>1 DEF Size

\* A batch makes finitely many events.
LEMMA TransitionsFinite ==
  ASSUME NEW batch, DOMAIN batch \subseteq Friend
  PROVE  IsFiniteSet(Transitions(batch))
<1> DEFINE Changed == {f \in DOMAIN batch : batch[f].presence # rows[f].presence}
           event == [f \in Changed |-> [friend |-> f, old |-> rows[f].presence,
                                        new |-> batch[f].presence, at |-> batch[f].at]]
<1>1. Changed \subseteq Friend /\ IsFiniteSet(Changed)
  BY ParameterAssumption, FS_Subset
<1>2. Transitions(batch) = {event[f] : f \in Changed}
  BY DEF Transitions, Transition
<1>3. event \in [Changed -> Transitions(batch)]
  BY <1>2
<1>4. \A e \in Transitions(batch) : \E f \in Changed : event[f] = e
  BY <1>2
<1>5. event \in Surjection(Changed, Transitions(batch))
  <2> HIDE DEF event, Changed
  <2> QED BY <1>3, <1>4 DEF Surjection
<1> QED BY <1>1, <1>5, FS_Surjection

\* The counters are moved by what the batch adds and replaces.
LEMMA IngestCounts ==
  ASSUME Typed, UsageInv, NEW says, NEW at, Reports(says, at), Ingest(Batch(says, at))
  PROVE  UsageInv'
<1> DEFINE batch == Batch(says, at)
           A == Accepted(batch)
           new == Transitions(batch) \ history
           Known == {f \in Friend : rows[f] # NoRow}
           Added == {f \in A : rows[f] = NoRow}
<1>1. /\ rows' = [f \in Friend |-> IF f \in A THEN batch[f] ELSE rows[f]]
      /\ history' = history \cup new
      /\ usage' = Usage(batch, A, new)
  BY DEF Ingest
<1>2. /\ usage'.friends = usage.friends + Cardinality(Added)
      /\ usage'.bytes = usage.bytes + Size(batch, A) - Size(rows, A)
      /\ usage'.events = usage.events + Cardinality(new)
  BY <1>1 DEF Usage
<1>3. /\ DOMAIN batch = DOMAIN says /\ DOMAIN batch \subseteq Friend /\ A \subseteq Friend
      /\ \A f \in A : batch[f] = Normalized(f, says[f], at) /\ f \in DOMAIN says
  BY BatchRows DEF Reports, Accepted
<1>4. \A f \in A : batch[f] # NoRow
  <2> TAKE f \in A
  <2>1. batch[f] \in Row
    BY <1>3, NormalizedIsRow DEF Reports
  <2>2. Unknown \notin Presence
    BY ParameterAssumption DEF Presence, Unknown, Offline
  <2> QED BY <2>1, <2>2 DEF Row, NoRow
<1> HIDE DEF batch, A
<1>5. usage'.friends = Cardinality({f \in Friend : rows'[f] # NoRow})
  <2>1. {f \in Friend : rows'[f] # NoRow} = Known \cup Added
    BY <1>1, <1>3, <1>4
  <2>2. Known \cap Added = {}
    OBVIOUS
  <2>3. IsFiniteSet(Known) /\ IsFiniteSet(Added)
    BY <1>3, ParameterAssumption, FS_Subset
  <2>4. Cardinality(Known \cup Added)
          = Cardinality(Known) + Cardinality(Added) - Cardinality({})
    BY <2>2, <2>3, FS_Union
  <2>5. Cardinality(Known) \in Nat /\ Cardinality(Added) \in Nat /\ Cardinality({}) = 0
    BY <2>3, FS_CardinalityType, FS_EmptySet
  <2>6. usage.friends = Cardinality(Known)
    BY DEF UsageInv, UsageMatchesTables
  <2>7. usage'.friends = Cardinality(Known \cup Added)
    BY <1>2, <2>4, <2>5, <2>6
  <2> QED BY <2>1, <2>7
<1>6. usage'.bytes = Size(rows', Friend)
  <2>1. Size(rows', Friend) = Size(rows', A) + Size(rows', Friend \ A)
    BY <1>3, StockSplit
  <2>2. Size(rows, Friend) = Size(rows, A) + Size(rows, Friend \ A)
    BY <1>3, StockSplit
  <2>3. Size(rows', A) = Size(batch, A)
    BY <1>1, <1>3, StockSame
  <2>4. Size(rows', Friend \ A) = Size(rows, Friend \ A)
    BY <1>1, StockSame
  <2>5. /\ Size(rows, A) \in Nat /\ Size(batch, A) \in Nat
        /\ Size(rows, Friend \ A) \in Nat
    BY <1>3, StockFinite
  <2>6. usage.bytes = Size(rows, Friend)
    BY DEF UsageInv, UsageMatchesTables
  <2> QED BY <1>2, <2>1, <2>2, <2>3, <2>4, <2>5, <2>6
<1>7. IsFiniteSet(history') /\ usage'.events = Cardinality(history')
  <2>1. IsFiniteSet(history) /\ usage.events = Cardinality(history)
    BY DEF UsageInv, UsageMatchesTables
  <2>2. IsFiniteSet(new)
    BY <1>3, TransitionsFinite, FS_Difference
  <2>3. history \cap new = {}
    OBVIOUS
  <2>4. /\ IsFiniteSet(history \cup new)
        /\ Cardinality(history \cup new)
             = Cardinality(history) + Cardinality(new) - Cardinality({})
    BY <2>1, <2>2, <2>3, FS_Union
  <2>5. Cardinality(history) \in Nat /\ Cardinality(new) \in Nat /\ Cardinality({}) = 0
    BY <2>1, <2>2, FS_CardinalityType, FS_EmptySet
  <2> QED BY <1>1, <1>2, <2>1, <2>4, <2>5
<1> QED BY <1>5, <1>6, <1>7 DEF UsageInv, UsageMatchesTables

LEMMA UsageInit == Init => UsageInv
<1> SUFFICES ASSUME Init
             PROVE  UsageInv
  OBVIOUS
<1>0. Bytes(NoRow) = 0
  BY ParameterAssumption DEF Bytes, NoRow, Unknown, Offline
<1>1. \A f \in Friend : rows[f] = NoRow /\ Bytes(rows[f]) = 0
  BY <1>0 DEF Init
<1>2. {f \in Friend : rows[f] # NoRow} = {}
  BY <1>1
<1>3. Stock(rows, Friend) = {}
  BY <1>1 DEF Stock
<1> QED BY <1>2, <1>3, FS_EmptySet DEF Init, UsageInv, UsageMatchesTables, Size

LEMMA UsageNext ==
  ASSUME Base, UsageInv, [Next]_vars
  PROVE  UsageInv'
<1>0. Typed
  BY DEF Base
<1>1. CASE ListenerStore
  BY <1>0, <1>1, PatchReports, IngestCounts DEF ListenerStore, Patch
<1>2. CASE PollCommit
  BY <1>0, <1>2, SnapshotReports, IngestCounts DEF PollCommit, Snapshot
<1>3. CASE UNCHANGED <<rows, history, usage>>
  BY <1>3 DEF UsageInv, UsageMatchesTables, Size, Stock
<1>4. ListenerStore \/ PollCommit \/ UNCHANGED <<rows, history, usage>>
  BY DEF Next, ListenerStep, PollStep, UpstreamChange, UpstreamUpdate, PipelineDrops,
         ListenerTake, ListenerFails, PollOnline, PollOffline, PollStamp, PollOverLimit,
         PollFails, Restart, tables, vars
<1> QED BY <1>1, <1>2, <1>3, <1>4

LEMMA UsageAlways == Spec => []UsageInv
BY UsageInit, UsageNext, BaseAlways, PTL DEF Spec

\* The counters that the limits trust, carried along by every ingest, are what
\* counting the tables would give (storage.py:1339-1354, :1517-1541), whatever
\* part of a batch is refused or repeated.
THEOREM UsageExact == Spec => []UsageMatchesTables
BY UsageAlways, PTL DEF UsageInv

-----------------------------------------------------------------------------
(* The whole type invariant                                                 *)

LEMMA PollInit == NotPolling \in Poll
<1>1. <<>> \in [{} -> Presence] /\ {} \in SUBSET Friend
  OBVIOUS
<1>2. <<>> \in UNION {[S -> Presence] : S \in SUBSET Friend}
  BY <1>1
<1> QED BY <1>2 DEF NotPolling, Poll

LEMMA ListsAreGot ==
  ASSUME NEW got, IsList(got), got = [f \in DOMAIN got |-> got[f]]
  PROVE  got \in UNION {[S -> Presence] : S \in SUBSET Friend}
<1>1. got \in [DOMAIN got -> Presence]
  BY DEF IsList
<1>2. DOMAIN got \in SUBSET Friend
  BY DEF IsList
<1> QED BY <1>1, <1>2

\* The rest of the poll's type: the list in it is a function, and those who stay
\* are friends.
LEMMA PollNext ==
  ASSUME Base, poll \in Poll, [Next]_vars
  PROVE  poll' \in Poll
<1>1. /\ clock \in Nat
      /\ ReadClock => clock' \in Nat
      /\ Listed \subseteq Friend
      /\ truth \in [Friend -> Presence \cup {Absent}]
  BY DEF Base, Typed, FeedTyped, ReadClock, Listed
<1>2. ASSUME NEW f \in Friend, UpstreamChange(f)
      PROVE  poll' \in Poll
  BY <1>2 DEF UpstreamChange, Poll
<1>3. CASE PollOnline
  <2> DEFINE got == [f \in {g \in Listed : truth[g] # Offline} |-> truth[f]]
  <2>1. got \in UNION {[S -> Presence] : S \in SUBSET Friend}
    BY <1>1, ListsAreGot DEF IsList, Listed
  <2>2. poll' = [pc |-> "online", stayed |-> Listed, at |-> 0, got |-> got]
    BY <1>3 DEF PollOnline
  <2> HIDE DEF got
  <2> QED BY <1>1, <2>1, <2>2 DEF Poll
<1>4. CASE PollOffline
  <2> DEFINE all == [f \in DOMAIN poll.got \cup {g \in Listed : truth[g] = Offline} |->
                       IF f \in DOMAIN poll.got THEN poll.got[f] ELSE Offline]
  <2>1. poll.pc = "online" /\ poll' = [poll EXCEPT !.pc = "fetched", !.got = all]
    BY <1>4 DEF PollOffline
  <2>2. IsList(poll.got)
    BY <2>1 DEF Base, Typed, PollTyped
  <2>3. all \in UNION {[S -> Presence] : S \in SUBSET Friend}
    BY <1>1, <2>2, ListsAreGot DEF IsList, Presence
  <2> HIDE DEF all
  <2> QED BY <2>1, <2>3 DEF Poll
<1>5. CASE PollStamp
  <2> DEFINE Lists == UNION {[S -> Presence] : S \in SUBSET Friend}
  <2>1. clock' \in Nat /\ poll' = [poll EXCEPT !.pc = "stamped", !.at = clock']
    BY <1>1, <1>5 DEF PollStamp
  <2>2. Poll = [pc : {"idle", "online", "fetched", "stamped"}, got : Lists,
                stayed : SUBSET Friend, at : Nat]
    BY DEF Poll
  <2> HIDE DEF Lists
  <2> QED BY <2>1, <2>2
<1>6. CASE poll' = poll \/ poll' = NotPolling
  BY <1>6, PollInit
<1> QED BY <1>2, <1>3, <1>4, <1>5, <1>6
        DEF Next, ListenerStep, PollStep, UpstreamUpdate, PipelineDrops, ListenerTake,
            ListenerStore, ListenerFails, PollCommit, PollOverLimit, PollFails, Restart, vars

\* What the counters count is finite, so that they are numbers.
LEMMA UsageTyped ==
  ASSUME Typed, UsageInv, usage = [x \in {"friends", "bytes", "events"} |-> usage[x]]
  PROVE  usage \in [friends : Nat, bytes : Int, events : Nat]
<1> DEFINE Known == {f \in Friend : rows[f] # NoRow}
<1>1. IsFiniteSet(Known)
  BY ParameterAssumption, FS_Subset
<1>2. Cardinality(Known) \in Nat /\ Cardinality(history) \in Nat
  BY <1>1, FS_CardinalityType DEF UsageInv
<1>3. Size(rows, Friend) \in Nat
  BY StockFinite
<1> QED BY <1>2, <1>3 DEF UsageInv, UsageMatchesTables

\* The counters are a record, and the history variables truth values.
Flags ==
  /\ usage = [x \in {"friends", "bytes", "events"} |-> usage[x]]
  /\ calm \in BOOLEAN /\ settled \in BOOLEAN

LEMMA FlagsNext ==
  ASSUME Flags, [Next]_vars
  PROVE  Flags'
<1>1. CASE \E batch, accepted, new : usage' = Usage(batch, accepted, new)
  <2>1. usage' = [x \in {"friends", "bytes", "events"} |-> usage'[x]]
    BY <1>1 DEF Usage
  <2> QED BY <1>1, <2>1
      DEF Flags, Next, ListenerStep, PollStep, UpstreamChange, UpstreamUpdate, PipelineDrops,
          ListenerTake, ListenerStore, ListenerFails, PollOnline, PollOffline, PollStamp,
          PollCommit, PollOverLimit, PollFails, Restart, tables, ghosts, vars
<1>2. CASE usage' = usage
  BY <1>2
  DEF Flags, Next, ListenerStep, PollStep, UpstreamChange, UpstreamUpdate, PipelineDrops,
      ListenerTake, ListenerStore, ListenerFails, PollOnline, PollOffline, PollStamp,
      PollCommit, PollOverLimit, PollFails, Restart, tables, ghosts, vars
<1>3. usage' = usage \/ \E batch, accepted, new : usage' = Usage(batch, accepted, new)
  BY DEF Next, ListenerStep, PollStep, UpstreamChange, UpstreamUpdate, PipelineDrops,
         ListenerTake, ListenerStore, ListenerFails, PollOnline, PollOffline, PollStamp,
         PollCommit, PollOverLimit, PollFails, Restart, Ingest, tables, ghosts, vars
<1> QED BY <1>1, <1>2, <1>3

\* Every variable keeps its type, the counters included.
THEOREM IngestTypeCorrect == Spec => []TypeOK
<1>1. Init => poll \in Poll /\ Flags
  BY PollInit DEF Init, Flags
<1>2. Base /\ poll \in Poll /\ Flags /\ [Next]_vars => (poll \in Poll)' /\ Flags'
  BY PollNext, FlagsNext
<1>3. Base /\ UsageInv /\ poll \in Poll /\ Flags => TypeOK
  BY UsageTyped DEF Base, Typed, FeedTyped, TablesTyped, TypeOK, Flags
<1> QED BY <1>1, <1>2, <1>3, BaseAlways, UsageAlways, PTL DEF Spec

=============================================================================
