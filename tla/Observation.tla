---------------------------- MODULE Observation ----------------------------
(***************************************************************************)
(* What the service concludes from the evidence it has collected: the      *)
(* interval engine of server/observation.py, the evidence that a query of  *)
(* server/analytics.py, insights.py and worlds.py fetches for a range, and *)
(* the figures they make of both.  The evidence grows as polls succeed or  *)
(* fail and as people change; every reachable state is one history, and    *)
(* the invariants compare what the code computes from it with definitions  *)
(* instant by instant.  Instants are natural numbers; a window is the      *)
(* instants from start to before end.                                      *)
(***************************************************************************)
EXTENDS Integers, Sequences, FiniteSets, SequencesExt

CONSTANTS
  Person,       \* friends, and the signed-in account
  Me,           \* the signed-in account
  Instance,     \* locations that name an instance of a world
  Hidden,       \* the empty location
  Away,         \* the location "offline"
  Report,       \* the statuses and locations that are reported
  First,        \* those of them the first snapshot may find
  Outcome,      \* what a poll ends with: success or not, and its expected interval
  Margin,       \* the 60 seconds of observation_deadline
  Floor,        \* its 600 seconds
  Lookback,     \* the 7260 seconds a query looks back for samples
  Instants,     \* when evidence may arrive
  Ahead,        \* those of them a clock that runs ahead may name
  Queries,      \* ranges that are asked for
  HourLength,   \* length of an hour
  MaxEvidence   \* bound on samples, events and tracking edges after the first poll

ASSUME PeopleAssumption == Me \in Person
ASSUME PlaceAssumption == Hidden \notin Instance /\ Away \notin Instance /\ Hidden # Away
ASSUME ReportAssumption ==
  First \subseteq Report /\ \A r \in Report : r.place \in Instance \cup {Hidden, Away}
ASSUME TimeAssumption ==
  /\ Ahead \subseteq Instants /\ Instants \subseteq Nat
  /\ {Margin, Floor, Lookback, MaxEvidence} \subseteq Nat /\ HourLength \in Nat \ {0}
  /\ \A o \in Outcome :
       /\ o.cadence \in Nat \ {0} /\ o.success \in BOOLEAN
       /\ Lookback >= 2 * o.cadence + Margin /\ Lookback >= Floor
  /\ Queries \subseteq [start: Nat, end: Nat] /\ \A q \in Queries : q.start < q.end

VARIABLES
  clock,     \* the instant up to which evidence has arrived
  samples,   \* collection_samples by observed_at
  events,    \* status_events of a person by occurred_at, id; with event_anomalies
  edges      \* friend_tracking_events of a person by occurred_at

vars == <<clock, samples, events, edges>>

Place == Instance \cup {Hidden, Away}

\* An authoritative sample of the collector, successful or not.
Sample == [at: Nat, cadence: Nat, success: BOOLEAN]

Event == [at: Nat, status: {r.status : r \in Report}, place: Place, anomaly: BOOLEAN]

Edge == [at: Nat, tracked: BOOLEAN]

Max2(a, b) == IF a > b THEN a ELSE b
Min2(a, b) == IF a < b THEN a ELSE b

\* What n rounds of a loop make of its first value.
Loop(Round(_, _), first, n) ==
  LET after[i \in 0..n] == IF i = 0 THEN first ELSE Round(after[i - 1], i)
  IN after[n]

\* The members of s at some of its indices, in their order
Picked(s, indices) ==
  Loop(LAMBDA picked, i : IF i \in indices THEN Append(picked, s[i]) ELSE picked, <<>>, Len(s))

-----------------------------------------------------------------------------
(* Windows                                                                  *)

Window(start, end) == [start |-> start, end |-> end]

\* TimeWindow.intersection, as a sequence of none or one
Intersection(a, b) ==
  LET start == Max2(a.start, b.start)
      end == Min2(a.end, b.end)
  IN IF end > start THEN <<Window(start, end)>> ELSE <<>>

\* sorted by start and end
Precedes(a, b) == a.start < b.start \/ (a.start = b.start /\ a.end <= b.end)

Insert(s, w) == InsertAt(s, Cardinality({j \in DOMAIN s : Precedes(s[j], w)}) + 1, w)

Sorted(windows) == Loop(LAMBDA s, i : Insert(s, windows[i]), <<>>, Len(windows))

\* merge_windows
Merge(merged, w) ==
  IF merged = <<>> \/ w.start > Last(merged).end THEN Append(merged, w)
  ELSE [merged EXCEPT ![Len(merged)].end = Max2(@, w.end)]

MergeWindows(windows) ==
  LET s == Sorted(windows) IN Loop(LAMBDA merged, i : Merge(merged, s[i]), <<>>, Len(s))

\* intersect_windows: two indices advance, the one whose window ends first.
Pair(l, r, at) ==
  LET both == Intersection(l[at.i], r[at.j]) IN
  IF at.i > Len(l) \/ at.j > Len(r) THEN at
  ELSE IF l[at.i].end <= r[at.j].end
  THEN [at EXCEPT !.i = @ + 1, !.found = @ \o both]
  ELSE [at EXCEPT !.j = @ + 1, !.found = @ \o both]

IntersectWindows(left, right) ==
  LET l == MergeWindows(left)
      r == MergeWindows(right)
  IN MergeWindows(Loop(LAMBDA at, k : Pair(l, r, at), [i |-> 1, j |-> 1, found |-> <<>>],
                       Len(l) + Len(r)).found)

\* _minutes
Minutes(windows) ==
  Loop(LAMBDA sum, i : sum + windows[i].end - windows[i].start, 0, Len(windows))

-----------------------------------------------------------------------------
(* The engine                                                               *)

\* observation_deadline
Deadline(sample) == sample.at + Max2(2 * sample.cadence + Margin, Floor)

\* Mutant: a poll that failed has been one.
EverySample(ss) ==
  Picked(ss, {i \in DOMAIN ss : \A j \in 1..(i - 1) : ss[j].at # ss[i].at})

\* The successful samples, of one instant the one with the longest cadence.
Successful(ss) ==
  LET Later(i) == \E j \in DOMAIN ss :
        /\ ss[j].success /\ ss[j].at = ss[i].at
        /\ ss[j].cadence > ss[i].cadence \/ (ss[j].cadence = ss[i].cadence /\ j > i)
  IN Picked(ss, {i \in DOMAIN ss : ss[i].success /\ ~Later(i)})

\* build_observed_windows: two samples no further apart than the deadline of the
\* first open a run, which ends with the deadline of its last.
Closed(run) == run.done \o run.open

Extend(good, run, i) ==
  IF i = Len(good) THEN run
  ELSE IF good[i + 1].at <= Deadline(good[i])
  THEN [run EXCEPT !.open =
         <<Window(IF @ = <<>> THEN good[i].at ELSE @[1].start, Deadline(good[i + 1]))>>]
  ELSE [open |-> <<>>, done |-> Closed(run)]

Runs(good) ==
  Closed(Loop(LAMBDA run, i : Extend(good, run, i), [open |-> <<>>, done |-> <<>>], Len(good)))

Clipped(windows, query) ==
  Loop(LAMBDA s, i : s \o Intersection(windows[i], query), <<>>, Len(windows))

ObservedWindows(ss, query) == MergeWindows(Clipped(Runs(Successful(ss)), query))

\* build_tracking_windows
Track(query, acc, e) ==
  IF e.at < query.start THEN [acc EXCEPT !.tracked = e.tracked]
  ELSE IF e.at >= query.end THEN acc
  ELSE [tracked |-> e.tracked, cursor |-> Max2(acc.cursor, e.at),
        windows |-> IF acc.tracked /\ e.at > acc.cursor
                    THEN Append(acc.windows, Window(acc.cursor, e.at)) ELSE acc.windows]

TrackingWindows(es, query) ==
  LET last == Loop(LAMBDA acc, i : Track(query, acc, es[i]),
                   [tracked |-> FALSE, cursor |-> query.start, windows |-> <<>>], Len(es))
  IN MergeWindows(IF last.tracked /\ query.end > last.cursor
                  THEN Append(last.windows, Window(last.cursor, query.end))
                  ELSE last.windows)

\* effective_state
EffectiveState(p, status, place) ==
  IF place = Away \/ (p = Me /\ place = Hidden) THEN "offline" ELSE status

\* _presence_states; anomalies are left out.
State(from, to, acc) ==
  [start |-> from, end |-> to, status |-> acc.status, place |-> acc.place]

Reported(p, query, acc, e) ==
  LET next == [acc EXCEPT !.status = EffectiveState(p, e.status, e.place), !.place = e.place]
  IN IF e.anomaly \/ e.at >= query.end THEN acc
     ELSE IF e.at < query.start THEN next
     ELSE [next EXCEPT !.cursor = Max2(@, e.at),
                       !.states = IF e.at > acc.cursor
                                  THEN Append(@, State(acc.cursor, e.at, acc)) ELSE @]

PresenceStates(p, es, query) ==
  LET last == Loop(LAMBDA acc, i : Reported(p, query, acc, es[i]),
                   [status |-> "offline", place |-> Hidden, cursor |-> query.start,
                    states |-> <<>>], Len(es))
  IN IF query.end > last.cursor
     THEN Append(last.states, State(last.cursor, query.end, last)) ELSE last.states

\* The part of a state that is in a window
Cut(state, w) ==
  [i \in DOMAIN Intersection(state, w) |->
     [state EXCEPT !.start = Intersection(state, w)[i].start,
                   !.end = Intersection(state, w)[i].end]]

\* The states other than offline, cut down to what is covered.
Cuts(coverage, state) ==
  IF state.status = "offline" THEN <<>>
  ELSE Loop(LAMBDA cuts, j : cuts \o Cut(state, coverage[j]), <<>>, Len(coverage))

Spans(p, es, covered, query) ==
  LET coverage == MergeWindows(covered)
      states == PresenceStates(p, es, query)
  IN Loop(LAMBDA spans, i : spans \o Cuts(coverage, states[i]), <<>>, Len(states))

\* Spans that meet and agree in some fields are one.
Join(fields, merged, s) ==
  IF /\ merged # <<>> /\ s.start <= Last(merged).end
     /\ \A f \in fields : s[f] = Last(merged)[f]
  THEN [merged EXCEPT ![Len(merged)].end = Max2(@, s.end)]
  ELSE Append(merged, s)

Joined(spans, fields) ==
  Loop(LAMBDA merged, i : Join(fields, merged, spans[i]), <<>>, Len(spans))

\* build_online_spans
OnlineSpans(p, es, covered, query) == Joined(Spans(p, es, covered, query), {"status"})

\* build_world_spans
WorldSpans(p, es, covered, query) == Joined(Spans(p, es, covered, query), {"status", "place"})

\* Mutant: covered is enough.
CellUntracked(online, covered, tracked, hour) ==
  LET observed == IntersectWindows(covered, <<hour>>)
  IN [eligible |-> Minutes(IntersectWindows(tracked, <<hour>>)), observed |-> Minutes(observed),
      online |-> Minutes(IntersectWindows(observed, online))]

\* activity_cell
ActivityCell(online, covered, tracked, hour) ==
  LET eligible == IntersectWindows(tracked, <<hour>>)
      observed == IntersectWindows(eligible, covered)
  IN [eligible |-> Minutes(eligible), observed |-> Minutes(observed),
      online |-> Minutes(IntersectWindows(observed, online))]

\* coverage_summary: what is observed of the range, and the gaps
Gap(acc, w) ==
  [cursor |-> Max2(acc.cursor, w.end),
   gaps |-> IF w.start > acc.cursor
            THEN Append(acc.gaps, Window(acc.cursor, w.start)) ELSE acc.gaps]

CoverageSummary(covered, query) ==
  LET observed == IntersectWindows(covered, <<query>>)
      last == Loop(LAMBDA acc, i : Gap(acc, observed[i]),
                   [cursor |-> query.start, gaps |-> <<>>], Len(observed))
  IN [observed |-> observed,
      gaps |-> IF last.cursor < query.end
               THEN Append(last.gaps, Window(last.cursor, query.end)) ELSE last.gaps]

-----------------------------------------------------------------------------
(* What a query fetches                                                     *)

\* Mutant: the samples of the range.
SamplesInRange(query) ==
  Picked(samples, {i \in DOMAIN samples :
                     samples[i].at >= query.start /\ samples[i].at <= query.end})

\* The samples of the range and of the time before it.
FetchedSamples(query) ==
  Picked(samples, {i \in DOMAIN samples :
                     samples[i].at >= query.start - Lookback /\ samples[i].at <= query.end})

\* The rows of the range and the last one before it.
WithPrior(rows, query) ==
  LET prior == {i \in DOMAIN rows : rows[i].at < query.start}
      within == {i \in DOMAIN rows : rows[i].at >= query.start /\ rows[i].at < query.end}
  IN Picked(rows, {i \in prior : \A j \in prior : j <= i} \cup within)

FetchedEdges(p, query) == WithPrior(edges[p], query)

\* AnalyticsService._snapshot and InsightsService._events
FetchedEvents(p, query) == WithPrior(events[p], query)

\* Mutant: the rows of the range.
EventsInRange(p, query) ==
  Picked(events[p], {i \in DOMAIN events[p] :
                       /\ ~events[p][i].anomaly
                       /\ events[p][i].at >= query.start /\ events[p][i].at < query.end})

\* DiscoveryService._snapshot leaves anomalies out before it looks for the last.
DiscoveryEvents(p, query) ==
  WithPrior(Picked(events[p], {i \in DOMAIN events[p] : ~events[p][i].anomaly}), query)

-----------------------------------------------------------------------------
(* Figures                                                                  *)

\* What is known of a person: covered and tracked.
PersonCoverage(p, query) ==
  IntersectWindows(ObservedWindows(FetchedSamples(query), query),
                   TrackingWindows(FetchedEdges(p, query), query))

\* AnalyticsService._online_seconds and _online_spans: nothing covered counts as
\* everything covered.
DayTimeline(p, query) ==
  LET known == PersonCoverage(p, query)
  IN OnlineSpans(p, FetchedEvents(p, query),
                 IF known = <<>> THEN <<query>> ELSE known, query)

Windows(spans) == [i \in DOMAIN spans |-> Window(spans[i].start, spans[i].end)]

\* InsightsService.friend: online minutes
Online(p, query) ==
  Windows(OnlineSpans(p, FetchedEvents(p, query), PersonCoverage(p, query), query))

\* The hours of a range, the last one cut off at its end.
Hours(query) ==
  LET n == (query.end - query.start + HourLength - 1) \div HourLength
  IN [i \in 1..n |-> Window(query.start + (i - 1) * HourLength,
                            Min2(query.start + i * HourLength, query.end))]

\* The heatmap of a person, hour by hour.
Cells(p, query) ==
  LET covered == ObservedWindows(FetchedSamples(query), query)
      tracked == TrackingWindows(FetchedEdges(p, query), query)
      online == Online(p, query)
      hours == Hours(query)
  IN [i \in DOMAIN hours |-> ActivityCell(online, covered, tracked, hours[i])]

\* online_overlap_minutes
Overlap(p, query) == Minutes(IntersectWindows(Online(p, query), Online(Me, query)))

Visited(p, query) ==
  WorldSpans(p, DiscoveryEvents(p, query), PersonCoverage(p, query), query)

\* _co_presence
Shared(a, b) ==
  IF a.place = b.place /\ a.place \in Instance THEN Minutes(Intersection(a, b)) ELSE 0

Together(l, r, at) ==
  LET both == Shared(l[at.i], r[at.j]) IN
  IF at.i > Len(l) \/ at.j > Len(r) THEN at
  ELSE IF l[at.i].end <= r[at.j].end
  THEN [at EXCEPT !.i = @ + 1, !.sum = @ + both]
  ELSE [at EXCEPT !.j = @ + 1, !.sum = @ + both]

CoPresence(p, query) ==
  LET l == Visited(p, query)
      r == Visited(Me, query)
  IN Loop(LAMBDA at, k : Together(l, r, at), [i |-> 1, j |-> 1, sum |-> 0], Len(l) + Len(r)).sum

\* _visit_was_interrupted
Interrupted(es, left, back, place) ==
  \E i \in DOMAIN es :
    /\ ~es[i].anomaly /\ left < es[i].at /\ es[i].at <= back
    /\ es[i].status = "offline" \/ es[i].place # place

\* Mutant: a visit is a span.
NeverContinues(spans, es, i) == FALSE

\* A span of _aggregate that goes on with the visit of the one before.
Continues(spans, es, i) ==
  /\ i > 1
  /\ spans[i - 1].place = spans[i].place
  /\ ~Interrupted(es, spans[i - 1].end, spans[i].start, spans[i].place)

\* visit_count of a person and an instance
Visits(p, place, query) ==
  LET spans == Visited(p, query)
      es == DiscoveryEvents(p, query)
  IN Cardinality({i \in DOMAIN spans : spans[i].place = place /\ ~Continues(spans, es, i)})

-----------------------------------------------------------------------------
(* The evidence                                                             *)

Told(r, at, anomaly) == [at |-> at, status |-> r.status, place |-> r.place, anomaly |-> anomaly]

Polled(o, at) == [at |-> at, cadence |-> o.cadence, success |-> o.success]

\* The first snapshot has been stored: everyone is tracked from then on.
Init ==
  /\ clock = 0
  /\ \E o \in Outcome : o.success /\ samples = <<Polled(o, 0)>>
  /\ \E found \in [Person -> First] : events = [p \in Person |-> <<Told(found[p], 0, FALSE)>>]
  /\ edges = [p \in Person |-> <<[at |-> 0, tracked |-> TRUE]>>]

Evidence ==
  Len(samples) + FoldLeft(LAMBDA n, p : n + Len(events[p]) + Len(edges[p]), 0, SetToSeq(Person))

MayGrow == Evidence < 1 + 2 * Cardinality(Person) + MaxEvidence

\* Time goes by.
Advance ==
  /\ \E t \in Instants :
       /\ t > clock /\ \A u \in Instants : u > clock => t <= u
       /\ clock' = t
  /\ UNCHANGED <<samples, events, edges>>

\* A complete snapshot, or a failure.
Poll ==
  /\ MayGrow
  /\ \E o \in Outcome : samples' = Append(samples, Polled(o, clock))
  /\ UNCHANGED <<clock, events, edges>>

\* A friend is no longer one, or is one again.
Turn ==
  /\ MayGrow
  /\ \E p \in Person \ {Me} :
       edges' = [edges EXCEPT ![p] = Append(@, [at |-> clock, tracked |-> ~Last(@).tracked])]
  /\ UNCHANGED <<clock, samples, events>>

\* By occurred_at; equal ones as they came.
Inserted(es, e) ==
  InsertAt(es, Cardinality({i \in DOMAIN es : es[i].at <= e.at}) + 1, e)

\* A person changes, or is reported to change later than now: an anomaly.
Change ==
  /\ MayGrow
  /\ \E p \in Person, r \in Report, at \in Ahead \cup {clock} :
       /\ at >= clock
       /\ events' = [events EXCEPT ![p] = Inserted(@, Told(r, at, at > clock))]
  /\ UNCHANGED <<clock, samples, edges>>

Next == Advance \/ Poll \/ Turn \/ Change

Spec == Init /\ [][Next]_vars

-----------------------------------------------------------------------------
(* Definitions instant by instant                                           *)

\* Ranges that lie in the past.
Past == {q \in Queries : q.end <= clock}

Span(query) == query.start..(query.end - 1)

Covered(windows) == UNION {Span(windows[i]) : i \in DOMAIN windows}

\* Windows in order that do not touch.
Canonical(windows) ==
  /\ \A i \in DOMAIN windows : windows[i].start < windows[i].end
  /\ \A i \in 1..(Len(windows) - 1) : windows[i].end < windows[i + 1].start

Good(ss) == {i \in DOMAIN ss : ss[i].success}

\* No success of the same instant reaches further.
Vouches(ss, i) ==
  \A j \in Good(ss) : ss[j].at = ss[i].at => ss[j].cadence <= ss[i].cadence

\* j is the next success after i, in its reach.
Linked(ss, i, j) ==
  /\ ss[i].at < ss[j].at /\ ss[j].at <= Deadline(ss[i]) /\ Vouches(ss, i)
  /\ \A k \in Good(ss) : ~(ss[i].at < ss[k].at /\ ss[k].at < ss[j].at)

\* i is the last success before t, and t is in its reach.
Stands(ss, i, t) ==
  /\ ss[i].at <= t /\ t < Deadline(ss[i]) /\ Vouches(ss, i)
  /\ \A k \in Good(ss) : ~(ss[i].at < ss[k].at /\ ss[k].at <= t)

\* The presence is known at t: the last success before t has not passed its
\* deadline, and has another success within a deadline before or after it.
Provable(ss, t) ==
  \E i, j \in Good(ss) : Stands(ss, i, t) /\ (Linked(ss, i, j) \/ Linked(ss, j, i))

\* How long a sample may stand for what comes after it
Reach(sample) == Deadline(sample) - sample.at

\* What a person does at t, as far as is known.
Latest(p, t) ==
  LET before == {i \in DOMAIN events[p] : ~events[p][i].anomaly /\ events[p][i].at <= t}
      last == events[p][Max(before)]
  IN IF before = {} THEN [status |-> "offline", place |-> Hidden]
     ELSE [status |-> EffectiveState(p, last.status, last.place), place |-> last.place]

TrackedAt(p, t) ==
  LET before == {i \in DOMAIN edges[p] : edges[p][i].at <= t}
  IN before # {} /\ edges[p][Max(before)].tracked

-----------------------------------------------------------------------------

TypeOK ==
  /\ clock \in Nat
  /\ samples \in Seq(Sample)
  /\ events \in [Person -> Seq(Event)]
  /\ edges \in [Person -> Seq(Edge)]

\* What the engine calls observed is exactly what two successes in reach of each
\* other prove, in windows that are apart, and the gaps it lists are the rest of
\* the range: the arithmetic of runs, deadlines, equal stamps and open ends.
CoverageIsProvable ==
  \A q \in Past :
    LET windows == ObservedWindows(samples, q)
        summary == CoverageSummary(windows, q)
    IN /\ Canonical(windows)
       /\ Covered(windows) = {t \in Span(q) : Provable(samples, t)}
       /\ Canonical(summary.gaps)
       /\ Covered(summary.gaps) = Span(q) \ Covered(windows)
       /\ Minutes(summary.observed) = Cardinality(Covered(windows))

\* A query sees the samples of its range and of the Lookback before it, which is
\* the reach of one sample at the longest interval the service admits, not of two.
\* It invents nothing, and what it misses is the reach of a success that nothing
\* it fetched confirms: the next one comes after the range, or is out of reach,
\* and the one before it is out of reach, or older than the Lookback.  The latter
\* takes two reaches that are together longer than the Lookback.
RangeLosesOnlyItsEdges ==
  \A q \in Past :
    LET whole == Covered(ObservedWindows(samples, q))
        fetched == Covered(ObservedWindows(FetchedSamples(q), q))
    IN /\ fetched \subseteq whole
       /\ \A t \in whole \ fetched : \E i \in Good(samples) :
            /\ Stands(samples, i, t)
            /\ \A j \in Good(samples) :
                 /\ Linked(samples, i, j) => samples[j].at > q.end
                 /\ Linked(samples, j, i) =>
                      /\ samples[j].at < q.start - Lookback
                      /\ Reach(samples[j]) + Reach(samples[i]) > Lookback

KnownAt(p, q) ==
  {t \in Covered(ObservedWindows(FetchedSamples(q), q)) : TrackedAt(p, t)}

\* The spans of a person are the known instants at which the last report that is
\* no anomaly, of the range or before it, has them online, each span as long as
\* status and place last: nothing is invented, lost or carried over a gap.
SpansAreStates ==
  \A q \in Past, p \in Person :
    LET spans == Visited(p, q)
    IN /\ Covered(spans) = {t \in KnownAt(p, q) : Latest(p, t).status # "offline"}
       /\ \A i \in DOMAIN spans :
            /\ \A t \in Span(spans[i]) :
                 Latest(p, t) = [status |-> spans[i].status, place |-> spans[i].place]
            /\ i > 1 => \/ spans[i - 1].end < spans[i].start
                       \/ /\ spans[i - 1].end = spans[i].start
                          /\ \/ spans[i - 1].status # spans[i].status
                             \/ spans[i - 1].place # spans[i].place

\* The newest row before a range is not an anomaly.
Unmasked(p, q) == FetchedEvents(p, q) = <<>> \/ ~FetchedEvents(p, q)[1].anomaly

\* The hours of a person, and the hours and instances two people share, are the
\* counts of the instants at which it is so, as far as both are known: online
\* within observed within tracked, whatever falls on the edge of an hour.
FiguresAddUp ==
  \A q \in Past, p \in Person :
    LET known == KnownAt(p, q)
        online == {t \in known : Latest(p, t).status # "offline"}
        cells == Cells(p, q)
        hours == Hours(q)
        mine == KnownAt(Me, q)
        both == {t \in online \cap mine : Latest(Me, t).status # "offline"}
    IN Unmasked(p, q) =>
         /\ \A i \in DOMAIN hours :
              cells[i] =
                [eligible |-> Cardinality({t \in Span(hours[i]) : TrackedAt(p, t)}),
                 observed |-> Cardinality(known \cap Span(hours[i])),
                 online |-> Cardinality(online \cap Span(hours[i]))]
         /\ p # Me /\ Unmasked(Me, q) =>
              /\ Overlap(p, q) = Cardinality(both)
              /\ CoPresence(p, q) =
                   Cardinality({t \in both : /\ Latest(p, t).place = Latest(Me, t).place
                                             /\ Latest(p, t).place \in Instance})

\* The instants at which a person is seen to be there for the first time since
\* the range began or since a report had them elsewhere.
Arrivals(p, place, q) ==
  LET Seen == {t \in KnownAt(p, q) :
                 Latest(p, t).status # "offline" /\ Latest(p, t).place = place}
      Gone(e) == e.status = "offline" \/ e.place # place
  IN {t \in Seen : \A u \in Seen : u < t =>
        \E i \in DOMAIN events[p] :
          ~events[p][i].anomaly /\ Gone(events[p][i])
            /\ u < events[p][i].at /\ events[p][i].at <= t}

\* A gap in what is known never makes one visit two, and who was seen has visited.
GapsAreNotVisits ==
  \A q \in Past, p \in Person, place \in Instance :
    LET arrivals == Cardinality(Arrivals(p, place, q))
    IN /\ Visits(p, place, q) <= arrivals
       /\ arrivals > 0 => Visits(p, place, q) > 0

-----------------------------------------------------------------------------
(* What the documents say and the code does otherwise                       *)

\* read-only-intelligence-design.md: a range without evidence is never treated as
\* fully observed.  The timeline of a day with nothing known takes all of it.
TimelineWithinCoverage ==
  \A q \in Past, p \in Person :
    Unmasked(p, q) => Covered(Windows(DayTimeline(p, q))) \subseteq KnownAt(p, q)

\* read-only-intelligence-design.md: observed visits are counted.  Whoever is seen
\* elsewhere, or offline, and the next instant here again has visited once more.
EveryReturnIsAVisit ==
  \A q \in Past, p \in Person, place \in Instance :
    LET known == KnownAt(p, q)
        Seen == {t \in known : Latest(p, t).status # "offline" /\ Latest(p, t).place = place}
        first == {t \in Seen : \A u \in Seen : t <= u}
    IN Visits(p, place, q) >= Cardinality(first \cup {t \in Seen : t - 1 \in known \ Seen})

=============================================================================
