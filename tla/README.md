# A TLA+ verification of the VRChat presence monitor

The hosted service of this repository logs in to VRChat for its users, keeps
watching their friends while nobody has the web page open, and serves history
and analytics from SQLite. This directory holds TLA+ models of the parts
whose state several actors race for and of the engine that turns evidence into
figures, TLC configurations that check them on small instances, and proofs
checked by TLAPS. Line numbers refer to the source beside this directory (`src/...`);
`PROJECT.json` maps every definition to the lines it models.

1. [The system](#the-system)
2. [Modules](#modules)
3. [What the runs check](#what-the-runs-check)
4. [Bounds](#bounds)
5. [Fairness](#fairness)
6. [What is proved](#what-is-proved)
7. [Where code and documentation disagree](#where-code-and-documentation-disagree)
8. [What is left out](#what-is-left-out)
9. [Plan](#plan)

## The system

One process runs a FastAPI application (`server/app.py`). Its lifespan starts the
collector manager and the world resolver; request handlers run in a thread pool.
All of them share one SQLite file through `server/storage.py`, whose `Store` takes
one re-entrant lock (`store.lock`) around every access.

| Component | State | Operations | Meets |
|---|---|---|---|
| Collector manager, `server/hosted_collector.py` | `_sessions`, `_blocked`, `_due`, `_running`, `_backoff` under `manager._lock`; `_TenantSession` objects | the loop (reconcile, dispatch), `_sync` (poll), pipeline callbacks, `fetch_world`, `wake`, `disconnect` | account row, presence tables, VRChat, resolver |
| Account row, `storage.py:886-1076` | `vrchat_accounts`: state, encrypted cookie, `credential_updated_at` | connect, rotate, mark, disconnect | manager, login and disconnect handlers |
| Presence ingest, `storage.py:1270-1839` | `friends`, `status_events`, `friend_tracking_events`, `collection_samples`, `portable_backup_usage` | `ingest`, `ingest_authoritative_snapshot`, `record_collection_failure` | poll, listener, imports |
| World resolver, `server/worlds.py` | queue in memory; `world_resolution_state` and the world cache in SQLite | `enqueue`, `drain_once` | manager (credentials), VRChat |
| VRChat client, `vrchat_monitor/vrchat.py` | cookie, pipeline socket | requests, friend list, pipeline loop with reconnect backoff | poll, listener |
| Pending login, `server/vrchat_auth.py` | logins waiting for a second factor | begin, complete, cancel, prune | login handlers |
| Viewer sessions and codes, `storage.py`, `server/security.py` | tokens, access codes | create, exchange, rotate, revoke | HTTP routes |
| Organization and sharing, `server/organization.py` | notes, tags, dashboards with revisions, shares | optimistic updates, share passwords | browser |
| Observation, `server/observation.py` | none (pure) | windows, spans, heatmaps | analytics |
| Portable backup, `server/backup_v3.py`, `backup_json.py` | the tenant's tables | export, import | presence tables |
| Off-site backup, `scripts/r2_backup.py`, `infra/r2-backup-worker` | objects and multipart uploads in R2 | upload, verify, prune, restore | worker |
| Analytics, insights, search, health | caches | read-only queries | presence tables |
| Local monitor, `vrchat_monitor/app.py` | its own database | the single-user predecessor | - |

### How they interact, and what is hard about it

* **Five kinds of thread, two locks, no lock across a request.** The manager's
  loop, the pool worker of a poll, a pipeline listener per session, the resolver
  and the request handlers each read shared state, talk to VRChat for seconds,
  and then act on what they read. `manager._lock` protects dictionaries,
  `store.lock` the tables; no operation holds one of them from its first read to
  its last write. What must survive this: at most one session and one listener
  per tenant, none for a tenant that disconnected, no credential of an old login
  taken for the new one's.
* **A credential is written from four places**: a login, a cookie that VRChat
  rotates in any response, a 401 (clears it) and the user's disconnect (clears
  it). They are ordered by nothing but the time they take.
* **Stamps are taken before the lock, rows are written under it.** A poll stamps
  its snapshot when its last request returned, the listener stamps an event when
  it was received or takes the event's own timestamp; who gets the lock first is
  another matter. Rows, history, edges, samples and counters each have their own
  rule for what is stale or repeated, and must still agree.
* **A queue whose entries outlive their retry state.** The resolver takes a
  request out of the queue before it writes when to retry; meanwhile others
  enqueue, and the process may restart.
* **Liveness by polling.** A new login reaches the collector only because the
  loop compares stamps every second, whatever `wake`, `_schedule` and late
  disconnects do to the due times.
* **Browsers that save what they last saw.** Notes and dashboards are written with a
  revision; answers are lost, requests arrive after their browser has moved on,
  and a query cache, a draft and a conflict view each hold a version of their own.
* **Two-step logins.** The limiter is asked before and told after; a pending login is
  read, checked with VRChat and removed; codes are replaced and sessions revoked
  while an exchange is under way.
* **Conclusions from incomplete evidence.** Polls fail, intervals change, reports come out of
  order; a query sees only part of it. What is called observed, online or a visit has
  to be what the evidence proves, to the instant.
* **Histories that meet again.** A backup is merged into a tenant that has since renamed,
  deleted and noted on its own, and is merged again when an answer is lost.
* **A gateway between two processes and a bucket.** The uploader learns of a completion by an
  answer that may be lost; the archive it uploads may be pruned under its feet.

What makes each component correct, in a sentence: one session per login and none without
one; tables that agree with each other and with VRChat; no request in a backoff and none
forgotten; nobody's text replaced unseen; nobody let in by what was revoked; no minute
claimed that is not proved; no import that takes back; no record of a copy that is not there.

## Modules

| Module | Models | Runs | Proofs |
|---|---|---|---|
| `HostedSession` | the manager, the account row, login / disconnect / sync handlers, rotation of cookies, the end of the pipeline loop | `hosted_*` | `HostedSessionProofs` |
| `PresenceIngest` | what a poll and a listener store: rows, history, tracking edges, samples, usage | `ingest_tables` | `PresenceIngestProofs` |
| `WorldResolver` | queue, world cache, retry rows, drainers | `worlds` | `WorldResolverProofs` |
| `Organization` | notes, dashboards and tags with the browsers that edit them, the published dashboard with its visitors | `organization` | `OrganizationProofs` |
| `SharedDocument` | abstract: what a document edited by several browsers promises; `Organization` implements it | `organization` | `OrganizationProofs` |
| `Access` | access codes, pending VRChat logins, viewer sessions, revocations and their audit, the login limiter | `access` | `AccessProofs` |
| `Observation` | the interval engine and the figures of analytics, insights and discovery | `observation` | `ObservationProofs` |
| `Backup` | export and merge of portable backups between tenants that go on living | `backup` | `BackupProofs` |
| `OffsiteBackup` | artifacts, the uploader, the gateway's multipart protocol, the state files | `offsite*` | `OffsiteBackupProofs` |
| `MC...` | instances for TLC: symmetry sets and values a `.cfg` cannot write | | |

Each module also holds, next to the definitions they change, the *mutants* of its
properties: the same operation with a plausible mistake in it. `PROJECT.json` names
the property that each of them breaks.

The modules meet at the tables. `HostedSession` decides whether a snapshot may be
stored, `PresenceIngest` what storing it does; `Observation` reads the tables
`PresenceIngest` writes (samples, history, edges), in the orders it allows; `Backup`
merges them as rows that only have a time and facts that are only added; `Access`
ends where `HostedSession` begins, at `connect_vrchat_account`. They are not composed
into one instance: what a component relies on from another (a stamp per login, edges
in time order, one sample per change of failure) is a property of that other module.

### HostedSession

One tenant; tenants share nothing but the size of the pool. An action is one
stretch of code between two acquisitions of a lock or two requests. `pc` says where
each thread is, `mine` which `_TenantSession` it works on, `held` what it has read
and not yet used. The variables `account`, `current`, `blocked`, `due` and `sess`
are the row, `_sessions.get(tenant)`, membership in `_blocked`, `_due.get(tenant)`
and the heap of session objects.

A cookie is the login it descends from and the number of its rotations.
`credential_updated_at` is a counter: `now()` has microseconds and is read under
`store.lock` (`storage.py:59`, `:1004`), so two stamps differ and grow. Durations
are "later" and "now".

| Thread | Path through the actions |
|---|---|
| loop | `LoopRead` (snapshot of accounts), `LoopReconcile` (compare stamps, stop), `LoopStart`, `StartReadCookie`, `StartInstall`, `StartLaunch`, `LoopDispatch` |
| poll | `PollBegin`, `RequestServed/Rejected/Failed`, `PersistCheck/Write/Note`, `PollCheck`, `PollIngest` or `PollRefused`, `Schedule`; after a 401 `MarkReconnect`, `DropSession`, `StopSession` |
| listener | `PipelineRejected`, `PipelineThrottled`, `PipelineEnds`, and the same way out |
| world resolver | `WorldBegin`, `WorldLookup`, `WorldStart`, the start steps, `WorldCheck`, a request and the persist steps |
| handlers | `LoginConnect`, `LoginWake`; `DisconnectAccount`, `DropSession`, `StopSession`; `SyncNow` |

A poll looks at `_sessions` and ingests inside `store.lock` but outside
`manager._lock`; that is why `PollCheck` and `PollIngest` are two actions, between
which other threads may change the manager's dictionaries but not the row
(`StoreFree`).

### PresenceIngest

One tenant with one running session (a superseded one stores
nothing: `PollCheck` of `HostedSession`, `hosted_collector.py:544`). VRChat is `truth`, what each friend really
does, and `wire`, the events on their way. The poll reads the online pages
(`PollOnline`), later the offline pages (`PollOffline`), stamps (`PollStamp`) and
commits (`PollCommit`); the listener stamps (`ListenerTake`) and stores
(`ListenerStore`). Status, location and platform are one presence. `Ingest` is
`Store.ingest`: it upserts rows under the condition on `updated_at`, adds the events
that are not there yet, and carries the counters along; `Fits` is the history limit
that rolls a batch back. `calm`, `settled` and `poll.stayed` are history variables the
properties need; no action's guard reads them.

### WorldResolver

`pending` is the queue, `row` the retry row of a world, `cache` its metadata (none,
fresh, stale). A drainer's iteration is the ten steps of `drain_once`, an enqueue
three (cache, retry row, queue), because each takes a lock of its own. Production has
one drainer; `tests/test_hosted_worlds.py:285-294` drains with two threads, and so
does the model. Two threads may call `drain_once`; `_drain_lock` lets one of them
work at a time, while enqueues, the clock and a restart interleave with it. `told`
holds the worlds VRChat has asked to leave alone and that time has not passed.

### Organization and SharedDocument

`doc` chooses whether a behaviour is about a friend's note or about the dashboard:
both are a row with a revision that the browser sends back, and differ in what the
browser does around it. `page` is the state of `FriendDialog.tsx` or
`DashboardView.tsx` on each device (what is shown, what it takes for saved, the
request under way, the conflict it offers), `cache` the query cache, `draft` the
dashboard's draft in `sessionStorage`. `Save` sends, `Handle` runs the handler,
`Saved` / `Refused` / `Fail` are the browser's callbacks; `Leave` and `Fail` put a
request whose browser no longer waits into `late`, and `HandleLate` runs it at any
later time. A lost answer is `Fail` after `Handle`, a lost request `Fail` before it
that never arrives, a repeated one `Fail` and `Save` again.

A revision is a random token in the code; here it is the next number, so that "newer"
can be said. `Dirty` compares texts, whereas `DashboardView` keeps a flag: an edit
undone by hand counts as no edit.

`SharedDocument` says what this adds up to: a value with a version and an *author*;
clients are *shown* versions, and *write* in their own name over the newest one when
they themselves have been shown it. `Organization` implements it with `value <-
row.text`, `version <- row.rev`, `author <- author`, `known <- shown`, where `shown` is
the newest revision a browser has displayed, in the text or beside it in a conflict, and
`author` the browser that sent the save which the handler stored, at once or late (a
history variable: the row does not name the device). This is the property
`NobodyOverwritesUnseen`, checked by TLC and proved; a browser that saves with the
revision it has fetched and not shown breaks it (`SaveFetched`).

Tags go with the note (the friend's dialog holds both), the share with the dashboard.
`CreateTag` and `AssignCreated` are two requests, as in `FriendDialog.tsx:308-330`.

### Access

A request is a thread (`request[r].at` says where its handler is) because handlers run
in a pool and hold `store.lock` for one call at a time. `LoginBegin` and `VRChatBegin`
ask the limiter, `CountFailure` and `ClearFailures` tell it; in between the code is
exchanged (`LoginExchange`, one transaction) or VRChat is asked. `TwoFactorBegin` reads
the pending login under its lock, `TwoFactorPasses` is VRChat's answer, `Pop` removes
it. The administrator's calls are one step each. `Restart` empties what is in memory.
`purged`, `logouts`, `restored` and `spent` are history variables.

### Observation

Every reachable state is one history of evidence: polls that succeed or fail under
one of two expected intervals, changes of two people (one of whom is the account
itself), a report stamped in the future, and a friend who is lost and found.
The operators are those of `observation.py` and of the queries that feed it
(`analytics.py`, `insights.py`, `worlds.py`). Every loop of theirs is a `Loop`: what so
many rounds make of a first value, with the body of the loop as an operator (`Merge`,
`Pair`, `Extend`, `Track`, `Reported`, `Join`, `Gap`, `Together`); `Picked` keeps some
members of a list. They are compared with definitions that know nothing of windows:
`Provable(samples, t)`, `Latest(p, t)`, `TrackedAt(p, t)` say of a single instant whether
the presence was provable, what it was and whether it was tracked. The spans of a
person leave the two nested loops in order of time, so that sorting them once more
before they are joined (`observation.py:380`, `:426`) is left out.

### Backup

`tables` are two tenants' tables; a row is its time and who wrote it. A note also has
its revision. `Merged` and `Accepted` are `_merge_staged` with its reference checks;
export and import are one transaction each and so one step. People keep editing at
both ends, at most once per row and reading of the clock (`Fresh`): stamps have
microseconds. `browser` is the note a browser shows meanwhile. A revision is a random
token (`secrets.token_urlsafe`); here it is the number of the edit that drew it, over
both tenants, so that no two edits draw the same one.

### OffsiteBackup

`Make` and `Prune` are `backup_hosted.py`; an artifact is the time of its making, and
`bad` are those that failed their verification and stay on disk. `Content` is the digest
of an artifact's archive: the gzip is deterministic (`backup_format.py:215-221`), so
artifacts of an unchanged database share it. `sync` is one pass of `r2_backup.py`: the
keys still to do, the place in `upload`, the upload and part, the tries so far.
`record` is the state file, which remembers an hourly upload by its digest
(`r2_backup.py:691`), a daily one by its day, a monthly one by its month (`Marker`);
`success` is the marker of success. `TakeNext` passes over what is recorded and ends
the pass on an archive that is gone, or has not the size or checksum of its manifest
(`:434-440`). `Finish` and `Confirm` are the end of a pass: a marker for what was uploaded
in it, none while the last one is recent, or a look at the newest artifact, which is
refused when what is recorded for its digest was made earlier.
`Served` is the worker, as a function from a request to new objects, new uploads and
an answer. `Exchange` serves and answers; `Lose` loses the request, or its answer, or
delays it (`late`), and the client tries again up to `Attempts` times; `Crash` ends
the pass anywhere.

## What the runs check

| Run | Shows |
|---|---|
| `hosted_credential` | `RevisionIdentifiesLogin`: the stamp that `_reconcile_sessions` compares never takes a session of an old login for one of the stored login, although rotations of the old session write stamps of their own, across disconnects, polls that end in a 401 and a restart. `InactiveStoresNoCredential`: no credential is left in a row that is signed out or waits for a login, also by a rotation that comes back after the disconnect. |
| `hosted_starts` | The loop and `fetch_world` start sessions while every way out - the disconnect endpoint, a poll's 401, a listener's 401 - stops them and a sync request unblocks the tenant. `BlockedHasNoSession`, `NoOrphanListener`: at most one session and one listener, none for a blocked tenant. `InactiveStoresNoCredential`: none of the ways out leaves a credential. `StoppedStaysStopped`: once nothing of the session is left, in the row, the manager and the hands of the threads, only a login brings collection back, although the row may say `active` by then (`hosted_collector.py:544`, `storage.py:1775`). |
| `hosted_live` | `StoredLoginReachesCollector`: a stored login gets the running session although its predecessor still polls. `SupersededListenerEnds`, `SessionIsPolled`. |
| `ingest_tables` | `TrackedIsLastSnapshot`: the tracked friends, computed from append-only edges, are those of the last complete snapshot. `RowChangeIsInHistory`: what a row says it last changed to is in the history. `UsageMatchesTables`: the counters are what counting gives. `QuietSnapshotHolds`: after a snapshot fetched in a quiet moment, rows say what VRChat says until something changes there; a late event takes nothing back. `FailuresAreTransitions`: no failure sample repeats the category before it. |
| `worlds` | Two drainers, an asker and a restart anywhere: `QuietInBackoff`, `RetryAfterHonoured` (without a restart): no request in a world's backoff; `FlightHasDrainer`, `ReadyIsCached`: nothing is stuck in flight, no row is ready without metadata; `QueueMoves`: what is queued leaves the queue. |
| `organization` | Lost, late and repeated saves from two browsers: `BaseIsItsRevision`: what a browser takes for saved is what the server has under the revision it goes on with; `NobodyOverwritesUnseen`: notes and dashboards implement `SharedDocument`: whose save replaces a version has itself shown that version. `GrantsProvePassword`: who is let in has given the present password. `TagsConsistent`: two devices and lost answers leave no tag dangling and no name twice. |
| `access` | `OldCodesAreOut`: a code replaced and its sessions revoked lets nobody in, an exchange under way included. `AuditCountsRevocations`: each revocation is counted once; `AttemptsBounded`: the limiter is overrun by the requests in flight and no more; `CompletedOnce`: a pending login that was completed, pruned or lost is not begun again. |
| `observation` | `CoverageIsProvable`: what the engine calls observed is exactly what two successes within reach of each other prove, and its gaps are the rest. `RangeLosesOnlyItsEdges`: the samples fetched for a range prove nothing more, and cost it only the reach of a success whose confirmation lies after the range, or so far before it that two reaches exceed the look-back. `SpansAreStates`, `FiguresAddUp`, `GapsAreNotVisits`: spans, heatmap cells, overlaps, co-presence and visits are what a count instant by instant gives, for every history within the bounds and every fetched range. |
| `backup` | `TablesAreWhole`: references and names survive every merge; `ImportOnlyAddsOnce`: an import takes nothing back, and a second one of the same file changes nothing; `SitesConverge`: two tenants that import each other's backups end up alike, or one is refused; `RevisionNamesNote`: a revision is never in two hands for two notes, whatever imports carried it, so that the compare in `put_annotation` cannot take an imported note for the one a browser shows. |
| `offsite` | `RecordedIsStored`: what the state file and the success marker name is in the bucket; `FaultsBoundWaste`: each fault leaves at most one open upload or second copy of an archive, a day or a month, and pruning under the uploader's feet, a bad archive and an unchanged database leave none. |
| `offsite_live` | `BackupLeaves`: the bytes of what stays on disk are stored in the end; `SuccessFollows`: the marker of success comes to name the newest artifact, although a crash or an error came between its upload and the marker. |
| `hosted_doc_reconnect` | expected to fail, see [below](#where-code-and-documentation-disagree) |

Exceptions the properties make, and why:

* `SessionIsPolled` excepts a session whose listener is being throttled: each 429 of
  the pipeline postpones the next REST poll (`hosted_collector.py:624-629`) until the
  listener tries again. Whether the loop sees the poll due before the next 429
  postpones it again is a race that nothing in the code decides.
* `StoredLoginReachesCollector` excepts a blocked tenant (`ActiveAccountIsCollected`).
* `RetryAfterHonoured` excepts restarts (decision 003).
* `RangeLosesOnlyItsEdges` allows what is lost when a success that nothing earlier within
  reach confirms is confirmed by a sample after the range, or when the success before it
  is older than the look-back, which takes two reaches longer than the look-back. The
  settings admit intervals of 3600 s (`settings.py:125`), with a deadline of 7260 s: just
  the look-back (`insights.py:228`). Up to 1785 s two reaches fit and the second case
  does not occur.
* `FiguresAddUp` leaves out a range whose prior row is an anomaly
  (`Unmasked`).
* `SitesConverge` excepts a pair of which one import is refused.
* `BackupLeaves` and `SuccessFollows` except what is behind a bad archive: it ends every pass
  that comes to it. `BackupLeaves` speaks of bytes, not keys: an unchanged database is stored
  once. `SuccessFollows` excepts an artifact whose bytes were stored before under the key of
  an earlier one: the look-up compares the time of making too (`r2_backup.py:713-718`)
  and is refused, so that the marker ages until the database changes. Without the exception
  TLC finds just that.

## Bounds

* `Session` has two objects, reused once nothing refers to them (`Garbage`): a
  registered session and one that is being replaced, dropped or lost its race.
  `MaxLogins`, `MaxRotations`, `MaxRestarts`: a second login is what makes a stamp,
  a 401 or a session stale; one rotation per login makes a cookie differ from its
  login's; one restart cuts every operation once. `Calls` chooses which of the calls
  from outside an instance makes: `hosted_starts` has one login and those that
  start and stop sessions, `hosted_credential` two logins, a rotation of each and the
  disconnect (which makes five million states, so the user does not disconnect again
  after the last login: `StopsBeforeRelogin`), `hosted_live` those that touch due times.
* `PresenceIngest`: two friends, one online presence beside offline, four readings
  of the clock. Every stamp, every change and every recorded failure is a reading,
  and four are enough for a late event, a snapshot that is refused for a full
  history, and a friend who leaves and returns. `EventLimit` is 3 so that a full history
  happens. `MaxWire` is 1. `Skews = {0}`: an event's own timestamp is the time of the
  change, which `QuietSnapshotHolds` needs; the other theorems do without.
* `WorldResolver`: two worlds, two drainers, one tenant, one enqueueing thread (of
  the many that exist, each is three independent steps), one restart.
* `Organization`: two devices and a visitor, two texts, two passwords, two tags, three
  spellings of which two differ in case only. Two writes make a conflict and a third
  text unnecessary: what counts is who has seen the newest. One late request: it can
  precede or follow every other step; two are a sequence of such cases.
* `Access`: a bootstrapped and a hosted tenant, two codes (one replaces the other), one
  session, one pending login, two concurrent requests, `Attempts = 1` so that the limiter
  closes, three administrative changes or restarts.
* `Observation`: cadences 1 and 4 with `Margin` 1 and `Floor` 4, so deadlines are 4 (the
  floor) and 9 away, and instants 0, 1, 6, 10, 17: two polls 1 apart are linked under
  either cadence, 4 apart just so under the shorter one, 9 apart just so under the longer
  one, 10 apart never. `Lookback` is 9, one deadline of the longer cadence, as 7260 s are
  of 3600 s. Three pieces of evidence beyond the first snapshot, in any order and at equal instants: enough for a
  gap between two known stretches, or for a change on either side of a poll. An hour is
  4, so that hours begin inside spans and the last one is cut; of two ranges the one
  begins on an instant of evidence and ends between two, the `Lookback` of the other
  leaves the first two instants out.
* `Backup`: two tenants, a player with a note, two tags and two names (a swap of names and a
  deleted and recreated name need two), one fact that only full backups carry, three
  readings of the clock, four edits.
* `OffsiteBackup`: three times of making, of which two are one day and all one month; the
  database changes between the first and the second and not between the second and the
  third (`MCContent`), so that a marker by digest and one by day differ both ways; one
  artifact is kept, any may be bad. Two parts, two attempts, two faults: enough for a
  completion that is lost, retried and given up, for a late completion after an abort, and
  for a crash on top of a lost answer. `offsite_live` has one part and one fault.

The theorems have none of these bounds. Symmetry is used only in runs without liveness
(what stands under `PROPERTIES` there are action properties and a refinement).
`CHECK_DEADLOCK FALSE` stands in `observation.cfg` and `backup.cfg` only: evidence and
edits are bounded there, so the models stop where the system would go on.

## Fairness

`HostedSession!Fairness` is weak fairness of each thread's own steps: locks are held
for a few statements, requests have time limits (`vrchat.py:241`), the loop waits at
most a second, and due times pass. Nothing is assumed of users, of VRChat expiring a
login, or of restarts; and a session's `PipelineRejected` and `PipelineThrottled` are
VRChat's. In `WorldResolver` only the resolver's thread is fair: nobody has to enqueue.
In `OffsiteBackup` the uploader is: it runs in a loop with an interval and is started
again by its supervisor. `Confirm` is strongly fair: a marker of success is recent for two
hours only (`r2_backup.py:707-712`), so a pass that finds it old comes again and again, though
not every pass does; faults are bounded, so that in the end a request is
answered. `Lose` and `Crash` compete with it and are not fair.

## What is proved

Proofs are for any number of sessions, logins, restarts, worlds, tenants, friends,
browsers, texts, codes, artifacts, parts and faults. They assume only the named `ASSUME`s
of the modules: that sentinel values are distinct from what they stand beside, that
bounds and instants are natural numbers, that ids, friends and concurrent requests are
finitely many, that ranges are not empty, and that a query looks back at least one deadline
(`TimeAssumption`: 7260 s against twice an interval of at most 3600 s and a minute, or 600 s).
TLC evaluates each of them in the runs.

`HostedSessionProofs`

* `TypeCorrect` (types, no run checks them) needs `HasSession` beside them: a thread inside a call has the
  session it works on, or `sess[mine[t]]` would mean nothing.
* `RevisionIdentifies` (`RevisionIdentifiesLogin`). The property is not inductive: a
  thread that has read a credential and a stamp installs them later. `CredentialInv`
  adds that every stamp in `sess` and `held` is at most the row's, that whoever holds
  the row's stamp holds a cookie of its login, and what a thread between
  `PersistWrite` and `PersistNote` has just written.
* `BlockedSafe` (`BlockedHasNoSession`) is inductive with the types: `StartInstall`
  tests `_blocked` under the lock it installs under.
* `ListenersSafe` (`NoOrphanListener`) needs `ListenerInv`: a running listener has an
  owner (`Running`), and only the thread that installed a session launches its
  listener (`LaunchesOnce`).
* `SignedOutStoresNothing` (`InactiveStoresNoCredential`): every writer of the state
  writes the cookie with it; a snapshot is ingested without one, and then says `active`.
* `StopHolds` (`StoppedStaysStopped`). At rest, a thread that is on its way to a session has
  no cookie, and the row has none to give it; `InstallHasCookie` adds that a thread which
  comes to install has one. `RestStep` goes through the actions: whoever is left can only
  block, unblock, note a due time or write `active` into a row without a credential.

`WorldResolverProofs`

* `ResolverTypeCorrect` by `Shape`: with the types, a busy drainer has a world, the queue
  holds a world once, and one drainer at a time is busy (`_drain_lock`). No run checks
  `TypeOK` there; the theorem does.
* `BackoffRespected` (`QuietInBackoff`) and `ReadyHasMetadata` (`ReadyIsCached`) by
  `RowInv`: a drainer past its look at the row keeps finding no deadline ahead there, since
  only it writes one, and a drainer that comes to the row's reset has put the metadata.
* `FlightsAreDrained` (`FlightHasDrainer`), over `Shape`: a request is marked in flight by
  the drainer that took it, and is taken off or unmarked by that drainer's last step.
* `RetryAfterRespected` (`RetryAfterHonoured`): while no restart has happened, a world
  VRChat put off has a row with its deadline ahead or a drainer about to write it, and
  a drainer about to ask has a world that is not put off (`ToldInv`).

`PresenceIngestProofs`

* All theorems rest on `Base`: types, and that every stamp in samples and edges is at most
  the clock and strictly behind a poll that is yet to be stored, so the newest sample is
  unique and the "latest" of a friend's edges is well defined.
* `TrackingExact` (`TrackedIsLastSnapshot`): a commit writes an edge for exactly the
  friends in whom the snapshot and the tracked set differ, at a stamp later than every
  edge; the induction is the property itself.
* `HistoryComplete` (`RowChangeIsInHistory`): a row's time of change is moved only together
  with an event that the history has already or gets in the same batch, whatever skew the
  event's own timestamp has and whether or not the row refuses it.
* `FailuresRecordedOnce` (`FailuresAreTransitions`): new samples are later than all others.
* `UsageExact` (`UsageMatchesTables`) by `UsageInv`. The bytes of a table are counted as the
  elements of a finite set (`Stock`), so that sums become cardinalities: a batch takes the
  stock of the accepted friends out of the table and puts its own in (`IngestCounts`),
  whichever friends are new, changed or refused.
* `IngestTypeCorrect` (types, no run checks them) takes the counters' types from `UsageExact`: a difference of
  bytes is a natural number only because the counters are exact.
* `QuietHolds` (`QuietSnapshotHolds`) under `Skews \subseteq {0}`. `QuietInv` adds that no
  stamp is ahead of this clock (`NoneAhead`), that a poll that began in a quiet moment has
  read the truth and is stamped after everything that waits (`CalmPollIsTrue`), and that
  after it nothing on its way says otherwise, or is too late to be taken
  (`NothingDisagrees`). Without the assumption the property is false: see
  `FutureIsQuarantined`.

`OrganizationProofs`

* `DocInvariant`: `DocInv` is the strengthening for documents: every revision has one text
  (`texts`), a request names a revision its browser has shown, an answer under way is
  what was stored, caches and drafts name revisions that exist.
* `SavedIsStored` (`BaseIsItsRevision`) is a part of it.
* `ImplementsDocument` (`NobodyOverwritesUnseen`): under `DocInv` each step of `Organization`
  is a `Show`, a `Write` or a stutter of `SharedDocument`. The step that needs the
  invariant is `Handle`: the accepted revision is the row's, and the browser had shown it;
  for `HandleLate` too: a late request carries the browser that sent it, and `LateOK` says
  that this browser has shown what it names.
* `GrantsAreProven` (`GrantsProvePassword`): by `ShareInv`: a session of the present
  version of a protected share was made with its password; publishing and revoking
  leave no session behind.
* `TagsAreConsistent` (`TagsConsistent`) is inductive with the types of tags: a name is
  compared with all others in the transaction that writes it, and a deletion takes the
  assignments along, so a request to assign that comes later finds no tag.

`AccessProofs`

* `AccessTypeCorrect` (types, no run checks them); `OldCodesEnded` (`OldCodesAreOut`) by
  `Purge`: purged codes are the tenant's, are revoked and stay so; `OneCodeAtATime`: the
  rotation revokes the old code in the transaction that makes the new one; `AuditComplete`, with
  cardinalities of the sets a step moves rows between; `AttemptsLimited`: a request that
  passes the limiter while n others are uncounted does so below the limit; and
  `LoginCompletedOnce` (`CompletedOnce`): a spent pending login is no longer pending.

`OffsiteBackupProofs`

* `RecordIsTrue` (`RecordedIsStored`): no request takes an object away (`ServedGrows`), and
  the uploader reaches `record` only from an answer that says the object is there
  (`SeenIsStored`).
* `WasteBounded` (`FaultsBoundWaste`): the property is not inductive, as a late completion
  turns an upload that is left open into a second copy. `Budget` counts both at once:
  the uploads nobody will close or that a late completion may close (`Exposed`) and the
  objects that are neither recorded nor about to be (`Stray`) are at most as many as the
  faults. `StepBalanced`: a step takes nothing from the budget, pays with a fault of its
  own, or turns an exposed upload into a stray copy or the other way round. Of the copies
  under one marker - a digest, a day, a month - all but one are stray (`AgainIsStray`).

`ObservationProofs`

* The engine is made of loops, and what a loop computes for every input takes an induction
  that the library states over operators. It is stated here over families of sets
  (`FamilyInduction`), of which `Rounds` makes a rule for `Loop`: what holds at first
  and is kept by a round holds at the end. Every loop of the proof has its rule
  (`MergeRule`, `PairRule`, `RunsRule`, ...).
* An algebra of windows: `MergedIs` and `IntersectedIs` say that `merge_windows` and
  `intersect_windows` give the union and the intersection of what is covered, in windows
  in order that do not touch; `MinutesAre` that minutes count instants; `SummaryIs` that
  the gaps are the complement.
* `ObservedIsProvable` (`CoverageIsProvable`) adds what the loop over successes keeps
  (`RunsAre`): the windows closed and open so far cover what two successes among those seen
  prove, and the open one ends with the deadline of the last. `SuccessfulIs` says which
  sample stands for an instant with several.
* `RangeIsObserved` (`RangeLosesOnlyItsEdges`): what a fetch loses is proved by two successes
  of which it has not both. If it has neither or only the later, the earlier one is
  older than the look-back and its reach (`InReach`: at most the look-back) does not come
  to the range; so the later one carries the instant, which takes two reaches longer than
  the look-back. If it has only the earlier, the later one comes after the range.
* `EvidenceTypeCorrect` (types, no run checks them) by `EvidenceInv`: samples are in order
  of time, and no stamp is ahead of the clock.
* The three theorems that follow rest on `HistoryInv`: `EvidenceInv`, reports and tracking
  edges in order of time, and no edge ahead of the clock. Without the order the last row of a
  table would not be the last in time (`Tops`), which is what every loop over rows takes it
  for; without the clock an edge that a poll appends could come before earlier ones.
* `SpansAreReported` (`SpansAreStates`): the loop over edges keeps which instants are tracked
  (`TrackRule`), the one over reports what the last plain report says (`Says`), and each
  list of spans is a `Chain`: in order, apart, and saying one thing of an instant.
  `intersect_spans` and the join of equal neighbours keep what a chain says; a chain in
  which no two neighbours could be one is the one the property describes. A fetched range
  begins with the row before it, so that the range knows all that counts within it
  (`PriorTops`), an anomaly before it masking the report it follows.
* `FiguresCount` (`FiguresAddUp`): the minutes of two lists of windows that meet are the
  cardinality of what both cover; an hour is a window, and a heatmap cell such a count. For
  co-presence the loop over pairs of spans adds up disjoint sets of instants.
* `GapsCountNothing` (`GapsAreNotVisits`): a span that is counted as a visit begins at an
  arrival (`CountedArrives`), and no two at the same one, so that visits are no more than
  arrivals; a place changes only where a report says so (`PlaceMoves`). The first span
  at a place continues none, so that who was seen has visited (`SeenCounts`).

`BackupProofs`

* `MergesKeepTablesWhole` (`TablesAreWhole`) by `BackupInv`: the tables of every tenant are
  whole, and so is a file. The step that needs work is the import: of two tags, the one
  merged later was compared with the other as it then was (`AcceptedTags`), or both
  names were there before (`MergedNames`).
* `ImportIsIdempotent` (`ImportOnlyAddsOnce`): per row, that the newer of two rows stays when
  it is merged again and clashes with nothing (`NewestTwice`); for tags, that a name met in
  the second merge was met in the first one or stands in the file, whose names are unique,
  which is why a file has to be known to be whole.
* `ImportsConverge` (`SitesConverge`) holds of any two tables (`MergedBack`).
* `RevisionsNameNotes` (`RevisionNamesNote`) by `RevisionInv`: every copy of a note, in a table,
  the file or a browser, has the revision of an edit that has been made; a merge makes no
  copy that was not there (`CopiesKept`), and an edit draws a revision that nobody has.

Only model-checked: every liveness property (fairness and ENABLED are outside the
prover).

## Where code and documentation disagree

One run checks a sentence of the documentation and is expected to fail.

* `hosted_doc_reconnect`. *Reconnect requires VRChat login* (`docs/isme/SKMB.md:29`). A
  poll under way during the disconnect brings the account back to `active`: by a rotated
  cookie, stored with the state and without a look at `_sessions`, or by ingesting
  after the look and before the disconnect's own step.

More of these statements are written down in the modules, without a run of their own.
TLC refutes each when it is added to its component's `.cfg`:

* `HostedSession!ActiveAccountIsCollected`. *Only the explicit disconnect action stops
  hosted collection* (decision 001, lines 23-24). The 401 of an old session marks the row; a
  new login stores its credential and wakes the manager; then the old thread's
  `disconnect` blocks the tenant. The account is active, its credential is good, and
  nothing collects until somebody logs in again, asks for a sync, or restarts the server.
* `PresenceIngest!FutureIsQuarantined` (with `Skews` beyond `Grace`). *Events more than
  five minutes ahead of ingestion are ... quarantined from current state* (decision 002,
  lines 31-32). Pipeline events, which carry VRChat's own stamp, go straight into the row
  and keep polls from correcting it until that time. The same decision quarantines them
  from *all analytics*; `AnalyticsService._snapshot` and `InsightsService._events` still
  take an anomaly for the last row before a range.
* `PresenceIngest!AbsenceIsConfirmed`. Tracking *ends when a later complete snapshot confirms
  absence* (read-only intelligence design, line 177). A friend who comes online between
  the online pages and the offline pages is on neither.
* `PresenceIngest!HistoryEndsAtRow`. The status history has *all recorded changes*
  (`README.md:23`). An event stored after a snapshot with a later stamp is refused as a row
  and kept in the history, which then ends with a presence the friend does not have;
  polls compare with the row and see nothing to record.
* `WorldResolver!RetryAfterHonoured` without `restarts = 0`. *A process restart cannot erase
  a 429 deadline* (decision 003, lines 21-22). The deadline is written after the
  request has left the queue.
* `Organization!BothVersionsStaySelectable`. *Both versions remain selectable until the user
  resolves the conflict* (`docs/isme/SKMB.md:33`). A dashboard that is reopened with a stored
  draft of an older revision forgets the draft.
* `Observation!TimelineWithinCoverage`. Ranges without evidence *are never treated as fully
  observed* (read-only intelligence design, lines 178-179). The day's timeline takes the
  whole range for covered when nothing in it is.
* `Observation!EveryReturnIsAVisit`. Observed visits are counted (the same, line 139).
  `worlds.py:853-878` joins two spans of one instance unless a report *inside the gap*
  ends the visit, whereas `insights.py:319` counts spans.

Seen while reading, outside the properties:

* Hosted: the same absence of a comparison with the login lets a 401 clear, and a late
  rotation overwrite, the credential of a login that came later.
* Worlds: the resolver's queue has no limit, though decision 003, line 18, calls it bounded; a
  tenant that joins a request after `_next_tenant` returned `None` is dropped with it;
  an exception of the store outside `drain_once`'s `try` ends the thread.
* Organization: what is typed while a dashboard save is under way is overwritten by its
  success (`DashboardView.tsx:241-249`); a note draft is dropped when the dialog closes
  before the autosave timer; a retry after a lost answer reports the user's own write as
  another device's; after a lost answer to `create_tag` the retry is refused for its name.
* Access: the limiter looks and counts in two steps; concurrent attempts exceed the limit
  by their number less one (`AttemptsBounded` states exactly that).
* Analytics: a day cached while it was today counts as settled after midnight if the
  revision has not changed; the 7260 s of look-back hold two reaches for intervals of up to
  1785 s only, while 3600 s are admitted: beyond, the start of a range may lose what an
  earlier sample proves, and its end what a later one does (`RangeLosesOnlyItsEdges`).
* Backup: a tenant's own earlier backup is refused for good once a tag was unassigned
  and assigned again, or renamed while another took its old name; so are some orders of
  renames; two tenants that assign one tag to one player separately can never merge.
* Off-site: while the database does not change, a newer artifact cannot be confirmed: the object
  recorded for its digest is of an earlier one, the metadata differ in `created_at`, and every
  pass ends in an error once the marker is two hours old; one bad archive on disk keeps
  every later one from being uploaded until it is pruned; a lost answer to `create` leaves an
  upload open that nobody aborts; artifacts pruned during a long outage are never uploaded; objects deleted remotely stay recorded.

## What is left out

* `HostedSession`: the branch of `_start_session` for a cookie that cannot be decrypted
  (it marks the row and returns); the length of backoffs and intervals; errors between
  a login's connect and its wake; logins that run at the same time are one thread
  after another; `LoopReconcile` is one action though it takes the lock once per session.
* `PresenceIngest`: names and their history; client-supplied event ids, their aliases and
  the conflicts between them (the collector makes ids that are hashes of the content);
  the limits in bytes and of friends, which act as the modelled limit does; several pages
  per list; duplicated events; the anomaly ledger, to which nothing in this path adds.
* `WorldResolver`: the pacing between requests, the attempts counter and the length of
  delays; Retry-After on answers other than 429; exceptions of the store.
* `Organization`: the share's audit, appearance and unlock limiter; one friend stands for all.
* `Access`: hashing, cookies, cross-site checks; `cancel`, which has no caller.
* `Observation`: parsing of times and flags, `classify_location`, platforms, time zones,
  rankings, paging and caches.
* `Backup`: file formats and parsing, the v1 and v2 readers, size limits, chunked upload,
  legacy event ids.
* `OffsiteBackup`: download and restore drill, the bytes and checksums of objects in the bucket
  (a request with wrong bytes is a lost one), authentication, health checks.

### Not modelled

Search and health are single SELECTs; the local application is the predecessor kept for
migration; migration, telemetry and release scripts are one-shot tools; what the browser
application has beyond the note dialog and the dashboard editor is presentation. None
of them keeps a state that several actors race for.

## Plan

Done: every component whose state several actors race for, the interval engine, both kinds
of backup; theorems for eight modules.

Left, in this order:

1. `SessionSlot`, an abstract specification of what the manager promises the rest (one
   session per tenant, replaced atomically), implemented by `HostedSession`.
2. The reconnect backoff of the pipeline in time, with its effect on REST polls.
3. `Observation` over the wider ranges in which discovery fetches, with the aggregates per
   world.
