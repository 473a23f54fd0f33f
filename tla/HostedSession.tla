---------------------------- MODULE HostedSession ----------------------------
(***************************************************************************)
(* The hosted collector of one tenant: the account row that holds its      *)
(* VRChat credential (server/storage.py), the manager that keeps at most   *)
(* one running session per tenant (server/hosted_collector.py), and the    *)
(* HTTP handlers that log in, disconnect and ask for a sync                *)
(* (server/app.py).                                                        *)
(*                                                                         *)
(* The threads meet in two places, the SQLite row (under store.lock) and   *)
(* the manager's dictionaries (under manager._lock); a step of this module *)
(* is one stretch of code between two acquisitions of those locks or two   *)
(* requests to VRChat.  Tenants share no state but the pool's size, so one *)
(* tenant is modelled.                                                     *)
(*                                                                         *)
(* A credential is abstracted to the login it descends from and how often  *)
(* VRChat has rotated it since.  credential_updated_at, a stamp taken under*)
(* the store's lock, is a counter.  Durations (poll interval, backoff) are *)
(* abstracted to "due later" and "due now".                                *)
(***************************************************************************)
EXTENDS Naturals

CONSTANTS
  Session,        \* identities of _TenantSession objects, reused once garbage
  NoSession,      \* dict.get() found nothing
  Calls,          \* which of PossibleCalls an instance makes
  MaxLogins,      \* bound: successful VRChat logins
  MaxRotations,   \* bound: rotations of one login's cookie
  MaxRestarts     \* bound: restarts of the server process

\* Threads other than the pipeline listeners: the manager's loop, the pool
\* worker that runs _sync, the world resolver, and two request handlers.
Worker == {"loop", "poll", "world", "disconnect", "login"}

ASSUME SessionAssumption ==
  /\ NoSession \notin Session
  /\ Session \cap Worker = {}
  /\ NoSession \notin Worker

\* Calls from outside the loop and the pool: world lookups of the resolver,
\* refused handshakes of a listener (401, 429), and two endpoints.
PossibleCalls == {"world", "refuse", "throttle", "disconnect", "sync"}

ASSUME BoundAssumption ==
  /\ Calls \subseteq PossibleCalls
  /\ MaxLogins \in Nat
  /\ MaxRotations \in Nat
  /\ MaxRestarts \in Nat

\* A session's pipeline listener is the thread named by that session.
Thread == Worker \cup Session

\* Threads that send requests with a session's credential.
Caller == {"poll", "world"}

Cookie == [login : Nat, gen : Nat]
NoCookie == [login |-> 0, gen |-> 0]      \* SQL NULL

VARIABLES
  account,    \* row of vrchat_accounts: state, encrypted_cookie, credential_updated_at
  logins,     \* number of VRChat logins completed so far
  expired,    \* logins whose credential VRChat no longer accepts
  restarts,   \* restarts of the process so far
  current,    \* manager._sessions.get(tenant)
  blocked,    \* tenant in manager._blocked
  due,        \* manager._due.get(tenant)
  sess,       \* heap of _TenantSession objects
  pc,         \* where each thread is
  mine,       \* the session a thread works on or is about to stop
  held        \* credential and revision a thread has read and not yet used

store == <<account, logins, expired, restarts>>
manager == <<current, blocked, due>>
threads == <<pc, mine, held>>
vars == <<account, logins, expired, restarts, current, blocked, due,
          sess, pc, mine, held>>

Account == [state : {"none", "active", "reconnect", "disconnected"},
            cookie : Cookie, rev : Nat]
SessionObject == [cookie : Cookie, persisted : Cookie, rev : Nat,
                  stopped : BOOLEAN]
Held == [cookie : Cookie, rev : Nat]
Label == {"idle", "off", "on", "read", "reconcile", "start", "cookie",
          "install", "launch", "dispatch", "begin", "lookup", "check",
          "request", "persist", "write", "note", "commit", "ingest", "schedule",
          "mark", "drop", "stop", "wake"}

EmptyHeld == [cookie |-> NoCookie, rev |-> 0]
DeadSession == [cookie |-> NoCookie, persisted |-> NoCookie, rev |-> 0,
                stopped |-> TRUE]
\* Where a thread is in a process that has just started.
Parked(t) == IF t = "loop" THEN "read" ELSE IF t \in Session THEN "off" ELSE "idle"

Init ==
  /\ account = [state |-> "none", cookie |-> NoCookie, rev |-> 0]
  /\ logins = 0
  /\ expired = {}
  /\ restarts = 0
  /\ current = NoSession
  /\ blocked = FALSE
  /\ due = "none"
  /\ sess = [s \in Session |-> DeadSession]
  /\ pc = [t \in Thread |-> Parked(t)]
  /\ mine = [t \in Thread |-> NoSession]
  /\ held = [t \in Thread |-> EmptyHeld]

-----------------------------------------------------------------------------
(* Helpers                                                                  *)

\* The row is in active_vrchat_accounts() and vrchat_account_cookie() reads it.
Usable == account.state = "active" /\ account.cookie # NoCookie

\* No dictionary, stack or running listener refers to the object.
Garbage(s) ==
  /\ s # current
  /\ pc[s] = "off"
  /\ \A t \in Thread : mine[t] # s

\* store.lock is free: a poll holds it from its last look at _sessions to the
\* end of the ingest, a region in which manager._lock is taken and released.
StoreFree == pc["poll"] # "ingest"

Goto(t, label) == pc' = [pc EXCEPT ![t] = label]

\* The thread's call ends: its locals go, and it waits for its next one.
Leave(t, label) ==
  /\ Goto(t, label)
  /\ mine' = [mine EXCEPT ![t] = NoSession]
  /\ held' = [held EXCEPT ![t] = EmptyHeld]

\* Where the code goes after _persist_rotated_cookie returned.
AfterPersist(t) ==
  IF t = "poll" THEN Goto(t, "commit") /\ UNCHANGED mine
                ELSE Goto(t, "idle") /\ mine' = [mine EXCEPT ![t] = NoSession]

-----------------------------------------------------------------------------
(* The manager's loop                                                       *)

\* One iteration begins with a snapshot of the active accounts.
LoopRead ==
  /\ pc["loop"] = "read"
  /\ StoreFree
  /\ held' = [held EXCEPT !["loop"].rev = IF Usable THEN account.rev ELSE 0]
  /\ Goto("loop", "reconcile")
  /\ UNCHANGED <<store, manager, sess, mine>>

\* Mutant: the loop keeps a session for any account in the snapshot.
ReconcileIgnoresRevision ==
  /\ pc["loop"] = "reconcile"
  /\ \/ /\ current # NoSession
        /\ held["loop"].rev = 0
        /\ current' = NoSession
        /\ mine' = [mine EXCEPT !["loop"] = current]
        /\ Goto("loop", "stop")
     \/ /\ current # NoSession => held["loop"].rev # 0
        /\ Goto("loop", "start")
        /\ UNCHANGED <<current, mine>>
  /\ UNCHANGED <<store, blocked, due, sess, held>>

\* First half of _reconcile_sessions: a session whose account left the
\* snapshot, or whose revision differs from it, is taken out and then stopped.
LoopReconcile ==
  /\ pc["loop"] = "reconcile"
  /\ \/ /\ current # NoSession
        /\ sess[current].rev # held["loop"].rev
        /\ current' = NoSession
        /\ mine' = [mine EXCEPT !["loop"] = current]
        /\ Goto("loop", "stop")
     \/ /\ current # NoSession => sess[current].rev = held["loop"].rev
        /\ Goto("loop", "start")
        /\ UNCHANGED <<current, mine>>
  /\ UNCHANGED <<store, blocked, due, sess, held>>

\* Second half: the account gets a session unless it has one or is blocked.
LoopStart ==
  /\ pc["loop"] = "start"
  /\ IF held["loop"].rev # 0 /\ current = NoSession /\ ~blocked
     THEN Goto("loop", "cookie")
     ELSE Goto("loop", "dispatch")
  /\ UNCHANGED <<store, manager, sess, mine, held>>

\* Mutant: an assignment to _due instead of setdefault.
DispatchReschedules ==
  LET at == IF current # NoSession THEN "later" ELSE due
      hand == current # NoSession /\ at = "now" /\ pc["poll"] = "idle"
  IN
  /\ pc["loop"] = "dispatch"
  /\ pc' = [pc EXCEPT !["loop"] = "read",
                      !["poll"] = IF hand THEN "begin" ELSE @]
  /\ mine' = [mine EXCEPT !["poll"] = IF hand THEN current ELSE @]
  /\ due' = IF held["loop"].rev = 0 THEN "none" ELSE at
  /\ held' = [held EXCEPT !["loop"] = EmptyHeld]
  /\ UNCHANGED <<store, current, blocked, sess>>

\* The rest of the iteration, in one region of manager._lock: a finished
\* future makes room, a due session is handed to the pool, and the due time
\* of a tenant that is not in the snapshot is dropped.
LoopDispatch ==
  LET at == IF current # NoSession /\ due = "none" THEN "later" ELSE due
      hand == current # NoSession /\ at = "now" /\ pc["poll"] = "idle"
  IN
  /\ pc["loop"] = "dispatch"
  /\ pc' = [pc EXCEPT !["loop"] = "read",
                      !["poll"] = IF hand THEN "begin" ELSE @]
  /\ mine' = [mine EXCEPT !["poll"] = IF hand THEN current ELSE @]
  /\ due' = IF held["loop"].rev = 0 THEN "none" ELSE at
  /\ held' = [held EXCEPT !["loop"] = EmptyHeld]
  /\ UNCHANGED <<store, current, blocked, sess>>

\* The clock reaches the tenant's due time.
DueElapses ==
  /\ due = "later"
  /\ due' = "now"
  /\ UNCHANGED <<store, current, blocked, sess, threads>>

-----------------------------------------------------------------------------
(* _start_session, called by the loop and by the world resolver             *)

\* The caller got no session: the loop goes on, fetch_world raises.
StartAbandoned(t) ==
  /\ IF t = "loop" THEN Goto(t, "dispatch") /\ UNCHANGED held
                   ELSE Goto(t, "idle") /\ held' = [held EXCEPT ![t] = EmptyHeld]
  /\ UNCHANGED mine

\* The caller got a session some thread had installed before it.
StartFoundExisting(t) ==
  IF t = "loop" THEN Goto(t, "dispatch") /\ UNCHANGED <<mine, held>>
  ELSE /\ Goto(t, "check")
       /\ mine' = [mine EXCEPT ![t] = current]
       /\ held' = [held EXCEPT ![t] = EmptyHeld]

\* Mutant: the row's cookie is used without a look whether there is one.
StartReadsAny(t) ==
  /\ pc[t] = "cookie"
  /\ StoreFree
  /\ held' = [held EXCEPT ![t].cookie = account.cookie]
  /\ Goto(t, "install")
  /\ UNCHANGED <<store, manager, sess, mine>>

\* vrchat_account_cookie: read again, so possibly newer than the snapshot.
StartReadCookie(t) ==
  /\ pc[t] = "cookie"
  /\ StoreFree
  /\ \/ /\ Usable
        /\ held' = [held EXCEPT ![t].cookie = account.cookie]
        /\ Goto(t, "install")
        /\ UNCHANGED mine
     \/ ~Usable /\ StartAbandoned(t)
  /\ UNCHANGED <<store, manager, sess>>

\* The new object of a session that is about to run.
Installed(t, s) ==
  /\ Garbage(s)
  /\ current' = s
  /\ sess' = [sess EXCEPT ![s] =
       [cookie |-> held[t].cookie, persisted |-> held[t].cookie,
        rev |-> held[t].rev, stopped |-> FALSE]]
  /\ mine' = [mine EXCEPT ![t] = s]

\* Mutant: _blocked is looked at before the cookie is read, not after.
InstallUnblocked(t) ==
  /\ pc[t] = "install"
  /\ \/ /\ current # NoSession
        /\ StartFoundExisting(t)
        /\ UNCHANGED <<current, sess>>
     \/ /\ current = NoSession
        /\ \E s \in Session : Installed(t, s)
        /\ Goto(t, "launch")
        /\ UNCHANGED held
  /\ UNCHANGED <<store, blocked, due>>

\* Mutant: an assignment to _sessions instead of setdefault.
InstallOverwrites(t) ==
  /\ pc[t] = "install"
  /\ \/ /\ blocked
        /\ StartAbandoned(t)
        /\ UNCHANGED <<current, sess>>
     \/ /\ ~blocked
        /\ \E s \in Session : Installed(t, s)
        /\ Goto(t, "launch")
        /\ UNCHANGED held
  /\ UNCHANGED <<store, blocked, due>>

\* The last look at _blocked and the setdefault, in one region of the lock.
StartInstall(t) ==
  /\ pc[t] = "install"
  /\ \/ /\ blocked
        /\ StartAbandoned(t)
        /\ UNCHANGED <<current, sess>>
     \/ /\ ~blocked
        /\ current # NoSession
        /\ StartFoundExisting(t)
        /\ UNCHANGED <<current, sess>>
     \/ /\ ~blocked
        /\ current = NoSession
        /\ \E s \in Session : Installed(t, s)
        /\ Goto(t, "launch")
        /\ UNCHANGED held
  /\ UNCHANGED <<store, blocked, due>>

\* start_pipeline and _due.setdefault.  The session may already be stopped:
\* its listener then finds stop_event set and ends.
StartLaunch(t) ==
  /\ pc[t] = "launch"
  /\ pc' = [pc EXCEPT ![mine[t]] = "on",
                      ![t] = IF t = "loop" THEN "dispatch" ELSE "check"]
  /\ due' = IF due = "none" THEN "later" ELSE due
  /\ IF t = "loop"
     THEN mine' = [mine EXCEPT ![t] = NoSession] /\ UNCHANGED held
     ELSE held' = [held EXCEPT ![t] = EmptyHeld] /\ UNCHANGED mine
  /\ UNCHANGED <<store, current, blocked, sess>>

-----------------------------------------------------------------------------
(* A poll (_sync) and a world lookup (fetch_world): two callers of VRChat   *)

\* The pool worker takes up the session it was given, if still current.
PollBegin ==
  /\ pc["poll"] = "begin"
  /\ IF mine["poll"] = current
     THEN Goto("poll", "request") /\ UNCHANGED <<mine, held>>
     ELSE Leave("poll", "idle")
  /\ UNCHANGED <<store, manager, sess>>

\* fetch_world takes the current session or looks for an active account.
WorldBegin ==
  /\ "world" \in Calls
  /\ pc["world"] = "idle"
  /\ \/ /\ current # NoSession
        /\ Goto("world", "check")
        /\ mine' = [mine EXCEPT !["world"] = current]
     \/ /\ current = NoSession
        /\ Goto("world", "lookup")
        /\ UNCHANGED mine
  /\ UNCHANGED <<store, manager, sess, held>>

\* active_vrchat_accounts; without a row fetch_world raises.
WorldLookup ==
  /\ pc["world"] = "lookup"
  /\ StoreFree
  /\ IF Usable
     THEN /\ held' = [held EXCEPT !["world"].rev = account.rev]
          /\ Goto("world", "start")
     ELSE Goto("world", "idle") /\ UNCHANGED held
  /\ UNCHANGED <<store, manager, sess, mine>>

\* The first region of _start_session, entered by the resolver.
WorldStart ==
  /\ pc["world"] = "start"
  /\ \/ current # NoSession /\ StartFoundExisting("world")
     \/ current = NoSession /\ blocked /\ StartAbandoned("world")
     \/ /\ current = NoSession
        /\ ~blocked
        /\ Goto("world", "cookie")
        /\ UNCHANGED <<mine, held>>
  /\ UNCHANGED <<store, manager, sess>>

\* The last look at _sessions before the request.
WorldCheck ==
  /\ pc["world"] = "check"
  /\ IF mine["world"] = current
     THEN Goto("world", "request") /\ UNCHANGED <<mine, held>>
     ELSE Leave("world", "idle")
  /\ UNCHANGED <<store, manager, sess>>

\* What a response leaves in client.cookie: VRChat may have rotated it.
Rotated(s) ==
  \E g \in {sess[s].cookie.gen, sess[s].cookie.gen + 1} :
    /\ g <= MaxRotations \/ g = sess[s].cookie.gen
    /\ sess' = [sess EXCEPT ![s].cookie.gen = g]

\* VRChat served the whole call.
RequestServed(t) ==
  /\ pc[t] = "request"
  /\ sess[mine[t]].cookie.login \notin expired
  /\ Rotated(mine[t])
  /\ Goto(t, "persist")
  /\ UNCHANGED <<store, manager, mine, held>>

\* VRChat answered 401.
RequestRejected(t) ==
  /\ pc[t] = "request"
  /\ sess[mine[t]].cookie.login \in expired
  /\ Goto(t, "mark")
  /\ UNCHANGED <<store, manager, sess, mine, held>>

\* Network failure, 429 or 5xx, possibly after a first response rotated the
\* cookie: a poll backs off, fetch_world raises.
RequestFailed(t) ==
  /\ pc[t] = "request"
  /\ Rotated(mine[t])
  /\ IF t = "poll" THEN Goto(t, "schedule") /\ UNCHANGED <<mine, held>>
                   ELSE Leave(t, "idle")
  /\ UNCHANGED <<store, manager>>

\* _persist_rotated_cookie compares the client's cookie with the one it saved.
PersistCheck(t) ==
  /\ pc[t] = "persist"
  /\ IF sess[mine[t]].cookie = sess[mine[t]].persisted
     THEN AfterPersist(t) /\ UNCHANGED held
     ELSE /\ held' = [held EXCEPT ![t].cookie = sess[mine[t]].cookie]
          /\ Goto(t, "write")
          /\ UNCHANGED mine
  /\ UNCHANGED <<store, manager, sess>>

\* Mutant: a rotated cookie is written and the state left as it is.
PersistKeepsState(t) ==
  /\ pc[t] = "write"
  /\ StoreFree
  /\ account' = [account EXCEPT !.cookie = held[t].cookie, !.rev = account.rev + 1]
  /\ held' = [held EXCEPT ![t].rev = account.rev + 1]
  /\ Goto(t, "note")
  /\ UNCHANGED <<logins, expired, restarts, manager, sess, mine>>

\* update_vrchat_cookie writes whatever the row holds by now.
PersistWrite(t) ==
  /\ pc[t] = "write"
  /\ StoreFree
  /\ account' = [state |-> "active", cookie |-> held[t].cookie,
                 rev |-> account.rev + 1]
  /\ held' = [held EXCEPT ![t].rev = account.rev + 1]
  /\ Goto(t, "note")
  /\ UNCHANGED <<logins, expired, restarts, manager, sess, mine>>

\* The session remembers what it saved and the revision that gave.
PersistNote(t) ==
  /\ pc[t] = "note"
  /\ sess' = [sess EXCEPT ![mine[t]].persisted = held[t].cookie,
                          ![mine[t]].rev = held[t].rev]
  /\ held' = [held EXCEPT ![t] = EmptyHeld]
  /\ AfterPersist(t)
  /\ UNCHANGED <<store, manager>>

\* The worker takes store.lock and looks whether its session is still current.
PollCheck ==
  /\ pc["poll"] = "commit"
  /\ IF mine["poll"] = current
     THEN Goto("poll", "ingest") /\ UNCHANGED <<mine, held>>
     ELSE Leave("poll", "idle")
  /\ UNCHANGED <<store, manager, sess>>

\* The snapshot is ingested, which also marks the account active.  A disconnect
\* may have taken the session out since the look.
PollIngest ==
  /\ pc["poll"] = "ingest"
  /\ account' = [account EXCEPT !.state = "active"]
  /\ Goto("poll", "schedule")
  /\ UNCHANGED <<logins, expired, restarts, manager, sess, mine, held>>

\* The store refuses the snapshot (a revoked collector, a duplicate player).
PollRefused ==
  /\ pc["poll"] = "ingest"
  /\ Goto("poll", "schedule")
  /\ UNCHANGED <<store, manager, sess, mine, held>>

\* _schedule, whatever has become of the session meanwhile.
Schedule(t) ==
  /\ pc[t] = "schedule"
  /\ due' = "later"
  /\ Leave(t, IF t = "poll" THEN "idle" ELSE "on")
  /\ UNCHANGED <<store, current, blocked, sess>>

-----------------------------------------------------------------------------
(* The way out after a 401 and the disconnect endpoint                      *)


\* mark_vrchat_account_result(reconnect=True).
MarkReconnect(t) ==
  /\ pc[t] = "mark"
  /\ StoreFree
  /\ account' = [account EXCEPT !.state = "reconnect", !.cookie = NoCookie]
  /\ Goto(t, "drop")
  /\ UNCHANGED <<logins, expired, restarts, manager, sess, mine, held>>

\* manager.disconnect, the region of its lock: it blocks the tenant and takes
\* out the session that is current now, which need not be the caller's own.
DropSession(t) ==
  /\ pc[t] = "drop"
  /\ blocked' = TRUE
  /\ current' = NoSession
  /\ due' = "none"
  /\ mine' = [mine EXCEPT ![t] = current]
  /\ Goto(t, "stop")
  /\ UNCHANGED <<store, sess, held>>

\* Mutant: the socket is closed and stop_event is not set.
StopForgetsEvent(t) ==
  /\ pc[t] = "stop"
  /\ mine' = [mine EXCEPT ![t] = NoSession]
  /\ Goto(t, IF t = "loop" THEN "start" ELSE IF t \in Session THEN "off" ELSE "idle")
  /\ UNCHANGED <<store, manager, sess, held>>

\* _stop_session: set stop_event, close the socket, wait at most two seconds.
StopSession(t) ==
  /\ pc[t] = "stop"
  /\ sess' = [s \in Session |->
                IF s = mine[t] THEN [sess[s] EXCEPT !.stopped = TRUE] ELSE sess[s]]
  /\ mine' = [mine EXCEPT ![t] = NoSession]
  /\ Goto(t, IF t = "loop" THEN "start" ELSE IF t \in Session THEN "off" ELSE "idle")
  /\ UNCHANGED <<store, manager, held>>

\* POST /v1/vrchat/disconnect begins: disconnect_vrchat_account.
DisconnectAccount ==
  /\ "disconnect" \in Calls
  /\ pc["disconnect"] = "idle"
  /\ StoreFree
  /\ account.state # "none"
  /\ account' = [account EXCEPT !.state = "disconnected", !.cookie = NoCookie]
  /\ Goto("disconnect", "drop")
  /\ UNCHANGED <<logins, expired, restarts, manager, sess, mine, held>>

-----------------------------------------------------------------------------
(* Login and sync requests                                                  *)

\* Mutant: a login that leaves credential_updated_at as it was.
LoginKeepsStamp ==
  /\ pc["login"] = "idle"
  /\ StoreFree
  /\ logins < MaxLogins
  /\ logins' = logins + 1
  /\ account' = [account EXCEPT !.state = "active",
                                !.cookie = [login |-> logins + 1, gen |-> 0]]
  /\ Goto("login", "wake")
  /\ UNCHANGED <<expired, restarts, manager, sess, mine, held>>

\* finish_vrchat_login, first part: connect_vrchat_account.
LoginConnect ==
  /\ pc["login"] = "idle"
  /\ StoreFree
  /\ logins < MaxLogins
  /\ logins' = logins + 1
  /\ account' = [state |-> "active", cookie |-> [login |-> logins + 1, gen |-> 0],
                 rev |-> account.rev + 1]
  /\ Goto("login", "wake")
  /\ UNCHANGED <<expired, restarts, manager, sess, mine, held>>

\* manager.wake
Wake ==
  /\ blocked' = FALSE
  /\ due' = "now"
  /\ UNCHANGED current

\* finish_vrchat_login, last part.
LoginWake ==
  /\ pc["login"] = "wake"
  /\ Wake
  /\ Goto("login", "idle")
  /\ UNCHANGED <<store, sess, mine, held>>

\* POST /v1/sync by a signed-in viewer.
SyncNow ==
  /\ "sync" \in Calls
  /\ account.state # "none"
  /\ Wake
  /\ UNCHANGED <<store, sess, threads>>

-----------------------------------------------------------------------------
(* The pipeline listener of a session                                       *)

\* The handshake answered 401.  _on_pipeline_error acts for a current session
\* only; the listener ends either way.
PipelineRejected(s) ==
  /\ "refuse" \in Calls
  /\ pc[s] = "on"
  /\ ~sess[s].stopped
  /\ sess[s].cookie.login \in expired
  /\ Goto(s, IF s = current THEN "mark" ELSE "off")
  /\ UNCHANGED <<store, manager, sess, mine, held>>

\* The handshake answered 429: the next poll is put off too.
PipelineThrottled(s) ==
  /\ "throttle" \in Calls
  /\ pc[s] = "on"
  /\ ~sess[s].stopped
  /\ s = current
  /\ Goto(s, "schedule")
  /\ UNCHANGED <<store, manager, sess, mine, held>>

\* stop_event is set: the listener's loop ends.
PipelineEnds(s) ==
  /\ pc[s] = "on"
  /\ sess[s].stopped
  /\ Goto(s, "off")
  /\ UNCHANGED <<store, manager, sess, mine, held>>

-----------------------------------------------------------------------------
(* The environment                                                          *)

\* VRChat stops accepting a login's credential.
UpstreamExpires ==
  /\ \E l \in 1..logins : l \notin expired /\ expired' = expired \cup {l}
  /\ UNCHANGED <<account, logins, restarts, manager, sess, threads>>

\* The process ends and starts again: only the row survives.
Restart ==
  /\ restarts < MaxRestarts
  /\ restarts' = restarts + 1
  /\ current' = NoSession
  /\ blocked' = FALSE
  /\ due' = "none"
  /\ sess' = [s \in Session |-> DeadSession]
  /\ pc' = [t \in Thread |-> Parked(t)]
  /\ mine' = [t \in Thread |-> NoSession]
  /\ held' = [t \in Thread |-> EmptyHeld]
  /\ UNCHANGED <<account, logins, expired>>

-----------------------------------------------------------------------------

LoopStep == LoopRead \/ LoopReconcile \/ LoopStart \/ LoopDispatch

StartStep(t) == StartReadCookie(t) \/ StartInstall(t) \/ StartLaunch(t)

CommitStep == PollCheck \/ PollIngest \/ PollRefused

RequestEnds(t) == RequestServed(t) \/ RequestRejected(t) \/ RequestFailed(t)

PersistStep(t) == PersistCheck(t) \/ PersistWrite(t) \/ PersistNote(t)

WorldStep == WorldLookup \/ WorldStart \/ WorldCheck

\* Marking, dropping and stopping, by whichever thread has come to it.
WayOut(t) == MarkReconnect(t) \/ DropSession(t) \/ StopSession(t)

PipelineStep(s) == PipelineRejected(s) \/ PipelineThrottled(s) \/ PipelineEnds(s)

Next ==
  \/ LoopStep
  \/ DueElapses
  \/ \E t \in {"loop", "world"} : StartStep(t)
  \/ PollBegin \/ CommitStep
  \/ WorldBegin \/ WorldStep
  \/ \E t \in Caller : RequestEnds(t) \/ PersistStep(t)
  \/ \E t \in Session \cup {"poll"} : Schedule(t)
  \/ \E t \in Thread : WayOut(t)
  \/ DisconnectAccount \/ LoginConnect \/ LoginWake \/ SyncNow
  \/ \E s \in Session : PipelineStep(s)
  \/ UpstreamExpires \/ Restart

Spec == Init /\ [][Next]_vars

\* Threads that have begun a call get on with it: requests time out, locks are
\* held briefly, and the loop never waits longer than a second.  Nothing makes
\* a user log in or press a button, a credential expire or the process restart.
Fairness ==
  /\ WF_vars(LoopStep)
  /\ WF_vars(DueElapses)
  /\ \A t \in {"loop", "world"} : WF_vars(StartStep(t))
  /\ WF_vars(PollBegin \/ CommitStep)
  /\ WF_vars(WorldStep)
  /\ \A t \in Caller : WF_vars(RequestEnds(t)) /\ WF_vars(PersistStep(t))
  /\ \A t \in Session \cup {"poll"} : WF_vars(Schedule(t))
  /\ \A t \in Thread : WF_vars(WayOut(t))
  /\ WF_vars(LoginWake)
  /\ \A s \in Session : WF_vars(PipelineEnds(s))

FairSpec == Spec /\ Fairness

-----------------------------------------------------------------------------
(* What holds                                                               *)

StoreOK ==
  /\ account \in Account
  /\ logins \in Nat
  /\ expired \subseteq Nat
  /\ restarts \in Nat

ManagerOK ==
  /\ current \in Session \cup {NoSession}
  /\ blocked \in BOOLEAN
  /\ due \in {"none", "later", "now"}

SessOK == sess \in [Session -> SessionObject]
PcOK == pc \in [Thread -> Label]
MineOK == mine \in [Thread -> Session \cup {NoSession}]
HeldOK == held \in [Thread -> Held]

\* Every variable keeps its type (the dataclasses and dictionaries of
\* HostedCollectorManager, the columns of vrchat_accounts).
TypeOK == StoreOK /\ ManagerOK /\ SessOK /\ PcOK /\ MineOK /\ HeldOK

\* While a tenant is in _blocked no session of it is registered: neither the
\* loop nor fetch_world, both of which read the cookie outside the lock, can
\* install one after manager.disconnect went past.
BlockedHasNoSession == blocked => current = NoSession

\* A session whose credential_updated_at equals the row's was built from, or
\* wrote, the login the row stores.  _reconcile_sessions compares nothing but
\* this stamp before it keeps a session across a new login.
RevisionIdentifiesLogin ==
  \A s \in Session :
    (sess[s].rev = account.rev /\ account.cookie # NoCookie)
      => sess[s].cookie.login = account.cookie.login

\* A listener nobody has told to stop belongs to the registered session, or is
\* the session some thread took out and is about to stop: no path that
\* replaces, drops or races a start leaves a second listener connected.
NoOrphanListener ==
  \A s \in Session :
    (pc[s] # "off" /\ ~sess[s].stopped)
      => s = current \/ \E t \in Thread : pc[t] = "stop" /\ mine[t] = s

\* Nothing of what collected the tenant is left: the row has no credential, no
\* session is registered, no thread holds a credential it has read, and no poll
\* or lookup is under way.
AtRest ==
  /\ account.cookie = NoCookie
  /\ current = NoSession
  /\ \A t \in Thread : held[t].cookie = NoCookie
  /\ \A t \in Caller : mine[t] = NoSession

\* Once a disconnect or a 401 has come to rest, only a login brings collection
\* back.  A snapshot of the accounts the loop took before the stop, a start that
\* has not read the cookie yet, a sync request that unblocks the tenant, a late
\* manager.disconnect and the state 'active' that a snapshot ingested after the
\* stop leaves behind (hosted_collector.py:544, storage.py:1775) do not.
StoppedStaysStopped ==
  [][AtRest => AtRest' \/ logins' > logins]_vars

\* An account that waits for a login, or that the user disconnected, stores no
\* credential, however rotations, rejections and disconnects interleave.
InactiveStoresNoCredential ==
  account.state \in {"reconnect", "disconnected"} => account.cookie = NoCookie

\* A credential that stays stored and is not blocked ends up in the running
\* session, though the old session polls, rotates and restarts meanwhile.
StoredLoginReachesCollector ==
  \A l \in 1..MaxLogins :
    (Usable /\ account.cookie.login = l) ~>
      \/ current # NoSession /\ sess[current].cookie.login = l
      \/ ~(Usable /\ account.cookie.login = l)
      \/ blocked

\* A listener that was replaced or disconnected ends.
SupersededListenerEnds ==
  \A s \in Session : (pc[s] = "on" /\ s # current) ~> (pc[s] # "on" \/ s = current)

\* A registered session is polled sooner or later, though wakes, rotations and
\* stale snapshots touch its due time, unless its pipeline is throttled.
SessionIsPolled ==
  \A s \in Session :
    s = current ~> (mine["poll"] = s \/ s # current \/ pc[s] = "schedule")

-----------------------------------------------------------------------------
(* What the documentation says and the code does not do                     *)

\* docs/isme/SKMB.md:29: after "User explicitly stopped upstream collection",
\* "Reconnect requires VRChat login": only a login takes the account out of
\* 'disconnected'.
ReconnectRequiresLogin ==
  [][(account.state = "disconnected" /\ account'.state # "disconnected")
       => logins' > logins]_vars

\* docs/isme/decisions/2026-08-30-001-hosted-session-lifecycle.md:23-24: "Only
\* the explicit disconnect action stops hosted collection and clears the
\* upstream session".  Nobody disconnects in this run, so an active account
\* whose credential VRChat accepts gets a session.
ActiveAccountIsCollected ==
  \A l \in 1..MaxLogins :
    (Usable /\ account.cookie.login = l) ~>
      \/ current # NoSession
      \/ l \in expired
      \/ ~(Usable /\ account.cookie.login = l)

=============================================================================
