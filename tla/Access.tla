------------------------------- MODULE Access -------------------------------
(***************************************************************************)
(* Who may use the hosted service: access codes of bootstrapped tenants,   *)
(* VRChat logins with their pending second factor (VRChatAuthService), the *)
(* browser sessions both end in, collector tokens, the administrator's     *)
(* rotations and revocations with their audit, and the limiter of failed   *)
(* logins.  Requests are threads that interleave at every await and lock;  *)
(* the process restarts between any two steps.                             *)
(***************************************************************************)
EXTENDS Integers, FiniteSets

CONSTANTS
  Tenant,       \* tenants
  Hosted,       \* those that VRChat logins create; the others are bootstrapped
  Code,         \* ids of access codes, each issued once
  Session,      \* ids of browser sessions, each issued once
  Challenge,    \* ids of pending logins, each issued once
  Request,      \* requests the server handles at a time
  Address,      \* client addresses
  Attempts,     \* login_attempts
  None,         \* no value
  MaxChanges    \* bound on revocations and restarts together

ASSUME HostedAssumption == Hosted \subseteq Tenant /\ None \notin Tenant
ASSUME IdAssumption == None \notin Code /\ IsFiniteSet(Code) /\ IsFiniteSet(Session)
ASSUME AttemptsAssumption == Attempts \in Nat \ {0} /\ IsFiniteSet(Request)
ASSUME BoundAssumption == MaxChanges \in Nat

VARIABLES
  tenants,    \* rows of tenants
  code,       \* login_codes: the tenant of a code and whether it is revoked
  session,    \* viewer_tokens; by is the code it was exchanged for
  collector,  \* collectors: whether the tenant's is revoked
  audited,    \* security_audit: revocations it accounts for, by table
  pending,    \* VRChatAuthService._pending: the tenant a pending login is for
  expired,    \* pending logins past expires_at and not yet pruned
  failures,   \* LoginRateLimiter._failures: recent failures of an address
  request,    \* the requests being handled
  purged,     \* history: codes revoked before the tenant's last revoke-all
  logouts,    \* history: sessions their own browsers ended
  restored,   \* history: revoked collectors a VRChat login took into use again
  spent,      \* history: pending logins completed, pruned or lost
  changes     \* counts against MaxChanges

vars == <<tenants, code, session, collector, audited, pending, expired, failures,
          request, purged, logouts, restored, spent, changes>>

store == <<tenants, code, session, collector, audited>>
memory == <<pending, expired, failures, request>>
history == <<purged, logouts, restored, spent, changes>>

-----------------------------------------------------------------------------
(* Types                                                                    *)

CodeRow == [tenant: Tenant \cup {None}, revoked: BOOLEAN]

SessionRow == [tenant: Tenant \cup {None}, by: Code \cup {None},
               revoked: BOOLEAN, age: {"new", "expired", "deleted"}]

Totals == [codes: Nat, sessions: Nat, collectors: Nat]

\* Where a handler is: it has passed the limiter ("typed" an access code, "asked"
\* VRChat), has an answer to count ("refused") or to forget failures for, or is
\* in the second factor or in finish_vrchat_login.
Place == {"idle", "typed", "asked", "refused", "issued", "challenged", "passed",
          "verify", "accepted", "connect", "session"}

Handler == [at: Place, address: Address \cup {None}, code: Code \cup {None},
            tenant: Hosted \cup {None}, challenge: Challenge \cup {None}]

Idle == [at |-> "idle", address |-> None, code |-> None, tenant |-> None, challenge |-> None]

Init ==
  /\ tenants = {}
  /\ code = [c \in Code |-> [tenant |-> None, revoked |-> FALSE]]
  /\ session = [s \in Session |->
       [tenant |-> None, by |-> None, revoked |-> FALSE, age |-> "new"]]
  /\ collector = [t \in Tenant |-> FALSE]
  /\ audited = [t \in Tenant |-> [codes |-> 0, sessions |-> 0, collectors |-> 0]]
  /\ pending = [k \in Challenge |-> None]
  /\ expired = {}
  /\ failures = [a \in Address |-> 0]
  /\ request = [r \in Request |-> Idle]
  /\ purged = [t \in Tenant |-> {}]
  /\ logouts = {}
  /\ restored = [t \in Tenant |-> 0]
  /\ spent = {}
  /\ changes = 0

-----------------------------------------------------------------------------
(* The administrator                                                        *)

\* A change the bound still admits.
Counted == changes < MaxChanges /\ changes' = changes + 1

Active(t) == {c \in Code : code[c].tenant = t /\ ~code[c].revoked}

\* A session whose row no one has revoked; it may have expired.
Unrevoked(t) ==
  {s \in Session : session[s].tenant = t /\ ~session[s].revoked /\ session[s].age # "deleted"}

Fresh(c) == code[c].tenant = None

\* bootstrap
Bootstrap(t, c) ==
  /\ t \notin tenants /\ t \notin Hosted /\ Fresh(c)
  /\ tenants' = tenants \cup {t}
  /\ code' = [code EXCEPT ![c].tenant = t]
  /\ UNCHANGED <<session, collector, audited, memory, history>>

\* The codes of one tenant, all revoked.
Revoked(t) ==
  [c \in Code |-> [code[c] EXCEPT !.revoked = @ \/ code[c].tenant = t]]

\* rotate_access_code
RotateCode(t, c) ==
  /\ t \in tenants /\ Fresh(c)
  /\ code' = [Revoked(t) EXCEPT ![c].tenant = t]
  /\ audited' = [audited EXCEPT ![t].codes = @ + Cardinality(Active(t))]
  /\ UNCHANGED <<tenants, session, collector, memory, history>>

\* Mutant: revoked_count counts every code of the tenant.
RevokeEveryCode(t) ==
  /\ t \in tenants /\ Counted
  /\ code' = Revoked(t)
  /\ audited' = [audited EXCEPT ![t].codes =
       @ + Cardinality({c \in Code : code[c].tenant = t})]
  /\ UNCHANGED <<tenants, session, collector, memory, purged, logouts, restored, spent>>

\* revoke_access_codes
RevokeCodes(t) ==
  /\ t \in tenants /\ Counted
  /\ code' = Revoked(t)
  /\ audited' = [audited EXCEPT ![t].codes = @ + Cardinality(Active(t))]
  /\ UNCHANGED <<tenants, session, collector, memory, purged, logouts, restored, spent>>

\* revoke_all_viewer_sessions
RevokeSessions(t) ==
  /\ t \in tenants /\ Counted
  /\ session' = [s \in Session |->
       [session[s] EXCEPT !.revoked = @ \/ s \in Unrevoked(t)]]
  /\ audited' = [audited EXCEPT ![t].sessions = @ + Cardinality(Unrevoked(t))]
  /\ purged' = [purged EXCEPT ![t] = {c \in Code : code[c].tenant = t /\ code[c].revoked}]
  /\ UNCHANGED <<tenants, code, collector, memory, logouts, restored, spent>>

\* revoke_collector; a second call changes nothing.  rotate_collector_token
\* replaces the token only of a collector that is not revoked.
RevokeCollector(t) ==
  /\ t \in tenants /\ ~collector[t] /\ Counted
  /\ collector' = [collector EXCEPT ![t] = TRUE]
  /\ audited' = [audited EXCEPT ![t].collectors = @ + 1]
  /\ UNCHANGED <<tenants, code, session, memory, purged, logouts, restored, spent>>

-----------------------------------------------------------------------------
(* Sessions                                                                 *)

Issued(s, t, c) ==
  session' = [session EXCEPT ![s] = [tenant |-> t, by |-> c, revoked |-> FALSE, age |-> "new"]]

NewSession(s) == session[s].tenant = None

\* logout of a session viewer() has let in
Logout(s) ==
  /\ ~NewSession(s) /\ ~session[s].revoked /\ session[s].age = "new"
  /\ session' = [session EXCEPT ![s].revoked = TRUE]
  /\ logouts' = logouts \cup {s}
  /\ UNCHANGED <<tenants, code, collector, audited, memory, purged, restored, spent,
                 changes>>

\* session_days go by.
SessionExpires(s) ==
  /\ ~NewSession(s) /\ session[s].age = "new"
  /\ session' = [session EXCEPT ![s].age = "expired"]
  /\ UNCHANGED <<tenants, code, collector, audited, memory, history>>

-----------------------------------------------------------------------------
(* The limiter                                                              *)

\* Mutant: one attempt more.
AllowedInclusive(a) == failures[a] <= Attempts

\* LoginRateLimiter.allowed
Allowed(a) == failures[a] < Attempts

\* A failure leaves the window.
WindowPasses(a) ==
  /\ failures[a] > 0
  /\ failures' = [failures EXCEPT ![a] = @ - 1]
  /\ UNCHANGED <<store, pending, expired, request, history>>

\* The refusal of login and of vrchat_login: limiter.fail
CountFailure(r) ==
  /\ request[r].at = "refused"
  /\ failures' = [failures EXCEPT ![request[r].address] = @ + 1]
  /\ request' = [request EXCEPT ![r] = Idle]
  /\ UNCHANGED <<store, pending, expired, history>>

\* limiter.clear; a VRChat login without a second factor goes on.
ClearFailures(r) ==
  /\ request[r].at \in {"issued", "challenged", "passed"}
  /\ failures' = [failures EXCEPT ![request[r].address] = 0]
  /\ request' = [request EXCEPT ![r] =
       IF request[r].at = "passed" THEN [Idle EXCEPT !.at = "connect", !.tenant = request[r].tenant]
       ELSE Idle]
  /\ UNCHANGED <<store, pending, expired, history>>

-----------------------------------------------------------------------------
(* POST /v1/login                                                           *)

Begin(r, a, at, c) ==
  /\ request[r] = Idle /\ Allowed(a)
  /\ request' = [request EXCEPT ![r] = [Idle EXCEPT !.at = at, !.address = a, !.code = c]]
  /\ UNCHANGED <<store, pending, expired, failures, history>>

\* The user types a code; one that has not been issued is a wrong one.
LoginBegin(r, a) == \E c \in Code : Begin(r, a, "typed", c)

\* Mutant: a revoked code is as good as another.
ExchangeRevoked(r) ==
  LET c == request[r].code
  IN
  /\ request[r].at = "typed"
  /\ IF ~Fresh(c)
     THEN /\ \E s \in Session : NewSession(s) /\ Issued(s, code[c].tenant, c)
          /\ request' = [request EXCEPT ![r].at = "issued"]
     ELSE /\ request' = [request EXCEPT ![r].at = "refused"]
          /\ UNCHANGED session
  /\ UNCHANGED <<tenants, code, collector, audited, pending, expired, failures, history>>

\* exchange_access_code: one transaction looks the code up and issues the session.
LoginExchange(r) ==
  LET c == request[r].code
  IN
  /\ request[r].at = "typed"
  /\ IF ~Fresh(c) /\ ~code[c].revoked
     THEN /\ \E s \in Session : NewSession(s) /\ Issued(s, code[c].tenant, c)
          /\ request' = [request EXCEPT ![r].at = "issued"]
     ELSE /\ request' = [request EXCEPT ![r].at = "refused"]
          /\ UNCHANGED session
  /\ UNCHANGED <<tenants, code, collector, audited, pending, expired, failures, history>>

-----------------------------------------------------------------------------
(* POST /v1/vrchat/login and /v1/vrchat/2fa                                 *)

VRChatBegin(r, a) == Begin(r, a, "asked", None)

\* VRChat refuses the password, or the call fails otherwise.
VRChatRefuses(r) ==
  /\ request[r].at = "asked"
  /\ \/ request' = [request EXCEPT ![r].at = "refused"]
     \/ request' = [request EXCEPT ![r] = Idle]
  /\ UNCHANGED <<store, pending, expired, failures, history>>

\* It is satisfied with the password.
VRChatAccepts(r, t) ==
  /\ request[r].at = "asked"
  /\ request' = [request EXCEPT ![r].at = "passed", ![r].tenant = t]
  /\ UNCHANGED <<store, pending, expired, failures, history>>

\* _prune_locked
Pruned == [k \in Challenge |-> IF k \in expired THEN None ELSE pending[k]]

NeverIssued(k) == pending[k] = None /\ k \notin spent

\* It asks for a second factor: begin keeps the login for the browser to complete.
VRChatChallenges(r, t, k) ==
  /\ request[r].at = "asked" /\ NeverIssued(k)
  /\ pending' = [Pruned EXCEPT ![k] = t]
  /\ expired' = {}
  /\ spent' = spent \cup expired
  /\ request' = [request EXCEPT ![r].at = "challenged"]
  /\ UNCHANGED <<store, failures, purged, logouts, restored, changes>>

\* lifetime_seconds go by.
ChallengeExpires(k) ==
  /\ pending[k] # None /\ k \notin expired
  /\ expired' = expired \cup {k}
  /\ UNCHANGED <<store, pending, failures, request, history>>

\* complete prunes and reads the pending login; without one the handler ends.
TwoFactorBegin(r, k) ==
  /\ request[r] = Idle
  /\ pending' = Pruned
  /\ expired' = {}
  /\ spent' = spent \cup expired
  /\ request' = IF Pruned[k] = None THEN request
                ELSE [request EXCEPT ![r] =
                        [Idle EXCEPT !.at = "verify", !.challenge = k, !.tenant = pending[k]]]
  /\ UNCHANGED <<store, failures, purged, logouts, restored, changes>>

\* VRChat refuses the digits, or the call fails: the pending login stays.
TwoFactorFails(r) ==
  /\ request[r].at = "verify"
  /\ request' = [request EXCEPT ![r] = Idle]
  /\ UNCHANGED <<store, pending, expired, failures, history>>

\* VRChat accepts the digits, of two requests perhaps twice.
TwoFactorPasses(r) ==
  /\ request[r].at = "verify"
  /\ request' = [request EXCEPT ![r].at = "accepted"]
  /\ UNCHANGED <<store, pending, expired, failures, history>>

\* Mutant: the pending login stays for its lifetime.
PopLater(r) ==
  /\ request[r].at = "accepted"
  /\ spent' = spent \cup {request[r].challenge}
  /\ request' = [request EXCEPT ![r].at = "connect", ![r].challenge = None]
  /\ UNCHANGED <<store, failures, purged, logouts, restored, changes, pending, expired>>

\* complete forgets it.
Pop(r) ==
  /\ request[r].at = "accepted"
  /\ pending' = [pending EXCEPT ![request[r].challenge] = None]
  /\ expired' = expired \ {request[r].challenge}
  /\ spent' = spent \cup {request[r].challenge}
  /\ request' = [request EXCEPT ![r].at = "connect", ![r].challenge = None]
  /\ UNCHANGED <<store, failures, purged, logouts, restored, changes>>

\* finish_vrchat_login: connect_vrchat_account
Connect(r) ==
  LET t == request[r].tenant
  IN
  /\ request[r].at = "connect"
  /\ tenants' = tenants \cup {t}
  /\ collector' = [collector EXCEPT ![t] = FALSE]
  /\ restored' = [restored EXCEPT ![t] = IF collector[t] THEN @ + 1 ELSE @]
  /\ request' = [request EXCEPT ![r].at = "session"]
  /\ UNCHANGED <<code, session, audited, pending, expired, failures, purged, logouts,
                 spent, changes>>

\* create_viewer_session
CreateSession(r) ==
  /\ request[r].at = "session"
  /\ \E s \in Session : NewSession(s) /\ Issued(s, request[r].tenant, None)
  /\ request' = [request EXCEPT ![r] = Idle]
  /\ UNCHANGED <<tenants, code, collector, audited, pending, expired, failures, history>>

\* The store raises; the handler ends with a 500, between two of its calls too.
StoreFails(r) ==
  /\ request[r].at \in {"typed", "connect", "session"}
  /\ request' = [request EXCEPT ![r] = Idle]
  /\ UNCHANGED <<store, pending, expired, failures, history>>

-----------------------------------------------------------------------------

\* The process ends between any two steps; the new one deletes expired sessions.
Restart ==
  /\ Counted
  /\ pending' = [k \in Challenge |-> None]
  /\ spent' = spent \cup {k \in Challenge : pending[k] # None}
  /\ expired' = {}
  /\ failures' = [a \in Address |-> 0]
  /\ request' = [r \in Request |-> Idle]
  /\ session' = [s \in Session |->
       [session[s] EXCEPT !.age = IF @ = "expired" THEN "deleted" ELSE @]]
  /\ UNCHANGED <<tenants, code, collector, audited, purged, logouts, restored>>

Administer ==
  \/ \E t \in Tenant, c \in Code : Bootstrap(t, c) \/ RotateCode(t, c)
  \/ \E t \in Tenant : RevokeCodes(t) \/ RevokeSessions(t) \/ RevokeCollector(t)

Handle(r) ==
  \/ \E a \in Address : LoginBegin(r, a) \/ VRChatBegin(r, a)
  \/ LoginExchange(r) \/ CreateSession(r)
  \/ CountFailure(r) \/ ClearFailures(r) \/ VRChatRefuses(r)
  \/ \E t \in Hosted : VRChatAccepts(r, t)
  \/ \E t \in Hosted, k \in Challenge : VRChatChallenges(r, t, k)
  \/ \E k \in Challenge : TwoFactorBegin(r, k)
  \/ TwoFactorFails(r) \/ TwoFactorPasses(r) \/ Pop(r) \/ Connect(r)
  \/ StoreFails(r)

TimePasses ==
  \/ \E s \in Session : SessionExpires(s)
  \/ \E k \in Challenge : ChallengeExpires(k)
  \/ \E a \in Address : WindowPasses(a)

Next ==
  \/ Administer
  \/ \E s \in Session : Logout(s)
  \/ \E r \in Request : Handle(r)
  \/ TimePasses
  \/ Restart

Spec == Init /\ [][Next]_vars

-----------------------------------------------------------------------------

TypeOK ==
  /\ tenants \subseteq Tenant
  /\ code \in [Code -> CodeRow]
  /\ session \in [Session -> SessionRow]
  /\ collector \in [Tenant -> BOOLEAN]
  /\ audited \in [Tenant -> Totals]
  /\ pending \in [Challenge -> Hosted \cup {None}]
  /\ expired \subseteq Challenge
  /\ failures \in [Address -> Nat]
  /\ request \in [Request -> Handler]
  /\ purged \in [Tenant -> SUBSET Code]
  /\ logouts \subseteq Session
  /\ restored \in [Tenant -> Nat]
  /\ spent \subseteq Challenge
  /\ changes \in Nat

\* auth lets the browser in.
LetIn(s) ==
  ~NewSession(s) /\ ~session[s].revoked /\ session[s].age = "new"

\* Whoever replaces the access code and then revokes all sessions has ended
\* every session of the old code, one included whose exchange was under way:
\* the look at the code and the session are one transaction.
OldCodesAreOut ==
  \A s \in Session : LetIn(s) /\ session[s].by # None =>
    session[s].by \notin purged[session[s].tenant]

\* A tenant has one access code at a time.
OneActiveCode == \A t \in Tenant : Cardinality(Active(t)) <= 1

\* The audit accounts for every revocation, each once, whatever is revoked twice,
\* logged out, expired or deleted, and in whichever order.
AuditCountsRevocations ==
  \A t \in Tenant :
    /\ audited[t].codes = Cardinality({c \in Code : code[c].tenant = t /\ code[c].revoked})
    /\ audited[t].sessions =
         Cardinality({s \in Session \ logouts : session[s].tenant = t /\ session[s].revoked})
    /\ audited[t].collectors = restored[t] + (IF collector[t] THEN 1 ELSE 0)

\* Requests of an address that have passed the limiter and are not counted yet.
Uncounted(a) ==
  {r \in Request : request[r].address = a /\ request[r].at \in {"typed", "asked", "refused"}}

\* The limiter looks and counts in two steps: requests under way at once may all
\* pass, and no more than they.
AttemptsBounded ==
  \A a \in Address :
    failures[a] + Cardinality(Uncounted(a)) <= Attempts - 1 + Cardinality(Request)

\* A pending login is completed by one request, or by several that overlapped:
\* none begins with it after one of them has ended.
CompletedOnce ==
  [][\A r \in Request :
       request[r].at # "verify" /\ request'[r].at = "verify" =>
         request'[r].challenge \notin spent \cup expired]_vars

=============================================================================
