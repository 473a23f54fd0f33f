---------------------------- MODULE AccessProofs ----------------------------
(***************************************************************************)
(* Proofs about Access for any tenants, codes, sessions, pending logins,   *)
(* addresses and number of requests.                                       *)
(***************************************************************************)
EXTENDS Access, FiniteSetTheorems, TLAPS

USE DEF store, memory, history

-----------------------------------------------------------------------------
(* Types                                                                    *)

\* What a handler has in hand at each place.
Holds(h) ==
  /\ h.at = "typed" => h.code \in Code
  /\ h.at \in {"typed", "asked", "refused", "issued", "challenged", "passed"} =>
       h.address \in Address
  /\ h.at \in {"passed", "verify", "accepted", "connect", "session"} => h.tenant \in Hosted
  /\ h.at \in {"verify", "accepted"} => h.challenge \in Challenge

HandlersHold == \A r \in Request : request[r] \in Handler /\ Holds(request[r])

\* A code that has not been issued is not revoked; one that has is a tenant's.
CodesIssued ==
  \A c \in Code : \/ code[c].tenant = None /\ ~code[c].revoked
                  \/ code[c].tenant \in tenants

Shape == TypeOK /\ HandlersHold /\ CodesIssued

LEMMA IdleHandler == Idle \in Handler /\ Holds(Idle)
BY DEF Idle, Handler, Place, Holds

\* A handler that goes on has what it had.
LEMMA Advance ==
  ASSUME NEW h \in Handler, NEW p \in Place
  PROVE  /\ [h EXCEPT !.at = p] \in Handler
         /\ [h EXCEPT !.at = p].at = p
         /\ [h EXCEPT !.at = p].address = h.address
         /\ [h EXCEPT !.at = p].code = h.code
         /\ [h EXCEPT !.at = p].tenant = h.tenant
         /\ [h EXCEPT !.at = p].challenge = h.challenge
BY DEF Handler

\* One handler moves and the others stay.
LEMMA OneMoves ==
  ASSUME Shape, NEW r \in Request, NEW h \in Handler, Holds(h),
         request' = [request EXCEPT ![r] = h]
  PROVE  request' \in [Request -> Handler] /\ HandlersHold'
BY DEF Shape, TypeOK, HandlersHold

LEMMA CountsAreNat ==
  \A t : Cardinality(Active(t)) \in Nat /\ Cardinality(Unrevoked(t)) \in Nat
<1> SUFFICES ASSUME NEW t
             PROVE  Cardinality(Active(t)) \in Nat /\ Cardinality(Unrevoked(t)) \in Nat
  OBVIOUS
<1>1. Active(t) \subseteq Code /\ Unrevoked(t) \subseteq Session
  BY DEF Active, Unrevoked
<1>2. IsFiniteSet(Active(t)) /\ IsFiniteSet(Unrevoked(t))
  BY <1>1, FS_Subset, IdAssumption
<1> QED BY <1>2, FS_CardinalityType

\* Rows that are revoked, or age, remain rows.
LEMMA RowUpdates ==
  ASSUME NEW P \in BOOLEAN
  PROVE  /\ \A row \in CodeRow : [row EXCEPT !.revoked = row.revoked \/ P] \in CodeRow
         /\ \A row \in SessionRow : [row EXCEPT !.revoked = row.revoked \/ P] \in SessionRow
         /\ \A row \in SessionRow : [row EXCEPT !.revoked = TRUE] \in SessionRow
         /\ \A row \in SessionRow, a \in {"new", "expired", "deleted"} :
              [row EXCEPT !.age = a] \in SessionRow
<1>1. ASSUME NEW row \in CodeRow
      PROVE  [row EXCEPT !.revoked = row.revoked \/ P] \in CodeRow
  <2>1. (row.revoked \/ P) \in BOOLEAN
    OBVIOUS
  <2> QED BY <2>1, Zenon DEF CodeRow
<1>2. ASSUME NEW row \in SessionRow
      PROVE  [row EXCEPT !.revoked = row.revoked \/ P] \in SessionRow
  <2>1. (row.revoked \/ P) \in BOOLEAN
    OBVIOUS
  <2> QED BY <2>1, Zenon DEF SessionRow
<1>3. ASSUME NEW row \in SessionRow
      PROVE  [row EXCEPT !.revoked = TRUE] \in SessionRow
  BY Zenon DEF SessionRow
<1>4. ASSUME NEW row \in SessionRow, NEW a \in {"new", "expired", "deleted"}
      PROVE  [row EXCEPT !.age = a] \in SessionRow
  BY DEF SessionRow
<1> QED BY <1>1, <1>2, <1>3, <1>4

\* A session that is issued is a row.
LEMMA IssuedRow ==
  ASSUME NEW t \in Tenant, NEW c \in Code \cup {None}
  PROVE  [tenant |-> t, by |-> c, revoked |-> FALSE, age |-> "new"] \in SessionRow
BY Zenon DEF SessionRow

\* What a revocation and a rotation make of each code.
LEMMA RevokedCodes ==
  ASSUME TypeOK, NEW t \in Tenant, NEW c \in Code
  PROVE  /\ Revoked(t)[c].tenant = code[c].tenant
         /\ Revoked(t)[c].revoked <=> code[c].revoked \/ code[c].tenant = t
BY DEF Revoked, TypeOK, CodeRow

LEMMA RotatedCodes ==
  ASSUME TypeOK, CodesIssued, NEW t \in Tenant, NEW c \in Code, RotateCode(t, c), NEW d \in Code
  PROVE  /\ code'[d].tenant = IF d = c THEN t ELSE code[d].tenant
         /\ code'[d].revoked <=> (d # c /\ (code[d].revoked \/ code[d].tenant = t))
<1>1. /\ Revoked(t) \in [Code -> CodeRow]
      /\ code' = [Revoked(t) EXCEPT ![c] = [Revoked(t)[c] EXCEPT !.tenant = t]]
  <2>1. \A e \in Code : [code[e] EXCEPT !.revoked = @ \/ code[e].tenant = t] \in CodeRow
    BY RowUpdates DEF TypeOK
  <2>2. Revoked(t) \in [Code -> CodeRow]
    BY <2>1 DEF Revoked
  <2> QED BY <2>2 DEF RotateCode
<1>2. None \notin Tenant /\ code[c].tenant = None /\ ~code[c].revoked
  BY HostedAssumption DEF RotateCode, Fresh, CodesIssued, TypeOK
<1>3. CASE d = c
  BY <1>1, <1>2, <1>3, RevokedCodes DEF CodeRow
<1>4. CASE d # c
  <2>1. code'[d] = Revoked(t)[d]
    BY <1>1, <1>4
  <2> QED BY <1>4, <2>1, RevokedCodes
<1> QED BY <1>3, <1>4

\* The administrator's calls keep the handlers and the types.
LEMMA TypeAdminister ==
  ASSUME Shape, Administer
  PROVE  Shape'
<1>1. TypeOK /\ HandlersHold /\ CodesIssued /\ None \notin Tenant
  BY HostedAssumption DEF Shape
<1>2. HandlersHold'
  BY <1>1 DEF Administer, Bootstrap, RotateCode, RevokeCodes, RevokeSessions,
     RevokeCollector, HandlersHold
<1>3. ASSUME NEW t \in Tenant, NEW c \in Code, Bootstrap(t, c)
      PROVE  TypeOK' /\ CodesIssued'
  <2>1. code' \in [Code -> CodeRow] /\ tenants' \subseteq Tenant
    BY <1>1, <1>3 DEF Bootstrap, TypeOK, CodeRow
  <2>2. CodesIssued'
    BY <1>1, <1>3 DEF Bootstrap, TypeOK, CodeRow, CodesIssued, Fresh
  <2> QED BY <1>1, <1>3, <2>1, <2>2 DEF Bootstrap, TypeOK
<1>4. \A t \in Tenant : Revoked(t) \in [Code -> CodeRow]
  <2> TAKE t \in Tenant
  <2>1. \A c \in Code : [code[c] EXCEPT !.revoked = @ \/ code[c].tenant = t] \in CodeRow
    BY <1>1, RowUpdates DEF TypeOK
  <2> QED BY <2>1 DEF Revoked
<1>5. ASSUME NEW t \in Tenant, NEW c \in Code, RotateCode(t, c)
      PROVE  TypeOK' /\ CodesIssued'
  <2>1. code' \in [Code -> CodeRow]
    <3>1. Revoked(t) \in [Code -> CodeRow] /\ Revoked(t)[c] \in CodeRow
      BY <1>4
    <3>2. [Revoked(t)[c] EXCEPT !.tenant = t] \in CodeRow
      BY <3>1 DEF CodeRow
    <3>3. code' = [Revoked(t) EXCEPT ![c] = [Revoked(t)[c] EXCEPT !.tenant = t]]
      BY <1>5, <3>1 DEF RotateCode
    <3> QED BY <3>1, <3>2, <3>3
  <2>2. CodesIssued'
    <3>1. \A d \in Code :
            /\ code'[d].tenant = IF d = c THEN t ELSE code[d].tenant
            /\ code'[d].revoked <=> (d # c /\ (code[d].revoked \/ code[d].tenant = t))
      BY <1>1, <1>5, RotatedCodes
    <3> QED BY <1>1, <1>5, <3>1 DEF RotateCode, CodesIssued
  <2>3. audited' \in [Tenant -> Totals]
    BY <1>1, <1>5, CountsAreNat DEF RotateCode, TypeOK, Totals
  <2> QED BY <1>1, <1>5, <2>1, <2>2, <2>3 DEF RotateCode, TypeOK
<1>6. ASSUME NEW t \in Tenant, RevokeCodes(t)
      PROVE  TypeOK' /\ CodesIssued'
  <2>1. code' \in [Code -> CodeRow] /\ changes' \in Nat
    BY <1>1, <1>4, <1>6 DEF RevokeCodes, Counted, TypeOK
  <2>2. CodesIssued'
    BY <1>1, <1>6, RevokedCodes DEF RevokeCodes, CodesIssued
  <2>3. audited' \in [Tenant -> Totals]
    BY <1>1, <1>6, CountsAreNat DEF RevokeCodes, TypeOK, Totals
  <2> QED BY <1>1, <1>6, <2>1, <2>2, <2>3 DEF RevokeCodes, TypeOK
<1>7. ASSUME NEW t \in Tenant, RevokeSessions(t)
      PROVE  TypeOK' /\ CodesIssued'
  <2>1. session' \in [Session -> SessionRow] /\ changes' \in Nat
    <3>1. \A s \in Session :
            [session[s] EXCEPT !.revoked = @ \/ s \in Unrevoked(t)] \in SessionRow
      <4> TAKE s \in Session
      <4>1. session[s] \in SessionRow /\ (s \in Unrevoked(t)) \in BOOLEAN
        BY <1>1 DEF TypeOK
      <4> QED BY <4>1, RowUpdates
    <3> QED BY <1>1, <1>7, <3>1 DEF RevokeSessions, Counted, TypeOK
  <2>2. purged' \in [Tenant -> SUBSET Code]
    BY <1>1, <1>7 DEF RevokeSessions, TypeOK
  <2>3. audited' \in [Tenant -> Totals]
    BY <1>1, <1>7, CountsAreNat, SMTT(20) DEF RevokeSessions, TypeOK, Totals
  <2> QED BY <1>1, <1>7, <2>1, <2>2, <2>3 DEF RevokeSessions, TypeOK, CodesIssued
<1>8. ASSUME NEW t \in Tenant, RevokeCollector(t)
      PROVE  TypeOK' /\ CodesIssued'
  <2>1. audited' \in [Tenant -> Totals] /\ changes' \in Nat
    BY <1>1, <1>8 DEF RevokeCollector, Counted, TypeOK, Totals
  <2> QED BY <1>1, <1>8, <2>1 DEF RevokeCollector, TypeOK, CodesIssued
<1> QED BY <1>2, <1>3, <1>5, <1>6, <1>7, <1>8 DEF Administer, Shape

LEMMA TypeHandle ==
  ASSUME Shape, NEW r \in Request, Handle(r)
  PROVE  Shape'
<1>1. /\ TypeOK /\ HandlersHold /\ CodesIssued
      /\ request[r] \in Handler /\ Holds(request[r])
      /\ Hosted \subseteq Tenant /\ None \notin Tenant
  BY HostedAssumption DEF Shape, HandlersHold
<1>2. ASSUME NEW a \in Address, NEW p \in {"typed", "asked"}, NEW c \in Code \cup {None},
             p = "typed" => c \in Code, Begin(r, a, p, c)
      PROVE  Shape'
  <2>1. /\ [Idle EXCEPT !.at = p, !.address = a, !.code = c] \in Handler
        /\ Holds([Idle EXCEPT !.at = p, !.address = a, !.code = c])
    BY <1>2 DEF Idle, Handler, Place, Holds
  <2>2. request' \in [Request -> Handler] /\ HandlersHold'
    BY <1>2, <2>1, OneMoves DEF Begin
  <2> QED BY <1>1, <1>2, <2>2 DEF Begin, Shape, TypeOK, CodesIssued
<1>3. CASE LoginExchange(r)
  <2> DEFINE c == request[r].code
  <2>1. /\ request[r].at = "typed" /\ c \in Code
        /\ code[c] \in CodeRow /\ (c \in Code => Fresh(c) \/ code[c].tenant \in Tenant)
    BY <1>1, <1>3 DEF LoginExchange, Holds, TypeOK, CodesIssued, Fresh
  <2>2. session' \in [Session -> SessionRow]
    BY <1>1, <1>3, <2>1, IssuedRow DEF LoginExchange, Issued, TypeOK
  <2>3. PICK p \in {"issued", "refused"} : request' = [request EXCEPT ![r].at = p]
    BY <1>3 DEF LoginExchange
  <2>4. request' = [request EXCEPT ![r] = [request[r] EXCEPT !.at = p]]
    BY <1>1, <2>3 DEF TypeOK
  <2>5. [request[r] EXCEPT !.at = p] \in Handler /\ Holds([request[r] EXCEPT !.at = p])
    <3>1. p \in Place /\ request[r].address \in Address
      BY <1>1, <2>1 DEF Holds, Place
    <3> QED BY <1>1, <3>1, Advance DEF Holds
  <2>6. request' \in [Request -> Handler] /\ HandlersHold'
    BY <2>4, <2>5, OneMoves
  <2> QED BY <1>1, <1>3, <2>2, <2>6 DEF LoginExchange, Shape, TypeOK, CodesIssued
<1>4. CASE CreateSession(r)
  <2>1. request[r].tenant \in Tenant
    BY <1>1, <1>4 DEF CreateSession, Holds
  <2>2. session' \in [Session -> SessionRow]
    BY <1>1, <1>4, <2>1, IssuedRow DEF CreateSession, Issued, TypeOK
  <2>3. request' \in [Request -> Handler] /\ HandlersHold'
    BY <1>4, IdleHandler, OneMoves DEF CreateSession
  <2> QED BY <1>1, <1>4, <2>2, <2>3 DEF CreateSession, Shape, TypeOK, CodesIssued
<1>5. CASE CountFailure(r)
  <2>1. request' \in [Request -> Handler] /\ HandlersHold'
    BY <1>5, IdleHandler, OneMoves DEF CountFailure
  <2>2. failures' \in [Address -> Nat]
    BY <1>1, <1>5 DEF CountFailure, TypeOK, Holds
  <2> QED BY <1>1, <1>5, <2>1, <2>2 DEF CountFailure, Shape, TypeOK, CodesIssued
<1>6. CASE ClearFailures(r)
  <2> DEFINE h == IF request[r].at = "passed"
                  THEN [Idle EXCEPT !.at = "connect", !.tenant = request[r].tenant]
                  ELSE Idle
  <2>1. h \in Handler /\ Holds(h)
    BY <1>1, IdleHandler DEF Idle, Handler, Place, Holds
  <2>2. request' \in [Request -> Handler] /\ HandlersHold'
    BY <1>6, <2>1, OneMoves DEF ClearFailures
  <2>3. failures' \in [Address -> Nat]
    BY <1>1, <1>6 DEF ClearFailures, TypeOK
  <2> QED BY <1>1, <1>6, <2>2, <2>3 DEF ClearFailures, Shape, TypeOK, CodesIssued
<1>7. CASE VRChatRefuses(r) \/ TwoFactorFails(r) \/ TwoFactorPasses(r)
  <2>1. CASE request' = [request EXCEPT ![r] = Idle]
    <3>1. request' \in [Request -> Handler] /\ HandlersHold'
      BY <2>1, IdleHandler, OneMoves
    <3> QED BY <1>1, <1>7, <3>1 DEF VRChatRefuses, TwoFactorFails, TwoFactorPasses, Shape, TypeOK,
               CodesIssued
  <2>2. ASSUME NEW p \in {"refused", "accepted"},
               request' = [request EXCEPT ![r].at = p],
               request[r].at = IF p = "refused" THEN "asked" ELSE "verify"
        PROVE  Shape'
    <3>1. p \in Place
      BY DEF Place
    <3>2. [request[r] EXCEPT !.at = p] \in Handler /\ Holds([request[r] EXCEPT !.at = p])
      BY <1>1, <2>2, <3>1, Advance DEF Holds
    <3>3. request' = [request EXCEPT ![r] = [request[r] EXCEPT !.at = p]]
      BY <1>1, <2>2 DEF TypeOK
    <3>4. request' \in [Request -> Handler] /\ HandlersHold'
      BY <3>2, <3>3, OneMoves
    <3> QED BY <1>1, <1>7, <3>4 DEF VRChatRefuses, TwoFactorFails, TwoFactorPasses, Shape, TypeOK,
               CodesIssued
  <2>3. CASE VRChatRefuses(r)
    BY <2>1, <2>2, <2>3 DEF VRChatRefuses
  <2>4. CASE TwoFactorFails(r)
    BY <2>1, <2>4 DEF TwoFactorFails
  <2>5. CASE TwoFactorPasses(r)
    BY <2>2, <2>5 DEF TwoFactorPasses
  <2> QED BY <1>7, <2>3, <2>4, <2>5
<1>8. ASSUME NEW t \in Hosted, VRChatAccepts(r, t)
      PROVE  Shape'
  <2> DEFINE h == [request[r] EXCEPT !.at = "passed", !.tenant = t]
  <2>1. h \in Handler /\ Holds(h)
    BY <1>1, <1>8 DEF VRChatAccepts, Handler, Place, Holds
  <2>2. request' = [request EXCEPT ![r] = h]
    BY <1>1, <1>8 DEF VRChatAccepts, TypeOK
  <2>3. request' \in [Request -> Handler] /\ HandlersHold'
    BY <2>1, <2>2, OneMoves
  <2> QED BY <1>1, <1>8, <2>3 DEF VRChatAccepts, Shape, TypeOK, CodesIssued
<1>9. Pruned \in [Challenge -> Hosted \cup {None}]
  BY <1>1 DEF Pruned, TypeOK
<1>10. ASSUME NEW t \in Hosted, NEW k \in Challenge, VRChatChallenges(r, t, k)
       PROVE  Shape'
  <2>1. request' = [request EXCEPT ![r] = [request[r] EXCEPT !.at = "challenged"]]
    BY <1>1, <1>10 DEF VRChatChallenges, TypeOK
  <2>2. /\ [request[r] EXCEPT !.at = "challenged"] \in Handler
        /\ Holds([request[r] EXCEPT !.at = "challenged"])
    BY <1>1, <1>10, Advance, ZenonT(40) DEF VRChatChallenges, Holds, Place
  <2>3. request' \in [Request -> Handler] /\ HandlersHold'
    BY <2>1, <2>2, OneMoves
  <2>4. pending' \in [Challenge -> Hosted \cup {None}]
    BY <1>9, <1>10 DEF VRChatChallenges
  <2> QED BY <1>1, <1>10, <2>3, <2>4 DEF VRChatChallenges, Shape, TypeOK, CodesIssued
<1>11. ASSUME NEW k \in Challenge, TwoFactorBegin(r, k)
       PROVE  Shape'
  <2> DEFINE h == [Idle EXCEPT !.at = "verify", !.challenge = k, !.tenant = pending[k]]
  <2>1. Pruned[k] # None => pending[k] \in Hosted
    BY <1>1 DEF Pruned, TypeOK
  <2>2. Pruned[k] # None => h \in Handler /\ Holds(h)
    BY <2>1 DEF Idle, Handler, Place, Holds
  <2>3. request' \in [Request -> Handler] /\ HandlersHold'
    <3>1. CASE Pruned[k] = None
      BY <1>1, <1>11, <3>1 DEF TwoFactorBegin, TypeOK, HandlersHold
    <3>2. CASE Pruned[k] # None
      BY <1>11, <2>2, <3>2, OneMoves DEF TwoFactorBegin
    <3> QED BY <3>1, <3>2
  <2> QED BY <1>1, <1>9, <1>11, <2>3 DEF TwoFactorBegin, Shape, TypeOK, CodesIssued
<1>12. CASE Pop(r)
  <2> DEFINE h == [request[r] EXCEPT !.at = "connect", !.challenge = None]
  <2>1. request[r].challenge \in Challenge /\ h \in Handler /\ Holds(h)
    BY <1>1, <1>12 DEF Pop, Handler, Place, Holds
  <2>2. request' = [request EXCEPT ![r] = h]
    BY <1>1, <1>12 DEF Pop, TypeOK
  <2>3. request' \in [Request -> Handler] /\ HandlersHold'
    BY <2>1, <2>2, OneMoves
  <2> QED BY <1>1, <1>12, <2>1, <2>3 DEF Pop, Shape, TypeOK, CodesIssued
<1>13. CASE Connect(r)
  <2>1. request[r].tenant \in Tenant
    BY <1>1, <1>13 DEF Connect, Holds
  <2>2. request' = [request EXCEPT ![r] = [request[r] EXCEPT !.at = "session"]]
    BY <1>1, <1>13 DEF Connect, TypeOK
  <2>3. /\ [request[r] EXCEPT !.at = "session"] \in Handler
        /\ Holds([request[r] EXCEPT !.at = "session"])
    BY <1>1, <1>13, Advance DEF Connect, Holds, Place
  <2>4. request' \in [Request -> Handler] /\ HandlersHold'
    BY <2>2, <2>3, OneMoves
  <2>5. /\ tenants' \subseteq Tenant /\ collector' \in [Tenant -> BOOLEAN]
        /\ restored' \in [Tenant -> Nat]
    BY <1>1, <1>13, <2>1 DEF Connect, TypeOK
  <2> QED BY <1>1, <1>13, <2>4, <2>5 DEF Connect, Shape, TypeOK, CodesIssued
<1>14. CASE StoreFails(r)
  <2>1. request' \in [Request -> Handler] /\ HandlersHold'
    BY <1>14, IdleHandler, OneMoves DEF StoreFails
  <2> QED BY <1>1, <1>14, <2>1 DEF StoreFails, Shape, TypeOK, CodesIssued
<1>15. ASSUME NEW a \in Address, LoginBegin(r, a) \/ VRChatBegin(r, a)
       PROVE  Shape'
  BY <1>2, <1>15 DEF LoginBegin, VRChatBegin
<1> QED BY <1>3, <1>4, <1>5, <1>6, <1>7, <1>8, <1>10, <1>11, <1>12, <1>13, <1>14, <1>15 DEF Handle

LEMMA TypeOthers ==
  ASSUME Shape, (\E s \in Session : Logout(s)) \/ TimePasses \/ Restart \/ UNCHANGED vars
  PROVE  Shape'
<1>1. TypeOK /\ HandlersHold /\ CodesIssued
  BY DEF Shape
<1>2. ASSUME NEW s \in Session, Logout(s) \/ SessionExpires(s)
      PROVE  Shape'
  <2>1. session' \in [Session -> SessionRow] /\ logouts' \subseteq Session
    <3>1. /\ [session[s] EXCEPT !.revoked = TRUE] \in SessionRow
          /\ [session[s] EXCEPT !.age = "expired"] \in SessionRow
      BY <1>1, RowUpdates DEF TypeOK
    <3> QED BY <1>1, <1>2, <3>1 DEF Logout, SessionExpires, TypeOK
  <2> QED BY <1>1, <1>2, <2>1 DEF Logout, SessionExpires, Shape, TypeOK, CodesIssued, HandlersHold
<1>3. ASSUME NEW k \in Challenge, ChallengeExpires(k)
      PROVE  Shape'
  BY <1>1, <1>3 DEF ChallengeExpires, Shape, TypeOK, CodesIssued, HandlersHold
<1>4. ASSUME NEW a \in Address, WindowPasses(a)
      PROVE  Shape'
  <2>1. failures' \in [Address -> Nat]
    BY <1>1, <1>4 DEF WindowPasses, TypeOK
  <2> QED BY <1>1, <1>4, <2>1 DEF WindowPasses, Shape, TypeOK, CodesIssued, HandlersHold
<1>5. CASE Restart
  <2>1. session' \in [Session -> SessionRow] /\ changes' \in Nat
    <3>1. \A s \in Session : session[s] \in SessionRow
            /\ session[s].age \in {"new", "expired", "deleted"}
      BY <1>1 DEF TypeOK, SessionRow
    <3>2. \A s \in Session :
            [session[s] EXCEPT !.age = IF @ = "expired" THEN "deleted" ELSE @] \in SessionRow
      BY <3>1, RowUpdates
    <3> QED BY <1>1, <1>5, <3>2 DEF Restart, Counted, TypeOK
  <2>2. request' \in [Request -> Handler] /\ HandlersHold'
    BY <1>5, IdleHandler DEF Restart, HandlersHold
  <2> QED BY <1>1, <1>5, <2>1, <2>2 DEF Restart, Shape, TypeOK, CodesIssued
<1>6. CASE UNCHANGED vars
  BY <1>1, <1>6 DEF vars, Shape, TypeOK, CodesIssued, HandlersHold
<1> QED BY <1>2, <1>3, <1>4, <1>5, <1>6 DEF TimePasses

LEMMA ShapeStep == Shape /\ [Next]_vars => Shape'
BY TypeAdminister, TypeHandle, TypeOthers DEF Next

LEMMA ShapeInit == Init => Shape
<1> SUFFICES ASSUME Init PROVE Shape
  OBVIOUS
<1>1. HandlersHold /\ request \in [Request -> Handler]
  BY IdleHandler DEF Init, HandlersHold
<1>2. session \in [Session -> SessionRow] /\ code \in [Code -> CodeRow]
  BY DEF Init, SessionRow, CodeRow
<1> QED BY <1>1, <1>2 DEF Init, Shape, TypeOK, CodesIssued, Totals

LEMMA ShapeAlways == Spec => []Shape
BY ShapeInit, ShapeStep, PTL DEF Spec

\* The rows of the store, the pending logins, the limiter and the handlers keep
\* their types, and a handler has in hand what its next step uses.
THEOREM AccessTypeCorrect == Spec => []TypeOK
BY ShapeAlways, PTL DEF Shape


-----------------------------------------------------------------------------
(* Sessions of codes that were revoked before the last revoke-all           *)

\* A purged code is one of the tenant's and revoked, and whoever was let in with
\* it is out.
Purge ==
  /\ \A t \in Tenant : \A c \in purged[t] : code[c].tenant = t /\ code[c].revoked
  /\ \A s \in Session : session[s].by # None =>
       /\ session[s].by \in Code
       /\ session[s].tenant \in Tenant
       /\ code[session[s].by].tenant = session[s].tenant
  /\ OldCodesAreOut

\* A step that leaves codes and purges, and lets nobody in, keeps Purge.
LEMMA PurgeKept ==
  ASSUME Shape, Purge, UNCHANGED <<code, purged>>,
         \A s \in Session :
           /\ session'[s].by = session[s].by /\ session'[s].tenant = session[s].tenant
           /\ LetIn(s)' => LetIn(s)
  PROVE  Purge'
BY DEF Purge, OldCodesAreOut

\* Nor does a step that leaves sessions and purges, and revokes codes.
LEMMA PurgeOfCodes ==
  ASSUME Shape, Purge, UNCHANGED <<session, purged>>,
         \A c \in Code : code[c].tenant # None =>
           /\ code'[c].tenant = code[c].tenant
           /\ code[c].revoked => code'[c].revoked
  PROVE  Purge'
<1>1. None \notin Tenant /\ purged \in [Tenant -> SUBSET Code]
  BY HostedAssumption DEF Shape, TypeOK
<1> QED BY <1>1 DEF Purge, OldCodesAreOut, LetIn, NewSession

LEMMA PurgeStep ==
  ASSUME Shape, Purge, [Next]_vars
  PROVE  Purge'
<1>1. /\ TypeOK /\ HandlersHold /\ CodesIssued /\ None \notin Tenant /\ None \notin Code
      /\ code \in [Code -> CodeRow] /\ session \in [Session -> SessionRow]
  BY HostedAssumption, IdAssumption DEF Shape, TypeOK
<1>2. ASSUME NEW t \in Tenant, NEW c \in Code, Bootstrap(t, c)
      PROVE  Purge'
  BY <1>1, <1>2, PurgeOfCodes DEF Bootstrap, Fresh, CodeRow
<1>3. ASSUME NEW t \in Tenant, NEW c \in Code, RotateCode(t, c)
      PROVE  Purge'
  <2>1. \A d \in Code : code[d].tenant # None =>
          code'[d].tenant = code[d].tenant /\ (code[d].revoked => code'[d].revoked)
    <3>1. \A d \in Code :
            /\ code'[d].tenant = IF d = c THEN t ELSE code[d].tenant
            /\ code'[d].revoked <=> (d # c /\ (code[d].revoked \/ code[d].tenant = t))
      BY <1>1, <1>3, RotatedCodes
    <3> QED BY <1>3, <3>1 DEF RotateCode, Fresh
  <2> QED BY <1>3, <2>1, PurgeOfCodes DEF RotateCode
<1>4. ASSUME NEW t \in Tenant, RevokeCodes(t)
      PROVE  Purge'
  <2>1. \A d \in Code :
          code'[d].tenant = code[d].tenant /\ (code[d].revoked => code'[d].revoked)
    BY <1>1, <1>4, RevokedCodes DEF RevokeCodes
  <2> QED BY <1>4, <2>1, PurgeOfCodes DEF RevokeCodes
<1>5. ASSUME NEW t \in Tenant, RevokeSessions(t)
      PROVE  Purge'
  <2>1. \A s \in Session :
          /\ session'[s].by = session[s].by /\ session'[s].tenant = session[s].tenant
          /\ session'[s].age = session[s].age
          /\ session'[s].revoked <=> (session[s].revoked \/ s \in Unrevoked(t))
    BY <1>1, <1>5 DEF RevokeSessions, SessionRow
  <2>2. \A s \in Session : LetIn(s)' => LetIn(s) /\ session[s].tenant # t
    BY <2>1 DEF LetIn, NewSession, Unrevoked
  <2>3. \A u \in Tenant : u # t => purged'[u] = purged[u]
    BY <1>1, <1>5 DEF RevokeSessions, TypeOK
  <2>4. \A u \in Tenant : \A c \in purged'[u] : code[c].tenant = u /\ code[c].revoked
    BY <1>1, <1>5, <2>3 DEF RevokeSessions, TypeOK, Purge
  <2>5. \A s \in Session : session'[s].by # None =>
          /\ session'[s].by \in Code /\ session'[s].tenant \in Tenant
          /\ code[session'[s].by].tenant = session'[s].tenant
    BY <2>1 DEF Purge
  <2>6. OldCodesAreOut'
    BY <2>1, <2>2, <2>3, <2>5 DEF Purge, OldCodesAreOut
  <2>7. code' = code
    BY <1>5 DEF RevokeSessions
  <2> QED BY <2>4, <2>5, <2>6, <2>7 DEF Purge
<1>6. ASSUME NEW r \in Request, LoginExchange(r)
      PROVE  Purge'
  <2> DEFINE c == request[r].code
  <2>1. c \in Code
    BY <1>1, <1>6 DEF LoginExchange, HandlersHold, Holds
  <2>2. CASE session' = session
    BY <1>6, <2>2, PurgeKept DEF LoginExchange, LetIn, NewSession
  <2>3. ASSUME NEW s \in Session, ~Fresh(c), ~code[c].revoked,
               Issued(s, code[c].tenant, c)
        PROVE  Purge'
    <3>1. code[c].tenant \in Tenant
      BY <1>1, <2>1, <2>3 DEF Fresh, CodesIssued, TypeOK
    <3>2. c \notin purged[code[c].tenant]
      BY <2>3, <3>1 DEF Purge
    <3>3. /\ session'[s].by = c /\ session'[s].tenant = code[c].tenant
          /\ \A u \in Session : u # s => session'[u] = session[u]
      BY <1>1, <2>3 DEF Issued
    <3> QED BY <1>6, <2>1, <3>1, <3>2, <3>3
      DEF LoginExchange, Purge, OldCodesAreOut, LetIn, NewSession
  <2> QED BY <1>6, <2>2, <2>3 DEF LoginExchange
<1>7. ASSUME NEW r \in Request, CreateSession(r)
      PROVE  Purge'
  <2>1. PICK s \in Session : Issued(s, request[r].tenant, None)
    BY <1>7 DEF CreateSession
  <2>2. session'[s].by = None /\ \A u \in Session : u # s => session'[u] = session[u]
    BY <1>1, <2>1 DEF Issued
  <2> QED BY <1>7, <2>2 DEF CreateSession, Purge, OldCodesAreOut, LetIn, NewSession
<1>8. ASSUME NEW s \in Session, Logout(s) \/ SessionExpires(s)
      PROVE  Purge'
  <2>1. \A u \in Session :
          /\ session'[u].by = session[u].by /\ session'[u].tenant = session[u].tenant
          /\ LetIn(u)' => LetIn(u)
    BY <1>1, <1>8 DEF Logout, SessionExpires, LetIn, NewSession, SessionRow
  <2> QED BY <1>8, <2>1, PurgeKept DEF Logout, SessionExpires
<1>9. CASE Restart
  <2>1. \A u \in Session :
          /\ session'[u].by = session[u].by /\ session'[u].tenant = session[u].tenant
          /\ LetIn(u)' => LetIn(u)
    BY <1>1, <1>9 DEF Restart, LetIn, NewSession, SessionRow
  <2> QED BY <1>9, <2>1, PurgeKept DEF Restart
<1>10. ASSUME UNCHANGED <<code, session, purged>>
       PROVE  Purge'
  BY <1>10, PurgeKept DEF LetIn, NewSession
<1>11. ASSUME NEW r \in Request, Handle(r), ~LoginExchange(r), ~CreateSession(r)
       PROVE  UNCHANGED <<code, session, purged>>
  BY <1>11 DEF Handle, LoginBegin, VRChatBegin, Begin, CountFailure, ClearFailures,
     VRChatRefuses, VRChatAccepts, VRChatChallenges, TwoFactorBegin, TwoFactorFails,
     TwoFactorPasses, Pop, Connect, StoreFails
<1>12. ASSUME NEW t \in Tenant, RevokeCollector(t)
       PROVE  UNCHANGED <<code, session, purged>>
  BY <1>12 DEF RevokeCollector
<1>13. ASSUME TimePasses, \A s \in Session : ~SessionExpires(s)
       PROVE  UNCHANGED <<code, session, purged>>
  BY <1>13 DEF TimePasses, ChallengeExpires, WindowPasses
<1>14. CASE UNCHANGED vars
  BY <1>10, <1>14 DEF vars
<1>15. CASE Administer
  BY <1>2, <1>3, <1>4, <1>5, <1>10, <1>12, <1>15 DEF Administer
<1>16. CASE \E r \in Request : Handle(r)
  BY <1>6, <1>7, <1>10, <1>11, <1>16
<1>17. CASE TimePasses
  BY <1>8, <1>10, <1>13, <1>17
<1> QED BY <1>8, <1>9, <1>14, <1>15, <1>16, <1>17 DEF Next

\* Whoever replaces the access code and then revokes all sessions has ended
\* every session of the old code, one whose exchange was under way included.
THEOREM OldCodesEnded == Spec => []OldCodesAreOut
<1>1. Init => Purge
  BY DEF Init, Purge, OldCodesAreOut
<1>2. Purge => OldCodesAreOut
  BY DEF Purge
<1> QED BY <1>1, <1>2, PurgeStep, ShapeAlways, PTL DEF Spec


-----------------------------------------------------------------------------
(* The audit                                                                *)

RevokedOf(t) == {c \in Code : code[c].tenant = t /\ code[c].revoked}

EndedOf(t) == {s \in Session \ logouts : session[s].tenant = t /\ session[s].revoked}

\* AuditCountsRevocations made inductive: a session its browser ended was issued
\* and is revoked.
Audit ==
  /\ \A s \in logouts : session[s].tenant # None /\ session[s].revoked
  /\ \A t \in Tenant :
       /\ audited[t].codes = Cardinality(RevokedOf(t))
       /\ audited[t].sessions = Cardinality(EndedOf(t))
       /\ audited[t].collectors = restored[t] + (IF collector[t] THEN 1 ELSE 0)

LEMMA DisjointCount ==
  ASSUME NEW S, NEW T, IsFiniteSet(S), IsFiniteSet(T), S \cap T = {}
  PROVE  Cardinality(S \cup T) = Cardinality(S) + Cardinality(T)
<1>1. Cardinality(S) \in Nat /\ Cardinality(T) \in Nat
  BY FS_CardinalityType
<1>2. Cardinality(S \cup T) = Cardinality(S) + Cardinality(T) - Cardinality(S \cap T)
  BY FS_Union
<1>3. Cardinality(S \cap T) = 0
  BY FS_EmptySet
<1> QED BY <1>1, <1>2, <1>3

LEMMA FiniteParts ==
  \A t : /\ IsFiniteSet(RevokedOf(t)) /\ IsFiniteSet(EndedOf(t))
         /\ IsFiniteSet(Active(t)) /\ IsFiniteSet(Unrevoked(t))
<1> TAKE t
<1>1. /\ RevokedOf(t) \subseteq Code /\ Active(t) \subseteq Code
      /\ EndedOf(t) \subseteq Session /\ Unrevoked(t) \subseteq Session
  BY DEF RevokedOf, EndedOf, Active, Unrevoked
<1> QED BY <1>1, FS_Subset, IdAssumption

\* The codes a rotation or a revocation revokes are those it counts.
LEMMA AuditCodes ==
  ASSUME Shape, Audit, NEW t \in Tenant,
         UNCHANGED <<session, collector, logouts, restored>>,
         audited' = [audited EXCEPT ![t].codes = @ + Cardinality(Active(t))],
         RevokedOf(t)' = RevokedOf(t) \cup Active(t),
         \A u \in Tenant : u # t => RevokedOf(u)' = RevokedOf(u)
  PROVE  Audit'
<1>1. audited \in [Tenant -> Totals]
  BY DEF Shape, TypeOK
<1>2. RevokedOf(t) \cap Active(t) = {}
  BY DEF RevokedOf, Active
<1>3. Cardinality(RevokedOf(t)') = Cardinality(RevokedOf(t)) + Cardinality(Active(t))
  BY <1>2, FiniteParts, DisjointCount
<1>4. /\ audited'[t].codes = audited[t].codes + Cardinality(Active(t))
      /\ \A u \in Tenant : /\ u # t => audited'[u].codes = audited[u].codes
                           /\ audited'[u].sessions = audited[u].sessions
                           /\ audited'[u].collectors = audited[u].collectors
  BY <1>1 DEF Totals
<1>5. \A u : EndedOf(u)' = EndedOf(u)
  BY DEF EndedOf
<1>6. \A u \in Tenant : Cardinality(EndedOf(u))' = Cardinality(EndedOf(u))
  BY <1>5
<1>7. \A u \in Tenant : u # t => Cardinality(RevokedOf(u))' = Cardinality(RevokedOf(u))
  OBVIOUS
<1> QED BY <1>3, <1>4, <1>6, <1>7, ZenonT(40) DEF Audit

\* A step that counts nothing revokes no code and ends no session, but by its
\* own browser.
LEMMA AuditKept ==
  ASSUME Shape, Audit, UNCHANGED audited,
         \A t \in Tenant : RevokedOf(t)' = RevokedOf(t) /\ EndedOf(t)' = EndedOf(t),
         \A s \in logouts' : session'[s].tenant # None /\ session'[s].revoked,
         \A t \in Tenant : restored'[t] + (IF collector'[t] THEN 1 ELSE 0)
                             = restored[t] + (IF collector[t] THEN 1 ELSE 0)
  PROVE  Audit'
BY DEF Audit

LEMMA AuditStep ==
  ASSUME Shape, Audit, [Next]_vars
  PROVE  Audit'
<1>1. /\ TypeOK /\ HandlersHold /\ CodesIssued /\ None \notin Tenant
      /\ code \in [Code -> CodeRow] /\ session \in [Session -> SessionRow]
      /\ audited \in [Tenant -> Totals] /\ tenants \subseteq Tenant
      /\ collector \in [Tenant -> BOOLEAN] /\ restored \in [Tenant -> Nat]
      /\ logouts \subseteq Session
  BY HostedAssumption DEF Shape, TypeOK
<1>2. ASSUME NEW t \in Tenant, NEW c \in Code, Bootstrap(t, c)
      PROVE  Audit'
  <2>1. ~code[c].revoked /\ code[c].tenant = None
    BY <1>1, <1>2 DEF Bootstrap, Fresh, CodesIssued
  <2>2. \A d \in Code : /\ code'[d].revoked = code[d].revoked
                        /\ d # c => code'[d].tenant = code[d].tenant
    BY <1>1, <1>2 DEF Bootstrap, CodeRow
  <2>3. \A u \in Tenant : RevokedOf(u)' = RevokedOf(u)
    BY <2>1, <2>2 DEF RevokedOf
  <2>4. \A u \in Tenant : EndedOf(u)' = EndedOf(u)
    BY <1>2 DEF Bootstrap, EndedOf
  <2> QED BY <1>2, <2>3, <2>4, AuditKept DEF Bootstrap, Audit
<1>3. ASSUME NEW t \in Tenant, NEW c \in Code, RotateCode(t, c)
      PROVE  Audit'
  <2>1. \A d \in Code :
          /\ code'[d].tenant = IF d = c THEN t ELSE code[d].tenant
          /\ code'[d].revoked <=> (d # c /\ (code[d].revoked \/ code[d].tenant = t))
    BY <1>1, <1>3, RotatedCodes
  <2>2. code[c].tenant = None
    BY <1>3 DEF RotateCode, Fresh
  <2>3. /\ RevokedOf(t)' = RevokedOf(t) \cup Active(t)
        /\ \A u \in Tenant : u # t => RevokedOf(u)' = RevokedOf(u)
    BY <1>1, <2>1, <2>2 DEF RevokedOf, Active
  <2> QED BY <1>3, <2>3, AuditCodes DEF RotateCode
<1>4. ASSUME NEW t \in Tenant, RevokeCodes(t)
      PROVE  Audit'
  <2>1. \A d \in Code :
          /\ code'[d].tenant = code[d].tenant
          /\ code'[d].revoked <=> (code[d].revoked \/ code[d].tenant = t)
    BY <1>1, <1>4, RevokedCodes DEF RevokeCodes
  <2>2. /\ RevokedOf(t)' = RevokedOf(t) \cup Active(t)
        /\ \A u \in Tenant : u # t => RevokedOf(u)' = RevokedOf(u)
    BY <2>1 DEF RevokedOf, Active
  <2> QED BY <1>4, <2>2, AuditCodes DEF RevokeCodes
<1>5. ASSUME NEW t \in Tenant, RevokeSessions(t)
      PROVE  Audit'
  <2>1. \A s \in Session :
          /\ session'[s].tenant = session[s].tenant
          /\ session'[s].revoked <=> (session[s].revoked \/ s \in Unrevoked(t))
    BY <1>1, <1>5 DEF RevokeSessions, SessionRow
  <2>2. Unrevoked(t) \cap logouts = {} /\ EndedOf(t) \cap Unrevoked(t) = {}
    BY DEF Audit, Unrevoked, EndedOf
  <2>3. \A s \in Unrevoked(t) : s \in Session \ logouts /\ session[s].tenant = t
    BY <2>2 DEF Unrevoked
  <2>4. logouts' = logouts
    BY <1>5 DEF RevokeSessions
  <2>5. \A u \in Tenant : \A s :
           s \in EndedOf(u)' <=> s \in EndedOf(u) \/ (u = t /\ s \in Unrevoked(t))
    BY <2>1, <2>3, <2>4 DEF EndedOf
  <2>6. /\ EndedOf(t)' = EndedOf(t) \cup Unrevoked(t)
        /\ \A u \in Tenant : u # t => EndedOf(u)' = EndedOf(u)
    BY <2>5
  <2>7. Cardinality(EndedOf(t)') = Cardinality(EndedOf(t)) + Cardinality(Unrevoked(t))
    BY <2>2, <2>6, FiniteParts, DisjointCount
  <2>8. /\ audited'[t].sessions = audited[t].sessions + Cardinality(Unrevoked(t))
        /\ \A u \in Tenant : /\ u # t => audited'[u].sessions = audited[u].sessions
                             /\ audited'[u].codes = audited[u].codes
                             /\ audited'[u].collectors = audited[u].collectors
    BY <1>1, <1>5 DEF RevokeSessions, Totals
  <2>9. \A u : RevokedOf(u)' = RevokedOf(u)
    BY <1>5 DEF RevokeSessions, RevokedOf
  <2>10. \A u \in Tenant : Cardinality(RevokedOf(u))' = Cardinality(RevokedOf(u))
    BY <2>9
  <2>11. \A u \in Tenant : u # t => Cardinality(EndedOf(u))' = Cardinality(EndedOf(u))
    BY <2>6
  <2>12. \A s \in logouts' : session'[s].tenant # None /\ session'[s].revoked
    BY <1>1, <1>5, <2>1 DEF RevokeSessions, Audit
  <2> QED BY <1>5, <2>7, <2>8, <2>10, <2>11, <2>12, ZenonT(40) DEF RevokeSessions, Audit
<1>6. ASSUME NEW t \in Tenant, RevokeCollector(t)
      PROVE  Audit'
  <2>1. /\ audited'[t].collectors = audited[t].collectors + 1
        /\ \A u \in Tenant : /\ u # t => audited'[u].collectors = audited[u].collectors
                             /\ audited'[u].codes = audited[u].codes
                             /\ audited'[u].sessions = audited[u].sessions
    BY <1>1, <1>6 DEF RevokeCollector, Totals
  <2>2. /\ ~collector[t] /\ collector'[t] = TRUE
        /\ \A u \in Tenant : u # t => collector'[u] = collector[u]
    BY <1>1, <1>6 DEF RevokeCollector
  <2>3. \A u : RevokedOf(u)' = RevokedOf(u) /\ EndedOf(u)' = EndedOf(u)
    BY <1>6 DEF RevokeCollector, RevokedOf, EndedOf
  <2>4. \A u \in Tenant : /\ Cardinality(RevokedOf(u))' = Cardinality(RevokedOf(u))
                          /\ Cardinality(EndedOf(u))' = Cardinality(EndedOf(u))
    BY <2>3
  <2>5. \A u \in Tenant : restored'[u] \in Nat /\ restored'[u] = restored[u]
    BY <1>1, <1>6 DEF RevokeCollector
  <2>6. \A u \in Tenant :
          audited'[u].collectors = restored'[u] + (IF collector'[u] THEN 1 ELSE 0)
    BY <1>1, <2>1, <2>2, <2>5 DEF Audit
  <2> QED BY <1>6, <2>1, <2>4, <2>6 DEF RevokeCollector, Audit
<1>7. ASSUME NEW s \in Session, NEW t, NEW c, NewSession(s), Issued(s, t, c),
             UNCHANGED <<code, audited, logouts, collector, restored>>
      PROVE  Audit'
  <2>1. /\ ~session'[s].revoked /\ session[s].tenant = None
        /\ \A u \in Session : u # s => session'[u] = session[u]
    BY <1>1, <1>7 DEF Issued, NewSession
  <2>2. s \notin logouts
    BY <2>1 DEF Audit
  <2>3. \A u \in Tenant : RevokedOf(u)' = RevokedOf(u)
    BY <1>7 DEF RevokedOf
  <2>4. \A u \in Tenant : EndedOf(u)' = EndedOf(u)
    BY <1>1, <1>7, <2>1 DEF EndedOf
  <2>5. \A u \in logouts' : session'[u].tenant # None /\ session'[u].revoked
    BY <1>1, <1>7, <2>1, <2>2 DEF Audit
  <2> QED BY <1>7, <2>3, <2>4, <2>5, AuditKept
<1>8. ASSUME NEW s \in Session, Logout(s)
      PROVE  Audit'
  <2>1. /\ \A u \in Session : session'[u].tenant = session[u].tenant
        /\ session'[s].revoked /\ session[s].tenant # None /\ ~session[s].revoked
        /\ \A u \in Session : u # s => session'[u].revoked = session[u].revoked
    BY <1>1, <1>8 DEF Logout, NewSession, SessionRow
  <2>2. \A u \in Tenant : EndedOf(u)' = EndedOf(u)
    BY <1>8, <2>1 DEF Logout, EndedOf
  <2>3. \A u \in Tenant : RevokedOf(u)' = RevokedOf(u)
    BY <1>8 DEF Logout, RevokedOf
  <2>4. \A u \in logouts' : session'[u].tenant # None /\ session'[u].revoked
    BY <1>1, <1>8, <2>1 DEF Logout, Audit
  <2> QED BY <1>8, <2>2, <2>3, <2>4, AuditKept DEF Logout
<1>9. ASSUME UNCHANGED <<code, audited, logouts, collector, restored>>,
             \A s \in Session : /\ session'[s].tenant = session[s].tenant
                                /\ session'[s].revoked = session[s].revoked
      PROVE  Audit'
  <2>1. \A u \in Tenant : RevokedOf(u)' = RevokedOf(u) /\ EndedOf(u)' = EndedOf(u)
    BY <1>9 DEF RevokedOf, EndedOf
  <2>2. \A u \in logouts' : session'[u].tenant # None /\ session'[u].revoked
    BY <1>1, <1>9 DEF Audit
  <2> QED BY <1>9, <2>1, <2>2, AuditKept
<1>10. ASSUME NEW r \in Request, Connect(r)
       PROVE  Audit'
  <2> DEFINE t == request[r].tenant
  <2>1. t \in Tenant
    BY <1>1, <1>10, HostedAssumption DEF Connect, HandlersHold, Holds
  <2>2. /\ collector'[t] = FALSE
        /\ restored'[t] = restored[t] + (IF collector[t] THEN 1 ELSE 0)
        /\ \A u \in Tenant : u # t => collector'[u] = collector[u] /\ restored'[u] = restored[u]
    BY <1>1, <1>10, <2>1 DEF Connect
  <2>3. \A u \in Tenant : restored'[u] + (IF collector'[u] THEN 1 ELSE 0)
                            = restored[u] + (IF collector[u] THEN 1 ELSE 0)
    BY <1>1, <2>2
  <2>4. \A u \in Tenant : RevokedOf(u)' = RevokedOf(u) /\ EndedOf(u)' = EndedOf(u)
    BY <1>10 DEF Connect, RevokedOf, EndedOf
  <2>5. \A s \in logouts' : session'[s].tenant # None /\ session'[s].revoked
    BY <1>10 DEF Connect, Audit
  <2> QED BY <1>10, <2>3, <2>4, <2>5, AuditKept DEF Connect
<1>11. ASSUME NEW r \in Request, Handle(r), ~Connect(r), ~LoginExchange(r), ~CreateSession(r)
       PROVE  UNCHANGED <<code, session, audited, logouts, collector, restored>>
  BY <1>11 DEF Handle, LoginBegin, VRChatBegin, Begin, CountFailure, ClearFailures,
     VRChatRefuses, VRChatAccepts, VRChatChallenges, TwoFactorBegin, TwoFactorFails,
     TwoFactorPasses, Pop, StoreFails
<1>12. CASE \E r \in Request : Handle(r)
  <2>1. ASSUME NEW r \in Request, LoginExchange(r)
        PROVE  Audit'
    <3>1. CASE session' = session
      BY <1>9, <2>1, <3>1 DEF LoginExchange
    <3>2. CASE session' # session
      BY <1>7, <2>1, <3>2 DEF LoginExchange
    <3> QED BY <3>1, <3>2
  <2>2. ASSUME NEW r \in Request, CreateSession(r)
        PROVE  Audit'
    BY <1>7, <2>2 DEF CreateSession
  <2> QED BY <1>9, <1>10, <1>11, <1>12, <2>1, <2>2
<1>13. CASE TimePasses
  <2>1. ASSUME NEW s \in Session, SessionExpires(s)
        PROVE  Audit'
    <3>1. \A u \in Session : /\ session'[u].tenant = session[u].tenant
                             /\ session'[u].revoked = session[u].revoked
      BY <1>1, <2>1 DEF SessionExpires, SessionRow
    <3> QED BY <1>9, <2>1, <3>1 DEF SessionExpires
  <2>2. CASE \A s \in Session : ~SessionExpires(s)
    BY <1>9, <1>13, <2>2 DEF TimePasses, ChallengeExpires, WindowPasses
  <2> QED BY <2>1, <2>2
<1>14. CASE Restart
  <2>1. \A u \in Session : /\ session'[u].tenant = session[u].tenant
                           /\ session'[u].revoked = session[u].revoked
    BY <1>1, <1>14 DEF Restart, SessionRow
  <2> QED BY <1>9, <1>14, <2>1 DEF Restart
<1>15. CASE UNCHANGED vars
  BY <1>9, <1>15 DEF vars
<1>16. CASE Administer
  BY <1>2, <1>3, <1>4, <1>5, <1>6, <1>16 DEF Administer
<1> QED BY <1>8, <1>12, <1>13, <1>14, <1>15, <1>16 DEF Next

LEMMA AuditInit == Init => Audit
<1> SUFFICES ASSUME Init PROVE Audit
  OBVIOUS
<1>1. None \notin Tenant
  BY HostedAssumption
<1>2. \A t \in Tenant : RevokedOf(t) = {} /\ EndedOf(t) = {}
  BY <1>1 DEF Init, RevokedOf, EndedOf
<1>3. \A t \in Tenant : Cardinality(RevokedOf(t)) = 0 /\ Cardinality(EndedOf(t)) = 0
  BY <1>2, FS_EmptySet
<1> QED BY <1>3 DEF Init, Audit

\* The counts the audit keeps of revoked codes, ended sessions and revoked
\* collectors are those of the tables, whatever is revoked twice, logged out,
\* expired, deleted, or taken into use again.
THEOREM AuditComplete == Spec => []AuditCountsRevocations
<1>1. Audit => AuditCountsRevocations
  BY DEF Audit, AuditCountsRevocations, RevokedOf, EndedOf
<1> QED BY <1>1, AuditInit, AuditStep, ShapeAlways, PTL DEF Spec


-----------------------------------------------------------------------------
(* One access code                                                          *)

LEMMA OneCodeStep ==
  ASSUME Shape, OneActiveCode, [Next]_vars
  PROVE  OneActiveCode'
<1>1. TypeOK /\ CodesIssued /\ None \notin Tenant /\ code \in [Code -> CodeRow]
  BY HostedAssumption DEF Shape, TypeOK
<1>2. \A S : S = {} => Cardinality(S) <= 1
  BY FS_EmptySet
<1>3. \A x : Cardinality({x}) = 1
  BY FS_Singleton
<1>4. ASSUME NEW t \in Tenant, NEW c \in Code, Bootstrap(t, c)
      PROVE  OneActiveCode'
  <2>1. \A d \in Code : /\ code'[d].revoked = code[d].revoked
                        /\ code'[d].tenant = IF d = c THEN t ELSE code[d].tenant
    BY <1>1, <1>4 DEF Bootstrap, CodeRow
  <2>2. Active(t)' = {c}
    <3>1. ~code[c].revoked /\ \A d \in Code : code[d].tenant # t
      BY <1>1, <1>4 DEF Bootstrap, CodesIssued, Fresh, TypeOK
    <3>2. ~code'[c].revoked /\ code'[c].tenant = t /\ \A d \in Code : d # c => code'[d].tenant # t
      BY <2>1, <3>1
    <3> QED BY <3>2 DEF Active
  <2>3. \A u \in Tenant : u # t => Active(u)' = Active(u)
    BY <1>1, <1>4, <2>1 DEF Active, Bootstrap, Fresh
  <2>4. \A u \in Tenant : u # t => Cardinality(Active(u))' = Cardinality(Active(u))
    BY <2>3
  <2>5. Cardinality(Active(t)') <= 1
    BY <1>3, <2>2
  <2> QED BY <2>4, <2>5 DEF OneActiveCode
<1>5. ASSUME NEW t \in Tenant, NEW c \in Code, RotateCode(t, c)
      PROVE  OneActiveCode'
  <2>1. \A d \in Code :
          /\ code'[d].tenant = IF d = c THEN t ELSE code[d].tenant
          /\ code'[d].revoked <=> (d # c /\ (code[d].revoked \/ code[d].tenant = t))
    BY <1>1, <1>5, RotatedCodes
  <2>2. Active(t)' = {c}
    BY <2>1 DEF Active
  <2>3. \A u \in Tenant : u # t => Active(u)' = Active(u)
    BY <1>1, <1>5, <2>1 DEF Active, RotateCode, Fresh
  <2>4. \A u \in Tenant : u # t => Cardinality(Active(u))' = Cardinality(Active(u))
    BY <2>3
  <2>5. Cardinality(Active(t)') <= 1
    BY <1>3, <2>2
  <2> QED BY <2>4, <2>5 DEF OneActiveCode
<1>6. ASSUME NEW t \in Tenant, RevokeCodes(t)
      PROVE  OneActiveCode'
  <2>1. \A d \in Code :
          /\ code'[d].tenant = code[d].tenant
          /\ code'[d].revoked <=> (code[d].revoked \/ code[d].tenant = t)
    BY <1>1, <1>6, RevokedCodes DEF RevokeCodes
  <2>2. Active(t)' = {}
    BY <2>1 DEF Active
  <2>3. \A u \in Tenant : u # t => Active(u)' = Active(u)
    BY <2>1 DEF Active
  <2>4. \A u \in Tenant : u # t => Cardinality(Active(u))' = Cardinality(Active(u))
    BY <2>3
  <2> QED BY <1>2, <2>2, <2>4 DEF OneActiveCode
<1>7. ASSUME UNCHANGED code
      PROVE  OneActiveCode'
  <2>1. \A u : Active(u)' = Active(u)
    BY <1>7 DEF Active
  <2>2. \A u \in Tenant : Cardinality(Active(u))' = Cardinality(Active(u))
    BY <2>1
  <2> QED BY <2>2 DEF OneActiveCode
<1>8. CASE Administer
  <2>1. ASSUME NEW t \in Tenant, RevokeSessions(t) \/ RevokeCollector(t)
        PROVE  UNCHANGED code
    BY <2>1 DEF RevokeSessions, RevokeCollector
  <2> QED BY <1>4, <1>5, <1>6, <1>7, <1>8, <2>1 DEF Administer
<1>9. ASSUME NEW r \in Request, Handle(r)
      PROVE  UNCHANGED code
  BY <1>9 DEF Handle, LoginBegin, VRChatBegin, Begin, LoginExchange, CreateSession,
     CountFailure, ClearFailures, VRChatRefuses, VRChatAccepts, VRChatChallenges,
     TwoFactorBegin, TwoFactorFails, TwoFactorPasses, Pop, Connect, StoreFails
<1>10. CASE (\E s \in Session : Logout(s)) \/ TimePasses \/ Restart \/ UNCHANGED vars
  BY <1>7, <1>10 DEF Logout, TimePasses, SessionExpires, ChallengeExpires, WindowPasses,
     Restart, vars
<1> QED BY <1>7, <1>8, <1>9, <1>10 DEF Next

\* A tenant has one access code at a time: a rotation leaves no other in use.
THEOREM OneCodeAtATime == Spec => []OneActiveCode
<1>1. Init => OneActiveCode
  <2> SUFFICES ASSUME Init PROVE OneActiveCode
    OBVIOUS
  <2>1. \A t \in Tenant : Active(t) = {}
    BY HostedAssumption DEF Init, Active
  <2>2. \A t \in Tenant : Cardinality(Active(t)) = 0
    BY <2>1, FS_EmptySet
  <2> QED BY <2>2 DEF OneActiveCode
<1> QED BY <1>1, OneCodeStep, ShapeAlways, PTL DEF Spec

-----------------------------------------------------------------------------
(* The limiter and the pending logins                                       *)

LEMMA UncountedFinite ==
  \A a : /\ IsFiniteSet(Uncounted(a)) /\ Cardinality(Uncounted(a)) \in Nat
         /\ Cardinality(Uncounted(a)) <= Cardinality(Request)
<1> TAKE a
<1>1. Uncounted(a) \subseteq Request
  BY DEF Uncounted
<1> QED BY <1>1, FS_Subset, FS_CardinalityType, AttemptsAssumption

\* A step after which no more requests are uncounted, and no failure is more.
LEMMA BoundKept ==
  ASSUME Shape, Shape', AttemptsBounded,
         \A a \in Address : failures'[a] <= failures[a] /\ Uncounted(a)' \subseteq Uncounted(a)
  PROVE  AttemptsBounded'
<1>1. Cardinality(Request) \in Nat /\ Attempts \in Nat
  BY AttemptsAssumption, FS_CardinalityType
<1>2. ASSUME NEW a \in Address
      PROVE  failures'[a] + Cardinality(Uncounted(a)') <= Attempts - 1 + Cardinality(Request)
  <2>1. Cardinality(Uncounted(a)') <= Cardinality(Uncounted(a)) /\ Cardinality(Uncounted(a)') \in Nat
    BY UncountedFinite, FS_Subset, FS_CardinalityType
  <2>2. failures[a] \in Nat /\ failures'[a] \in Nat
    BY DEF Shape, TypeOK
  <2> QED BY <1>1, <2>1, <2>2, UncountedFinite DEF AttemptsBounded
<1> QED BY <1>2 DEF AttemptsBounded

LEMMA AttemptsStep ==
  ASSUME Shape, Shape', AttemptsBounded, [Next]_vars
  PROVE  AttemptsBounded'
<1>1. /\ TypeOK /\ HandlersHold /\ request \in [Request -> Handler]
      /\ failures \in [Address -> Nat]
  BY DEF Shape, TypeOK
<1>2. Cardinality(Request) \in Nat /\ Attempts \in Nat \ {0}
  BY AttemptsAssumption, FS_CardinalityType
<1>3. ASSUME UNCHANGED <<failures, request>>
      PROVE  AttemptsBounded'
  <2>1. \A a \in Address : failures'[a] <= failures[a] /\ Uncounted(a)' \subseteq Uncounted(a)
    BY <1>1, <1>3 DEF Uncounted
  <2> QED BY <2>1, BoundKept
<1>4. ASSUME NEW r \in Request, NEW h, request' = [request EXCEPT ![r] = h],
             \A a \in Address : failures'[a] <= failures[a],
             h.at \notin {"typed", "asked", "refused"}
               \/ (request[r].at \in {"typed", "asked", "refused"} /\ h.address = request[r].address)
      PROVE  AttemptsBounded'
  <2>1. \A a \in Address : Uncounted(a)' \subseteq Uncounted(a)
    BY <1>1, <1>4 DEF Uncounted
  <2> QED BY <1>4, <2>1, BoundKept
<1>5. ASSUME NEW r \in Request, NEW a \in Address, NEW p, NEW c, Begin(r, a, p, c)
      PROVE  AttemptsBounded'
  <2>1. failures' = failures /\ failures[a] < Attempts
    BY <1>5 DEF Begin, Allowed
  <2>2. \A b \in Address : b # a => Uncounted(b)' \subseteq Uncounted(b)
    BY <1>1, <1>5 DEF Begin, Uncounted, Idle
  <2>3. Cardinality(Uncounted(a)') \in Nat /\ Cardinality(Uncounted(a)') <= Cardinality(Request)
    <3>1. Uncounted(a)' \subseteq Request
      BY DEF Uncounted
    <3> QED BY <3>1, FS_Subset, FS_CardinalityType, AttemptsAssumption
  <2>4. \A b \in Address : b # a =>
          /\ Cardinality(Uncounted(b)') \in Nat
          /\ Cardinality(Uncounted(b)') <= Cardinality(Uncounted(b))
    BY <2>2, UncountedFinite, FS_Subset, FS_CardinalityType
  <2>5. \A b \in Address : failures[b] \in Nat /\ Cardinality(Uncounted(b)) \in Nat
    BY <1>1, UncountedFinite
  <2>6. ASSUME NEW b \in Address
        PROVE  failures'[b] + Cardinality(Uncounted(b)') <= Attempts - 1 + Cardinality(Request)
    <3>1. CASE b = a
      BY <1>2, <2>1, <2>3, <2>5, <3>1
    <3>2. CASE b # a
      BY <1>2, <2>1, <2>4, <2>5, <3>2 DEF AttemptsBounded
    <3> QED BY <3>1, <3>2
  <2> QED BY <2>6 DEF AttemptsBounded
<1>6. ASSUME NEW r \in Request, CountFailure(r)
      PROVE  AttemptsBounded'
  <2> PICK a \in Address : a = request[r].address
    BY <1>1, <1>6 DEF CountFailure, HandlersHold, Holds
  <2>1. r \in Uncounted(a)
    BY <1>6 DEF CountFailure, Uncounted
  <2>2. /\ failures'[a] = failures[a] + 1
        /\ \A b \in Address : b # a => failures'[b] = failures[b]
    BY <1>1, <1>6, <2>1 DEF CountFailure
  <2>3. /\ Uncounted(a)' = Uncounted(a) \ {r}
        /\ \A b \in Address : b # a => Uncounted(b)' = Uncounted(b)
    <3>1. /\ request'[r].at = "idle"
          /\ \A q \in Request : q # r => request'[q] = request[q]
      BY <1>1, <1>6 DEF CountFailure, Idle
    <3>2. \A b \in Address : \A q :
            q \in Uncounted(b)' <=> q \in Uncounted(b) /\ q # r
      BY <3>1 DEF Uncounted
    <3>3. \A b \in Address : b # a => r \notin Uncounted(b)
      BY DEF Uncounted
    <3>4. Uncounted(a)' = Uncounted(a) \ {r}
      BY <2>1, <3>2
    <3>5. ASSUME NEW b \in Address, b # a
          PROVE  Uncounted(b)' = Uncounted(b)
      BY <3>2, <3>3, <3>5
    <3> QED BY <3>4, <3>5
  <2>4. Cardinality(Uncounted(a)') = Cardinality(Uncounted(a)) - 1
    <3>1. IsFiniteSet(Uncounted(a))
      BY UncountedFinite
    <3>2. Cardinality(Uncounted(a) \ {r}) = Cardinality(Uncounted(a)) - 1
      BY <2>1, <3>1, FS_RemoveElement
    <3> QED BY <2>3, <3>2
  <2>5. \A b \in Address : b # a => Cardinality(Uncounted(b))' = Cardinality(Uncounted(b))
    BY <2>3
  <2>6. \A b \in Address : failures[b] \in Nat /\ Cardinality(Uncounted(b)) \in Nat
    BY <1>1, UncountedFinite
  <2>7. ASSUME NEW b \in Address
        PROVE  failures'[b] + Cardinality(Uncounted(b)') <= Attempts - 1 + Cardinality(Request)
    <3>1. CASE b = a
      <4>1. failures[a] + Cardinality(Uncounted(a)) <= Attempts - 1 + Cardinality(Request)
        BY <2>1 DEF AttemptsBounded
      <4>2. failures[a] \in Nat /\ Cardinality(Uncounted(a)) \in Nat
        BY <2>1, <2>6
      <4>3. failures'[a] + Cardinality(Uncounted(a)') = failures[a] + Cardinality(Uncounted(a))
        BY <2>2, <2>4, <4>2
      <4> QED BY <3>1, <4>1, <4>3
    <3>2. CASE b # a
      BY <1>2, <2>2, <2>5, <2>6, <3>2 DEF AttemptsBounded
    <3> QED BY <3>1, <3>2
  <2> QED BY <2>7 DEF AttemptsBounded
<1>7. ASSUME NEW r \in Request, ClearFailures(r)
      PROVE  AttemptsBounded'
  <2>1. \A a \in Address : failures'[a] <= failures[a]
    BY <1>1, <1>7 DEF ClearFailures
  <2> QED BY <1>4, <1>7, <2>1 DEF ClearFailures, Idle
<1>8. ASSUME NEW r \in Request, LoginExchange(r)
      PROVE  AttemptsBounded'
  <2>1. PICK p \in {"issued", "refused"} : request' = [request EXCEPT ![r].at = p]
    BY <1>8 DEF LoginExchange
  <2>2. /\ request' = [request EXCEPT ![r] = [request[r] EXCEPT !.at = p]]
        /\ [request[r] EXCEPT !.at = p].address = request[r].address
    BY <1>1, <2>1 DEF Handler
  <2>3. \A a \in Address : failures'[a] <= failures[a]
    BY <1>1, <1>8 DEF LoginExchange
  <2> QED BY <1>4, <1>8, <2>2, <2>3 DEF LoginExchange
<1>9. ASSUME NEW r \in Request, VRChatRefuses(r)
      PROVE  AttemptsBounded'
  <2>1. \A a \in Address : failures'[a] <= failures[a]
    BY <1>1, <1>9 DEF VRChatRefuses
  <2>2. CASE request' = [request EXCEPT ![r] = Idle]
    BY <1>4, <2>1, <2>2 DEF Idle
  <2>3. CASE request' = [request EXCEPT ![r].at = "refused"]
    <3>1. /\ request' = [request EXCEPT ![r] = [request[r] EXCEPT !.at = "refused"]]
          /\ [request[r] EXCEPT !.at = "refused"].address = request[r].address
      BY <1>1, <2>3 DEF Handler
    <3> QED BY <1>4, <1>9, <2>1, <3>1 DEF VRChatRefuses
  <2> QED BY <1>9, <2>2, <2>3 DEF VRChatRefuses
<1>10. ASSUME NEW r \in Request, Handle(r),
              ~CountFailure(r), ~ClearFailures(r), ~LoginExchange(r), ~VRChatRefuses(r),
              \A a \in Address : ~LoginBegin(r, a) /\ ~VRChatBegin(r, a)
       PROVE  AttemptsBounded'
  <2>1. /\ failures' = failures
        /\ \A q \in Request : q # r => request'[q] = request[q]
        /\ request'[r] = request[r] \/ request'[r].at \notin {"typed", "asked", "refused"}
    <3>1. CASE CreateSession(r) \/ TwoFactorFails(r) \/ StoreFails(r)
      BY <1>1, <3>1 DEF CreateSession, TwoFactorFails, StoreFails, Idle
    <3>2. CASE TwoFactorPasses(r) \/ Pop(r) \/ Connect(r)
      BY <1>1, <3>2 DEF TwoFactorPasses, Pop, Connect, Handler
    <3>3. CASE \E t \in Hosted : VRChatAccepts(r, t)
      BY <1>1, <3>3 DEF VRChatAccepts, Handler
    <3>4. CASE \E t \in Hosted, k \in Challenge : VRChatChallenges(r, t, k)
      BY <1>1, <3>4 DEF VRChatChallenges, Handler
    <3>5. CASE \E k \in Challenge : TwoFactorBegin(r, k)
      BY <1>1, <3>5 DEF TwoFactorBegin, Idle
    <3> QED BY <1>10, <3>1, <3>2, <3>3, <3>4, <3>5 DEF Handle
  <2>2. \A a \in Address : failures'[a] <= failures[a] /\ Uncounted(a)' \subseteq Uncounted(a)
    BY <1>1, <2>1 DEF Uncounted
  <2> QED BY <2>2, BoundKept
<1>11. CASE \E r \in Request : Handle(r)
  BY <1>5, <1>6, <1>7, <1>8, <1>9, <1>10, <1>11 DEF LoginBegin, VRChatBegin
<1>12. CASE TimePasses
  <2>1. \A a \in Address : failures'[a] <= failures[a] /\ Uncounted(a)' \subseteq Uncounted(a)
    BY <1>1, <1>12 DEF TimePasses, SessionExpires, ChallengeExpires, WindowPasses, Uncounted
  <2> QED BY <2>1, BoundKept
<1>13. CASE Restart
  <2>1. \A a \in Address : failures'[a] <= failures[a] /\ Uncounted(a)' \subseteq Uncounted(a)
    BY <1>1, <1>13 DEF Restart, Uncounted, Idle
  <2> QED BY <2>1, BoundKept
<1>14. CASE Administer \/ (\E s \in Session : Logout(s)) \/ UNCHANGED vars
  BY <1>3, <1>14 DEF Administer, Bootstrap, RotateCode, RevokeCodes, RevokeSessions,
     RevokeCollector, Logout, vars
<1> QED BY <1>11, <1>12, <1>13, <1>14 DEF Next

\* Of the attempts of an address no more fail in a window than the limit and the
\* requests that are handled at once allow.
THEOREM AttemptsLimited == Spec => []AttemptsBounded
<1>1. Init => AttemptsBounded
  <2> SUFFICES ASSUME Init PROVE AttemptsBounded
    OBVIOUS
  <2>1. \A a \in Address : failures[a] = 0
    BY DEF Init
  <2>2. Cardinality(Request) \in Nat /\ Attempts \in Nat \ {0}
    BY AttemptsAssumption, FS_CardinalityType
  <2> QED BY <2>1, <2>2, UncountedFinite DEF AttemptsBounded
<1> QED BY <1>1, AttemptsStep, ShapeAlways, PTL DEF Spec

\* A login that is pending is not over, and one that has expired is pending.
PendingOpen ==
  \A k \in Challenge : /\ pending[k] # None => k \notin spent
                       /\ k \in expired => pending[k] # None

LEMMA PendingStep ==
  ASSUME Shape, PendingOpen, [Next]_vars
  PROVE  PendingOpen'
<1>1. pending \in [Challenge -> Hosted \cup {None}]
  BY DEF Shape, TypeOK
<1>2. ASSUME NEW r \in Request, NEW t \in Hosted, NEW k \in Challenge, VRChatChallenges(r, t, k)
      PROVE  PendingOpen'
  <2>1. \A l \in Challenge : pending'[l] # None => (l = k \/ pending[l] # None) /\ l \notin expired \ {k}
    BY <1>1, <1>2 DEF VRChatChallenges, Pruned
  <2>2. spent' = spent \cup expired /\ k \notin spent /\ k \notin expired
    BY <1>2 DEF VRChatChallenges, NeverIssued, PendingOpen
  <2> QED BY <1>2, <2>1, <2>2 DEF VRChatChallenges, PendingOpen
<1>3. ASSUME NEW r \in Request, NEW k \in Challenge, TwoFactorBegin(r, k)
      PROVE  PendingOpen'
  BY <1>1, <1>3 DEF TwoFactorBegin, Pruned, PendingOpen
<1>4. ASSUME NEW r \in Request, Pop(r)
      PROVE  PendingOpen'
  BY <1>1, <1>4 DEF Pop, PendingOpen
<1>5. CASE Restart
  BY <1>5 DEF Restart, PendingOpen
<1>6. ASSUME UNCHANGED <<pending, spent, expired>>
      PROVE  PendingOpen'
  BY <1>6 DEF PendingOpen
<1>7. ASSUME NEW r \in Request, Handle(r), ~Pop(r),
             \A k \in Challenge : ~TwoFactorBegin(r, k) /\ \A t \in Hosted : ~VRChatChallenges(r, t, k)
      PROVE  UNCHANGED <<pending, spent, expired>>
  BY <1>7 DEF Handle, LoginBegin, VRChatBegin, Begin, LoginExchange, CreateSession,
     CountFailure, ClearFailures, VRChatRefuses, VRChatAccepts, TwoFactorFails,
     TwoFactorPasses, Connect, StoreFails
<1>8. CASE \E r \in Request : Handle(r)
  BY <1>2, <1>3, <1>4, <1>6, <1>7, <1>8
<1>9. ASSUME NEW k \in Challenge, ChallengeExpires(k)
      PROVE  PendingOpen'
  BY <1>9 DEF ChallengeExpires, PendingOpen
<1>10. CASE Administer \/ (\E s \in Session : Logout(s)) \/ TimePasses \/ UNCHANGED vars
  BY <1>6, <1>9, <1>10 DEF Administer, Bootstrap, RotateCode, RevokeCodes, RevokeSessions,
     RevokeCollector, Logout, TimePasses, SessionExpires, WindowPasses, vars
<1> QED BY <1>5, <1>8, <1>10 DEF Next

\* No second factor begins with a pending login that another request has
\* completed, that was pruned, or that a restart has lost.
THEOREM LoginCompletedOnce == Spec => CompletedOnce
<1> DEFINE Begins == \A r \in Request :
             request[r].at # "verify" /\ request'[r].at = "verify" =>
               request'[r].challenge \notin spent \cup expired
<1>1. Init => PendingOpen
  BY DEF Init, PendingOpen
<1>2. ASSUME Shape, PendingOpen, [Next]_vars
      PROVE  [Begins]_vars
  <2>1. request \in [Request -> Handler]
    BY <1>2 DEF Shape, TypeOK
  <2>2. ASSUME NEW r \in Request, NEW k \in Challenge, TwoFactorBegin(r, k)
        PROVE  Begins
    <3>1. CASE request' = request
      BY <3>1
    <3>2. CASE request' # request
      <4>1. Pruned[k] # None
        BY <2>2, <3>2 DEF TwoFactorBegin
      <4>2. k \notin expired /\ k \notin spent
        BY <1>2, <4>1 DEF Pruned, PendingOpen
      <4>3. request'[r].challenge = k /\ \A q \in Request : q # r => request'[q] = request[q]
        BY <2>1, <2>2, <3>2 DEF TwoFactorBegin, Idle
      <4> QED BY <4>2, <4>3
    <3> QED BY <3>1, <3>2
  <2>3. ASSUME NEW r \in Request, Handle(r), \A k \in Challenge : ~TwoFactorBegin(r, k)
        PROVE  Begins
    <3>1. \A q \in Request : q # r => request'[q] = request[q]
      BY <2>1, <2>3 DEF Handle, LoginBegin, VRChatBegin, Begin, LoginExchange, CreateSession,
         CountFailure, ClearFailures, VRChatRefuses, VRChatAccepts, VRChatChallenges,
         TwoFactorFails, TwoFactorPasses, Pop, Connect, StoreFails
    <3>2. request'[r].at # "verify" \/ request'[r] = request[r]
      <4>1. CASE CreateSession(r) \/ TwoFactorFails(r) \/ StoreFails(r) \/ CountFailure(r)
        BY <2>1, <4>1 DEF CreateSession, TwoFactorFails, StoreFails, CountFailure, Idle
      <4>2. CASE TwoFactorPasses(r) \/ Pop(r) \/ Connect(r) \/ LoginExchange(r) \/ VRChatRefuses(r)
        BY <2>1, <4>2 DEF TwoFactorPasses, Pop, Connect, LoginExchange, VRChatRefuses, Handler, Idle
      <4>3. CASE \E t \in Hosted : \/ VRChatAccepts(r, t)
                                   \/ \E k \in Challenge : VRChatChallenges(r, t, k)
        BY <2>1, <4>3 DEF VRChatAccepts, VRChatChallenges, Handler
      <4>4. CASE \E a \in Address : LoginBegin(r, a) \/ VRChatBegin(r, a)
        BY <2>1, <4>4, ZenonT(40) DEF LoginBegin, VRChatBegin, Begin, Idle
      <4>5. CASE ClearFailures(r)
        <5>1. request'[r] = IF request[r].at = "passed"
                            THEN [Idle EXCEPT !.at = "connect", !.tenant = request[r].tenant]
                            ELSE Idle
          BY <2>1, <4>5 DEF ClearFailures
        <5> QED BY <5>1 DEF Idle
      <4> QED BY <2>3, <4>1, <4>2, <4>3, <4>4, <4>5 DEF Handle
    <3> QED BY <3>1, <3>2
  <2>4. CASE Restart
    BY <2>4 DEF Restart, Idle
  <2>5. CASE Administer \/ (\E s \in Session : Logout(s)) \/ TimePasses \/ UNCHANGED vars
    <3>1. request' = request
      BY <2>5 DEF Administer, Bootstrap, RotateCode, RevokeCodes, RevokeSessions,
         RevokeCollector, Logout, TimePasses, SessionExpires, ChallengeExpires, WindowPasses, vars
    <3> QED BY <3>1
  <2> QED BY <1>2, <2>2, <2>3, <2>4, <2>5 DEF Next
<1> QED BY <1>1, <1>2, PendingStep, ShapeAlways, PTL DEF Spec, CompletedOnce

=============================================================================
