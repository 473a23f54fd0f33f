------------------------- MODULE HostedSessionProofs -------------------------
(***************************************************************************)
(* Proofs about HostedSession for any number of sessions, logins,          *)
(* rotations and restarts.                                                 *)
(***************************************************************************)
EXTENDS HostedSession, TLAPS

\* Labels at which a thread goes on to use the session in `mine`.
Using == {"begin", "check", "request", "persist", "write", "note", "commit",
          "ingest", "launch"}

\* The code between taking a session and leaving the call has one.
HasSession == \A t \in Thread : pc[t] \in Using => mine[t] \in Session

\* What the updates of the code make of well-typed values.
LEMMA AccountUpdate ==
  ASSUME account \in Account,
         NEW st \in {"active", "reconnect", "disconnected"}
  PROVE  /\ [account EXCEPT !.state = st] \in Account
         /\ [account EXCEPT !.state = st, !.cookie = NoCookie] \in Account
BY DEF Account, Cookie, NoCookie

LEMMA SessionUpdate ==
  ASSUME sess \in [Session -> SessionObject], NEW s \in Session
  PROVE  [sess[s] EXCEPT !.stopped = TRUE] \in SessionObject
BY DEF SessionObject

\* A rotation changes no more than the generation of one session's cookie.
LEMMA RotationOnly ==
  ASSUME sess \in [Session -> SessionObject], NEW s \in Session, Rotated(s)
  PROVE  /\ sess' \in [Session -> SessionObject]
         /\ \A u \in Session : /\ sess'[u].cookie.login = sess[u].cookie.login
                               /\ sess'[u].rev = sess[u].rev
                               /\ sess'[u].stopped = sess[u].stopped
BY DEF Rotated, SessionObject, Cookie

\* The memory of a process that has just started.
LEMMA FreshProcess ==
  /\ [s \in Session |-> DeadSession] \in [Session -> SessionObject]
  /\ [t \in Thread |-> Parked(t)] \in [Thread -> Label]
  /\ [t \in Thread |-> EmptyHeld] \in [Thread -> Held]
  /\ \A t \in Thread : Parked(t) \notin Using
<1>1. [s \in Session |-> DeadSession] \in [Session -> SessionObject]
  BY DEF DeadSession, SessionObject, Cookie, NoCookie
<1>2. \A t \in Thread : Parked(t) \in {"read", "off", "idle"}
  BY DEF Parked
<1>3. [t \in Thread |-> EmptyHeld] \in [Thread -> Held]
  BY DEF EmptyHeld, Held, Cookie, NoCookie
<1> QED BY <1>1, <1>2, <1>3 DEF Label, Using

LEMMA TypeLoopRead ==
  ASSUME TypeOK, HasSession, LoopRead
  PROVE  (TypeOK /\ HasSession)'
<1>1. StoreOK /\ ManagerOK /\ SessOK /\ PcOK /\ MineOK /\ HeldOK
  BY DEF TypeOK
<1>2. StoreOK' /\ ManagerOK' /\ SessOK' /\ MineOK'
  BY <1>1
     DEF LoopRead, Goto, store, manager, StoreOK, ManagerOK, SessOK, MineOK
<1>3. PcOK'
  BY <1>1 DEF LoopRead, Goto, PcOK, Label
<1>4. HeldOK'
  BY <1>1 DEF LoopRead, Goto, HeldOK, Held, StoreOK, Account, Thread, Worker
<1>5. HasSession'
  BY <1>1 DEF LoopRead, Goto, HasSession, Using, PcOK, MineOK
<1> QED
  BY <1>2, <1>3, <1>4, <1>5 DEF TypeOK

LEMMA TypeLoopReconcile ==
  ASSUME TypeOK, HasSession, LoopReconcile
  PROVE  (TypeOK /\ HasSession)'
<1>1. StoreOK /\ ManagerOK /\ SessOK /\ PcOK /\ MineOK /\ HeldOK
  BY DEF TypeOK
<1>2. StoreOK' /\ SessOK' /\ HeldOK'
  BY <1>1 DEF LoopReconcile, Goto, store, StoreOK, SessOK, HeldOK
<1>3. ManagerOK'
  BY <1>1 DEF LoopReconcile, Goto, ManagerOK
<1>4. PcOK'
  BY <1>1 DEF LoopReconcile, Goto, PcOK, Label
<1>5. MineOK'
  BY <1>1 DEF LoopReconcile, Goto, MineOK, ManagerOK
<1>6. HasSession'
  BY <1>1 DEF LoopReconcile, Goto, HasSession, Using, PcOK, MineOK, ManagerOK
<1> QED
  BY <1>2, <1>3, <1>4, <1>5, <1>6 DEF TypeOK

LEMMA TypeLoopStart ==
  ASSUME TypeOK, HasSession, LoopStart
  PROVE  (TypeOK /\ HasSession)'
<1>1. StoreOK /\ ManagerOK /\ SessOK /\ PcOK /\ MineOK /\ HeldOK
  BY DEF TypeOK
<1>2. StoreOK' /\ ManagerOK' /\ SessOK' /\ MineOK' /\ HeldOK'
  BY <1>1
     DEF LoopStart, Goto, store, manager, StoreOK, ManagerOK, SessOK, MineOK,
         HeldOK
<1>3. PcOK'
  BY <1>1 DEF LoopStart, Goto, PcOK, Label
<1>4. HasSession'
  BY <1>1 DEF LoopStart, Goto, HasSession, Using, PcOK, MineOK
<1> QED
  BY <1>2, <1>3, <1>4 DEF TypeOK

LEMMA TypeLoopDispatch ==
  ASSUME TypeOK, HasSession, LoopDispatch
  PROVE  (TypeOK /\ HasSession)'
<1>1. StoreOK /\ ManagerOK /\ SessOK /\ PcOK /\ MineOK /\ HeldOK
  BY DEF TypeOK
<1>2. StoreOK' /\ SessOK'
  BY <1>1 DEF LoopDispatch, store, StoreOK, SessOK
<1>3. ManagerOK'
  BY <1>1 DEF LoopDispatch, ManagerOK
<1>4. PcOK'
  BY <1>1 DEF LoopDispatch, PcOK, Label
<1>5. MineOK'
  BY <1>1 DEF LoopDispatch, MineOK, ManagerOK
<1>6. HeldOK'
  BY <1>1 DEF LoopDispatch, HeldOK, Held, EmptyHeld, Cookie, NoCookie
<1>7. HasSession'
  BY <1>1 DEF LoopDispatch, HasSession, Using, PcOK, MineOK, ManagerOK
<1> QED
  BY <1>2, <1>3, <1>4, <1>5, <1>6, <1>7 DEF TypeOK

LEMMA TypeDueElapses ==
  ASSUME TypeOK, HasSession, DueElapses
  PROVE  (TypeOK /\ HasSession)'
<1>1. StoreOK /\ ManagerOK /\ SessOK /\ PcOK /\ MineOK /\ HeldOK
  BY DEF TypeOK
<1>2. StoreOK' /\ SessOK' /\ PcOK' /\ MineOK' /\ HeldOK' /\ HasSession'
  BY <1>1
     DEF DueElapses, store, threads, StoreOK, SessOK, PcOK, MineOK, HeldOK,
         HasSession
<1>3. ManagerOK'
  BY <1>1 DEF DueElapses, ManagerOK
<1> QED
  BY <1>2, <1>3 DEF TypeOK

LEMMA TypeStartReadCookie ==
  ASSUME NEW t \in {"loop", "world"}, TypeOK, HasSession, StartReadCookie(t)
  PROVE  (TypeOK /\ HasSession)'
<1>1. StoreOK /\ ManagerOK /\ SessOK /\ PcOK /\ MineOK /\ HeldOK
  BY DEF TypeOK
<1>2. t \in Thread
  BY DEF Thread, Worker, Caller
<1>3. StoreOK' /\ ManagerOK' /\ SessOK'
  BY <1>1
     DEF StartReadCookie, Goto, StartAbandoned, Usable, store, manager,
         StoreOK, ManagerOK, SessOK
<1>4. PcOK'
  BY <1>1, <1>2 DEF StartReadCookie, Goto, StartAbandoned, Usable, PcOK, Label
<1>5. MineOK'
  BY <1>1, <1>2 DEF StartReadCookie, Goto, StartAbandoned, Usable, MineOK
<1>6. HeldOK'
  BY <1>1, <1>2
     DEF StartReadCookie, Goto, StartAbandoned, Usable, HeldOK, Held, StoreOK,
         Account, EmptyHeld, Cookie, NoCookie
<1>7. HasSession'
  BY <1>1, <1>2
     DEF StartReadCookie, Goto, StartAbandoned, Usable, HasSession, Using,
         PcOK, MineOK
<1> QED
  BY <1>3, <1>4, <1>5, <1>6, <1>7 DEF TypeOK

LEMMA TypeStartInstall ==
  ASSUME NEW t \in {"loop", "world"}, TypeOK, HasSession, StartInstall(t)
  PROVE  (TypeOK /\ HasSession)'
<1>1. StoreOK /\ ManagerOK /\ SessOK /\ PcOK /\ MineOK /\ HeldOK
  BY DEF TypeOK
<1>2. t \in Thread
  BY DEF Thread, Worker, Caller
<1>3. \A s \in Session : [cookie |-> held[t].cookie, persisted |-> held[t].cookie,
        rev |-> held[t].rev, stopped |-> FALSE] \in SessionObject
  BY <1>1, <1>2 DEF HeldOK, Held, SessionObject
<1>4. StoreOK'
  BY <1>1
     DEF StartInstall, Goto, Installed, StartAbandoned, StartFoundExisting,
         store, StoreOK
<1>5. ManagerOK'
  BY <1>1, <1>2, <1>3
     DEF StartInstall, Goto, Installed, StartAbandoned, StartFoundExisting,
         ManagerOK
<1>6. SessOK'
  BY <1>1, <1>2, <1>3
     DEF StartInstall, Goto, Installed, StartAbandoned, StartFoundExisting,
         SessOK
<1>7. PcOK'
  BY <1>1, <1>2, <1>3
     DEF StartInstall, Goto, Installed, StartAbandoned, StartFoundExisting,
         PcOK, Label
<1>8. MineOK'
  BY <1>1, <1>2, <1>3
     DEF StartInstall, Goto, Installed, StartAbandoned, StartFoundExisting,
         MineOK, ManagerOK
<1>9. HeldOK'
  BY <1>1, <1>2, <1>3
     DEF StartInstall, Goto, Installed, StartAbandoned, StartFoundExisting,
         HeldOK, Held, EmptyHeld, Cookie, NoCookie
<1>10. HasSession'
  BY <1>1, <1>2, <1>3
     DEF StartInstall, Goto, Installed, StartAbandoned, StartFoundExisting,
         HasSession, Using, PcOK, MineOK, ManagerOK
<1> QED
  BY <1>4, <1>5, <1>6, <1>7, <1>8, <1>9, <1>10 DEF TypeOK

LEMMA TypeStartLaunch ==
  ASSUME NEW t \in {"loop", "world"}, TypeOK, HasSession, StartLaunch(t)
  PROVE  (TypeOK /\ HasSession)'
<1>1. StoreOK /\ ManagerOK /\ SessOK /\ PcOK /\ MineOK /\ HeldOK
  BY DEF TypeOK
<1>2. t \in Thread
  BY DEF Thread, Worker, Caller
<1>3. StoreOK' /\ SessOK'
  BY <1>1 DEF StartLaunch, store, StoreOK, SessOK
<1>4. ManagerOK'
  BY <1>1, <1>2 DEF StartLaunch, ManagerOK
<1>5. PcOK'
  BY <1>1, <1>2 DEF StartLaunch, PcOK, Label
<1>6. MineOK'
  BY <1>1, <1>2 DEF StartLaunch, MineOK
<1>7. HeldOK'
  BY <1>1, <1>2 DEF StartLaunch, HeldOK, Held, EmptyHeld, Cookie, NoCookie
<1>8. HasSession'
  BY <1>1, <1>2 DEF StartLaunch, HasSession, Using, PcOK, MineOK
<1> QED
  BY <1>3, <1>4, <1>5, <1>6, <1>7, <1>8 DEF TypeOK

LEMMA TypePollBegin ==
  ASSUME TypeOK, HasSession, PollBegin
  PROVE  (TypeOK /\ HasSession)'
<1>1. StoreOK /\ ManagerOK /\ SessOK /\ PcOK /\ MineOK /\ HeldOK
  BY DEF TypeOK
<1>2. StoreOK' /\ ManagerOK' /\ SessOK'
  BY <1>1
     DEF PollBegin, Goto, Leave, store, manager, StoreOK, ManagerOK, SessOK
<1>3. PcOK'
  BY <1>1 DEF PollBegin, Goto, Leave, PcOK, Label
<1>4. MineOK'
  BY <1>1 DEF PollBegin, Goto, Leave, MineOK
<1>5. HeldOK'
  BY <1>1
     DEF PollBegin, Goto, Leave, HeldOK, Held, EmptyHeld, Cookie, NoCookie
<1>6. HasSession'
  BY <1>1 DEF PollBegin, Goto, Leave, HasSession, Using, PcOK, MineOK
<1> QED
  BY <1>2, <1>3, <1>4, <1>5, <1>6 DEF TypeOK

LEMMA TypeWorldBegin ==
  ASSUME TypeOK, HasSession, WorldBegin
  PROVE  (TypeOK /\ HasSession)'
<1>1. StoreOK /\ ManagerOK /\ SessOK /\ PcOK /\ MineOK /\ HeldOK
  BY DEF TypeOK
<1>2. StoreOK' /\ ManagerOK' /\ SessOK' /\ HeldOK'
  BY <1>1
     DEF WorldBegin, Goto, store, manager, StoreOK, ManagerOK, SessOK, HeldOK
<1>3. PcOK'
  BY <1>1 DEF WorldBegin, Goto, PcOK, Label
<1>4. MineOK'
  BY <1>1 DEF WorldBegin, Goto, MineOK, ManagerOK
<1>5. HasSession'
  BY <1>1 DEF WorldBegin, Goto, HasSession, Using, PcOK, MineOK, ManagerOK
<1> QED
  BY <1>2, <1>3, <1>4, <1>5 DEF TypeOK

LEMMA TypeWorldLookup ==
  ASSUME TypeOK, HasSession, WorldLookup
  PROVE  (TypeOK /\ HasSession)'
<1>1. StoreOK /\ ManagerOK /\ SessOK /\ PcOK /\ MineOK /\ HeldOK
  BY DEF TypeOK
<1>2. StoreOK' /\ ManagerOK' /\ SessOK' /\ MineOK'
  BY <1>1
     DEF WorldLookup, Goto, store, manager, StoreOK, ManagerOK, SessOK, MineOK
<1>3. PcOK'
  BY <1>1 DEF WorldLookup, Goto, PcOK, Label
<1>4. HeldOK'
  BY <1>1 DEF WorldLookup, Goto, HeldOK, Held, StoreOK, Account
<1>5. HasSession'
  BY <1>1 DEF WorldLookup, Goto, HasSession, Using, PcOK, MineOK
<1> QED
  BY <1>2, <1>3, <1>4, <1>5 DEF TypeOK

LEMMA TypeWorldStart ==
  ASSUME TypeOK, HasSession, WorldStart
  PROVE  (TypeOK /\ HasSession)'
<1>1. StoreOK /\ ManagerOK /\ SessOK /\ PcOK /\ MineOK /\ HeldOK
  BY DEF TypeOK
<1>2. StoreOK' /\ ManagerOK' /\ SessOK'
  BY <1>1
     DEF WorldStart, Goto, StartFoundExisting, StartAbandoned, store, manager,
         StoreOK, ManagerOK, SessOK
<1>3. PcOK'
  BY <1>1
     DEF WorldStart, Goto, StartFoundExisting, StartAbandoned, PcOK, Label
<1>4. MineOK'
  BY <1>1
     DEF WorldStart, Goto, StartFoundExisting, StartAbandoned, MineOK,
         ManagerOK
<1>5. HeldOK'
  BY <1>1
     DEF WorldStart, Goto, StartFoundExisting, StartAbandoned, HeldOK, Held,
         EmptyHeld, Cookie, NoCookie
<1>6. HasSession'
  BY <1>1
     DEF WorldStart, Goto, StartFoundExisting, StartAbandoned, HasSession,
         Using, PcOK, MineOK, ManagerOK
<1> QED
  BY <1>2, <1>3, <1>4, <1>5, <1>6 DEF TypeOK

LEMMA TypeWorldCheck ==
  ASSUME TypeOK, HasSession, WorldCheck
  PROVE  (TypeOK /\ HasSession)'
<1>1. StoreOK /\ ManagerOK /\ SessOK /\ PcOK /\ MineOK /\ HeldOK
  BY DEF TypeOK
<1>2. StoreOK' /\ ManagerOK' /\ SessOK'
  BY <1>1
     DEF WorldCheck, Goto, Leave, store, manager, StoreOK, ManagerOK, SessOK
<1>3. PcOK'
  BY <1>1 DEF WorldCheck, Goto, Leave, PcOK, Label
<1>4. MineOK'
  BY <1>1 DEF WorldCheck, Goto, Leave, MineOK
<1>5. HeldOK'
  BY <1>1
     DEF WorldCheck, Goto, Leave, HeldOK, Held, EmptyHeld, Cookie, NoCookie
<1>6. HasSession'
  BY <1>1 DEF WorldCheck, Goto, Leave, HasSession, Using, PcOK, MineOK
<1> QED
  BY <1>2, <1>3, <1>4, <1>5, <1>6 DEF TypeOK

LEMMA TypeRequestServed ==
  ASSUME NEW t \in Caller, TypeOK, HasSession, RequestServed(t)
  PROVE  (TypeOK /\ HasSession)'
<1>1. StoreOK /\ ManagerOK /\ SessOK /\ PcOK /\ MineOK /\ HeldOK
  BY DEF TypeOK
<1>2. t \in Thread
  BY DEF Thread, Worker, Caller
<1>3. mine[t] \in Session
  BY <1>2 DEF RequestServed, HasSession, Using
<1>4. StoreOK' /\ ManagerOK' /\ MineOK' /\ HeldOK'
  BY <1>1
     DEF RequestServed, Goto, store, manager, StoreOK, ManagerOK, MineOK,
         HeldOK
<1>5. SessOK'
  BY <1>1, <1>2, <1>3, RotationOnly DEF RequestServed, Goto, SessOK
<1>6. PcOK'
  BY <1>1, <1>2, <1>3 DEF RequestServed, Goto, PcOK, Label
<1>7. HasSession'
  BY <1>1, <1>2, <1>3 DEF RequestServed, Goto, HasSession, Using, PcOK, MineOK
<1> QED
  BY <1>4, <1>5, <1>6, <1>7 DEF TypeOK

LEMMA TypeRequestRejected ==
  ASSUME NEW t \in Caller, TypeOK, HasSession, RequestRejected(t)
  PROVE  (TypeOK /\ HasSession)'
<1>1. StoreOK /\ ManagerOK /\ SessOK /\ PcOK /\ MineOK /\ HeldOK
  BY DEF TypeOK
<1>2. t \in Thread
  BY DEF Thread, Worker, Caller
<1>3. StoreOK' /\ ManagerOK' /\ SessOK' /\ MineOK' /\ HeldOK'
  BY <1>1
     DEF RequestRejected, Goto, store, manager, StoreOK, ManagerOK, SessOK,
         MineOK, HeldOK
<1>4. PcOK'
  BY <1>1, <1>2 DEF RequestRejected, Goto, PcOK, Label
<1>5. HasSession'
  BY <1>1, <1>2 DEF RequestRejected, Goto, HasSession, Using, PcOK, MineOK
<1> QED
  BY <1>3, <1>4, <1>5 DEF TypeOK

LEMMA TypeRequestFailed ==
  ASSUME NEW t \in Caller, TypeOK, HasSession, RequestFailed(t)
  PROVE  (TypeOK /\ HasSession)'
<1>1. StoreOK /\ ManagerOK /\ SessOK /\ PcOK /\ MineOK /\ HeldOK
  BY DEF TypeOK
<1>2. t \in Thread
  BY DEF Thread, Worker, Caller
<1>3. mine[t] \in Session
  BY <1>2 DEF RequestFailed, HasSession, Using
<1>4. StoreOK' /\ ManagerOK'
  BY <1>1 DEF RequestFailed, Goto, Leave, store, manager, StoreOK, ManagerOK
<1>5. SessOK'
  BY <1>1, <1>2, <1>3, RotationOnly DEF RequestFailed, Goto, Leave, SessOK
<1>6. PcOK'
  BY <1>1, <1>2, <1>3 DEF RequestFailed, Goto, Leave, PcOK, Label
<1>7. MineOK'
  BY <1>1, <1>2, <1>3 DEF RequestFailed, Goto, Leave, MineOK
<1>8. HeldOK'
  BY <1>1, <1>2, <1>3
     DEF RequestFailed, Goto, Leave, HeldOK, Held, EmptyHeld, Cookie, NoCookie
<1>9. HasSession'
  BY <1>1, <1>2, <1>3
     DEF RequestFailed, Goto, Leave, HasSession, Using, PcOK, MineOK
<1> QED
  BY <1>4, <1>5, <1>6, <1>7, <1>8, <1>9 DEF TypeOK

LEMMA TypePersistCheck ==
  ASSUME NEW t \in Caller, TypeOK, HasSession, PersistCheck(t)
  PROVE  (TypeOK /\ HasSession)'
<1>1. StoreOK /\ ManagerOK /\ SessOK /\ PcOK /\ MineOK /\ HeldOK
  BY DEF TypeOK
<1>2. t \in Thread
  BY DEF Thread, Worker, Caller
<1>3. mine[t] \in Session
  BY <1>2 DEF PersistCheck, HasSession, Using
<1>4. sess[mine[t]].cookie \in Cookie
  BY <1>1, <1>3 DEF SessOK, SessionObject
<1>5. StoreOK' /\ ManagerOK' /\ SessOK'
  BY <1>1
     DEF PersistCheck, Goto, AfterPersist, store, manager, StoreOK, ManagerOK,
         SessOK
<1>6. PcOK'
  BY <1>1, <1>2, <1>3, <1>4 DEF PersistCheck, Goto, AfterPersist, PcOK, Label
<1>7. MineOK'
  BY <1>1, <1>2, <1>3, <1>4 DEF PersistCheck, Goto, AfterPersist, MineOK
<1>8. HeldOK'
  BY <1>1, <1>2, <1>3, <1>4 DEF PersistCheck, Goto, AfterPersist, HeldOK, Held
<1>9. HasSession'
  BY <1>1, <1>2, <1>3, <1>4
     DEF PersistCheck, Goto, AfterPersist, HasSession, Using, PcOK, MineOK
<1> QED
  BY <1>5, <1>6, <1>7, <1>8, <1>9 DEF TypeOK

LEMMA TypePersistWrite ==
  ASSUME NEW t \in Caller, TypeOK, HasSession, PersistWrite(t)
  PROVE  (TypeOK /\ HasSession)'
<1>1. StoreOK /\ ManagerOK /\ SessOK /\ PcOK /\ MineOK /\ HeldOK
  BY DEF TypeOK
<1>2. t \in Thread
  BY DEF Thread, Worker, Caller
<1>3. ManagerOK' /\ SessOK' /\ MineOK'
  BY <1>1 DEF PersistWrite, Goto, manager, ManagerOK, SessOK, MineOK
<1>4. StoreOK'
  BY <1>1, <1>2 DEF PersistWrite, Goto, StoreOK, Account, HeldOK, Held
<1>5. PcOK'
  BY <1>1, <1>2 DEF PersistWrite, Goto, PcOK, Label
<1>6. HeldOK'
  BY <1>1, <1>2 DEF PersistWrite, Goto, HeldOK, Held, StoreOK, Account
<1>7. HasSession'
  BY <1>1, <1>2 DEF PersistWrite, Goto, HasSession, Using, PcOK, MineOK
<1> QED
  BY <1>3, <1>4, <1>5, <1>6, <1>7 DEF TypeOK

LEMMA TypePersistNote ==
  ASSUME NEW t \in Caller, TypeOK, HasSession, PersistNote(t)
  PROVE  (TypeOK /\ HasSession)'
<1>1. StoreOK /\ ManagerOK /\ SessOK /\ PcOK /\ MineOK /\ HeldOK
  BY DEF TypeOK
<1>2. t \in Thread
  BY DEF Thread, Worker, Caller
<1>3. held[t].cookie \in Cookie /\ held[t].rev \in Nat
  BY <1>1, <1>2 DEF HeldOK, Held
<1>4. StoreOK' /\ ManagerOK'
  BY <1>1
     DEF PersistNote, Goto, AfterPersist, store, manager, StoreOK, ManagerOK
<1>5. SessOK'
  BY <1>1, <1>2, <1>3, ZenonT(40)
     DEF PersistNote, Goto, AfterPersist, SessOK, SessionObject
<1>6. PcOK'
  BY <1>1, <1>2, <1>3 DEF PersistNote, Goto, AfterPersist, PcOK, Label
<1>7. MineOK'
  BY <1>1, <1>2, <1>3 DEF PersistNote, Goto, AfterPersist, MineOK
<1>8. HeldOK'
  BY <1>1, <1>2, <1>3
     DEF PersistNote, Goto, AfterPersist, HeldOK, Held, EmptyHeld, Cookie,
         NoCookie
<1>9. HasSession'
  BY <1>1, <1>2, <1>3
     DEF PersistNote, Goto, AfterPersist, HasSession, Using, PcOK, MineOK
<1> QED
  BY <1>4, <1>5, <1>6, <1>7, <1>8, <1>9 DEF TypeOK

LEMMA TypePollCheck ==
  ASSUME TypeOK, HasSession, PollCheck
  PROVE  (TypeOK /\ HasSession)'
<1>1. StoreOK /\ ManagerOK /\ SessOK /\ PcOK /\ MineOK /\ HeldOK
  BY DEF TypeOK
<1>2. StoreOK' /\ ManagerOK' /\ SessOK'
  BY <1>1
     DEF PollCheck, Goto, Leave, store, manager, StoreOK, ManagerOK, SessOK
<1>3. PcOK'
  BY <1>1 DEF PollCheck, Goto, Leave, PcOK, Label
<1>4. MineOK'
  BY <1>1 DEF PollCheck, Goto, Leave, MineOK
<1>5. HeldOK'
  BY <1>1
     DEF PollCheck, Goto, Leave, HeldOK, Held, EmptyHeld, Cookie, NoCookie
<1>6. HasSession'
  BY <1>1 DEF PollCheck, Goto, Leave, HasSession, Using, PcOK, MineOK
<1> QED
  BY <1>2, <1>3, <1>4, <1>5, <1>6 DEF TypeOK

LEMMA TypePollIngest ==
  ASSUME TypeOK, HasSession, PollIngest
  PROVE  (TypeOK /\ HasSession)'
<1>1. StoreOK /\ ManagerOK /\ SessOK /\ PcOK /\ MineOK /\ HeldOK
  BY DEF TypeOK
<1>2. ManagerOK' /\ SessOK' /\ MineOK' /\ HeldOK'
  BY <1>1 DEF PollIngest, Goto, manager, ManagerOK, SessOK, MineOK, HeldOK
<1>3. StoreOK'
  BY <1>1, AccountUpdate DEF PollIngest, Goto, StoreOK
<1>4. PcOK'
  BY <1>1 DEF PollIngest, Goto, PcOK, Label
<1>5. HasSession'
  BY <1>1 DEF PollIngest, Goto, HasSession, Using, PcOK, MineOK
<1> QED
  BY <1>2, <1>3, <1>4, <1>5 DEF TypeOK

LEMMA TypePollRefused ==
  ASSUME TypeOK, HasSession, PollRefused
  PROVE  (TypeOK /\ HasSession)'
<1>1. StoreOK /\ ManagerOK /\ SessOK /\ PcOK /\ MineOK /\ HeldOK
  BY DEF TypeOK
<1>2. StoreOK' /\ ManagerOK' /\ SessOK' /\ MineOK' /\ HeldOK'
  BY <1>1
     DEF PollRefused, Goto, store, manager, StoreOK, ManagerOK, SessOK,
         MineOK, HeldOK
<1>3. PcOK'
  BY <1>1 DEF PollRefused, Goto, PcOK, Label
<1>4. HasSession'
  BY <1>1 DEF PollRefused, Goto, HasSession, Using, PcOK, MineOK
<1> QED
  BY <1>2, <1>3, <1>4 DEF TypeOK

LEMMA TypeSchedule ==
  ASSUME NEW t \in Session \cup {"poll"}, TypeOK, HasSession, Schedule(t)
  PROVE  (TypeOK /\ HasSession)'
<1>1. StoreOK /\ ManagerOK /\ SessOK /\ PcOK /\ MineOK /\ HeldOK
  BY DEF TypeOK
<1>2. t \in Thread
  BY DEF Thread, Worker, Caller
<1>3. StoreOK' /\ SessOK'
  BY <1>1 DEF Schedule, Goto, Leave, store, StoreOK, SessOK
<1>4. ManagerOK'
  BY <1>1, <1>2 DEF Schedule, Goto, Leave, ManagerOK
<1>5. PcOK'
  BY <1>1, <1>2 DEF Schedule, Goto, Leave, PcOK, Label
<1>6. MineOK'
  BY <1>1, <1>2 DEF Schedule, Goto, Leave, MineOK
<1>7. HeldOK'
  BY <1>1, <1>2
     DEF Schedule, Goto, Leave, HeldOK, Held, EmptyHeld, Cookie, NoCookie
<1>8. HasSession'
  BY <1>1, <1>2 DEF Schedule, Goto, Leave, HasSession, Using, PcOK, MineOK
<1> QED
  BY <1>3, <1>4, <1>5, <1>6, <1>7, <1>8 DEF TypeOK

LEMMA TypeMarkReconnect ==
  ASSUME NEW t \in Thread, TypeOK, HasSession, MarkReconnect(t)
  PROVE  (TypeOK /\ HasSession)'
<1>1. StoreOK /\ ManagerOK /\ SessOK /\ PcOK /\ MineOK /\ HeldOK
  BY DEF TypeOK
<1>2. t \in Thread
  BY DEF Thread, Worker, Caller
<1>3. ManagerOK' /\ SessOK' /\ MineOK' /\ HeldOK'
  BY <1>1 DEF MarkReconnect, Goto, manager, ManagerOK, SessOK, MineOK, HeldOK
<1>4. StoreOK'
  BY <1>1, <1>2, AccountUpdate DEF MarkReconnect, Goto, StoreOK
<1>5. PcOK'
  BY <1>1, <1>2 DEF MarkReconnect, Goto, PcOK, Label
<1>6. HasSession'
  BY <1>1, <1>2 DEF MarkReconnect, Goto, HasSession, Using, PcOK, MineOK
<1> QED
  BY <1>3, <1>4, <1>5, <1>6 DEF TypeOK

LEMMA TypeDropSession ==
  ASSUME NEW t \in Thread, TypeOK, HasSession, DropSession(t)
  PROVE  (TypeOK /\ HasSession)'
<1>1. StoreOK /\ ManagerOK /\ SessOK /\ PcOK /\ MineOK /\ HeldOK
  BY DEF TypeOK
<1>2. t \in Thread
  BY DEF Thread, Worker, Caller
<1>3. StoreOK' /\ SessOK' /\ HeldOK'
  BY <1>1 DEF DropSession, Goto, store, StoreOK, SessOK, HeldOK
<1>4. ManagerOK'
  BY <1>1, <1>2 DEF DropSession, Goto, ManagerOK
<1>5. PcOK'
  BY <1>1, <1>2 DEF DropSession, Goto, PcOK, Label
<1>6. MineOK'
  BY <1>1, <1>2 DEF DropSession, Goto, MineOK, ManagerOK
<1>7. HasSession'
  BY <1>1, <1>2
     DEF DropSession, Goto, HasSession, Using, PcOK, MineOK, ManagerOK
<1> QED
  BY <1>3, <1>4, <1>5, <1>6, <1>7 DEF TypeOK

LEMMA TypeStopSession ==
  ASSUME NEW t \in Thread, TypeOK, HasSession, StopSession(t)
  PROVE  (TypeOK /\ HasSession)'
<1>1. StoreOK /\ ManagerOK /\ SessOK /\ PcOK /\ MineOK /\ HeldOK
  BY DEF TypeOK
<1>2. t \in Thread
  BY DEF Thread, Worker, Caller
<1>3. StoreOK' /\ ManagerOK' /\ HeldOK'
  BY <1>1 DEF StopSession, Goto, store, manager, StoreOK, ManagerOK, HeldOK
<1>4. SessOK'
  BY <1>1, <1>2, SessionUpdate DEF StopSession, Goto, SessOK
<1>5. PcOK'
  BY <1>1, <1>2 DEF StopSession, Goto, PcOK, Label
<1>6. MineOK'
  BY <1>1, <1>2 DEF StopSession, Goto, MineOK
<1>7. HasSession'
  BY <1>1, <1>2 DEF StopSession, Goto, HasSession, Using, PcOK, MineOK
<1> QED
  BY <1>3, <1>4, <1>5, <1>6, <1>7 DEF TypeOK

LEMMA TypeDisconnectAccount ==
  ASSUME TypeOK, HasSession, DisconnectAccount
  PROVE  (TypeOK /\ HasSession)'
<1>1. StoreOK /\ ManagerOK /\ SessOK /\ PcOK /\ MineOK /\ HeldOK
  BY DEF TypeOK
<1>2. ManagerOK' /\ SessOK' /\ MineOK' /\ HeldOK'
  BY <1>1
     DEF DisconnectAccount, Goto, manager, ManagerOK, SessOK, MineOK, HeldOK
<1>3. StoreOK'
  BY <1>1, AccountUpdate DEF DisconnectAccount, Goto, StoreOK
<1>4. PcOK'
  BY <1>1 DEF DisconnectAccount, Goto, PcOK, Label
<1>5. HasSession'
  BY <1>1 DEF DisconnectAccount, Goto, HasSession, Using, PcOK, MineOK
<1> QED
  BY <1>2, <1>3, <1>4, <1>5 DEF TypeOK

LEMMA TypeLoginConnect ==
  ASSUME TypeOK, HasSession, LoginConnect
  PROVE  (TypeOK /\ HasSession)'
<1>1. StoreOK /\ ManagerOK /\ SessOK /\ PcOK /\ MineOK /\ HeldOK
  BY DEF TypeOK
<1>2. ManagerOK' /\ SessOK' /\ MineOK' /\ HeldOK'
  BY <1>1 DEF LoginConnect, Goto, manager, ManagerOK, SessOK, MineOK, HeldOK
<1>3. StoreOK'
  BY <1>1 DEF LoginConnect, Goto, StoreOK, Account, Cookie
<1>4. PcOK'
  BY <1>1 DEF LoginConnect, Goto, PcOK, Label
<1>5. HasSession'
  BY <1>1 DEF LoginConnect, Goto, HasSession, Using, PcOK, MineOK
<1> QED
  BY <1>2, <1>3, <1>4, <1>5 DEF TypeOK

LEMMA TypeLoginWake ==
  ASSUME TypeOK, HasSession, LoginWake
  PROVE  (TypeOK /\ HasSession)'
<1>1. StoreOK /\ ManagerOK /\ SessOK /\ PcOK /\ MineOK /\ HeldOK
  BY DEF TypeOK
<1>2. StoreOK' /\ SessOK' /\ MineOK' /\ HeldOK'
  BY <1>1 DEF LoginWake, Goto, Wake, store, StoreOK, SessOK, MineOK, HeldOK
<1>3. ManagerOK'
  BY <1>1 DEF LoginWake, Goto, Wake, ManagerOK
<1>4. PcOK'
  BY <1>1 DEF LoginWake, Goto, Wake, PcOK, Label
<1>5. HasSession'
  BY <1>1 DEF LoginWake, Goto, Wake, HasSession, Using, PcOK, MineOK
<1> QED
  BY <1>2, <1>3, <1>4, <1>5 DEF TypeOK

LEMMA TypeSyncNow ==
  ASSUME TypeOK, HasSession, SyncNow
  PROVE  (TypeOK /\ HasSession)'
<1>1. StoreOK /\ ManagerOK /\ SessOK /\ PcOK /\ MineOK /\ HeldOK
  BY DEF TypeOK
<1>2. StoreOK' /\ SessOK' /\ PcOK' /\ MineOK' /\ HeldOK' /\ HasSession'
  BY <1>1
     DEF SyncNow, Wake, store, threads, StoreOK, SessOK, PcOK, MineOK, HeldOK,
         HasSession
<1>3. ManagerOK'
  BY <1>1 DEF SyncNow, Wake, ManagerOK
<1> QED
  BY <1>2, <1>3 DEF TypeOK

LEMMA TypePipelineRejected ==
  ASSUME NEW s \in Session, TypeOK, HasSession, PipelineRejected(s)
  PROVE  (TypeOK /\ HasSession)'
<1>1. StoreOK /\ ManagerOK /\ SessOK /\ PcOK /\ MineOK /\ HeldOK
  BY DEF TypeOK
<1>2. s \in Thread
  BY DEF Thread, Worker, Caller
<1>3. StoreOK' /\ ManagerOK' /\ SessOK' /\ MineOK' /\ HeldOK'
  BY <1>1
     DEF PipelineRejected, Goto, store, manager, StoreOK, ManagerOK, SessOK,
         MineOK, HeldOK
<1>4. PcOK'
  BY <1>1, <1>2 DEF PipelineRejected, Goto, PcOK, Label
<1>5. HasSession'
  BY <1>1, <1>2 DEF PipelineRejected, Goto, HasSession, Using, PcOK, MineOK
<1> QED
  BY <1>3, <1>4, <1>5 DEF TypeOK

LEMMA TypePipelineThrottled ==
  ASSUME NEW s \in Session, TypeOK, HasSession, PipelineThrottled(s)
  PROVE  (TypeOK /\ HasSession)'
<1>1. StoreOK /\ ManagerOK /\ SessOK /\ PcOK /\ MineOK /\ HeldOK
  BY DEF TypeOK
<1>2. s \in Thread
  BY DEF Thread, Worker, Caller
<1>3. StoreOK' /\ ManagerOK' /\ SessOK' /\ MineOK' /\ HeldOK'
  BY <1>1
     DEF PipelineThrottled, Goto, store, manager, StoreOK, ManagerOK, SessOK,
         MineOK, HeldOK
<1>4. PcOK'
  BY <1>1, <1>2 DEF PipelineThrottled, Goto, PcOK, Label
<1>5. HasSession'
  BY <1>1, <1>2 DEF PipelineThrottled, Goto, HasSession, Using, PcOK, MineOK
<1> QED
  BY <1>3, <1>4, <1>5 DEF TypeOK

LEMMA TypePipelineEnds ==
  ASSUME NEW s \in Session, TypeOK, HasSession, PipelineEnds(s)
  PROVE  (TypeOK /\ HasSession)'
<1>1. StoreOK /\ ManagerOK /\ SessOK /\ PcOK /\ MineOK /\ HeldOK
  BY DEF TypeOK
<1>2. s \in Thread
  BY DEF Thread, Worker, Caller
<1>3. StoreOK' /\ ManagerOK' /\ SessOK' /\ MineOK' /\ HeldOK'
  BY <1>1
     DEF PipelineEnds, Goto, store, manager, StoreOK, ManagerOK, SessOK,
         MineOK, HeldOK
<1>4. PcOK'
  BY <1>1, <1>2 DEF PipelineEnds, Goto, PcOK, Label
<1>5. HasSession'
  BY <1>1, <1>2 DEF PipelineEnds, Goto, HasSession, Using, PcOK, MineOK
<1> QED
  BY <1>3, <1>4, <1>5 DEF TypeOK

LEMMA TypeUpstreamExpires ==
  ASSUME TypeOK, HasSession, UpstreamExpires
  PROVE  (TypeOK /\ HasSession)'
<1>1. StoreOK /\ ManagerOK /\ SessOK /\ PcOK /\ MineOK /\ HeldOK
  BY DEF TypeOK
<1>2. ManagerOK' /\ SessOK' /\ PcOK' /\ MineOK' /\ HeldOK' /\ HasSession'
  BY <1>1
     DEF UpstreamExpires, manager, threads, ManagerOK, SessOK, PcOK, MineOK,
         HeldOK, HasSession
<1>3. StoreOK'
  BY <1>1 DEF UpstreamExpires, StoreOK
<1> QED
  BY <1>2, <1>3 DEF TypeOK

LEMMA TypeRestart ==
  ASSUME TypeOK, HasSession, Restart
  PROVE  (TypeOK /\ HasSession)'
<1>1. StoreOK /\ ManagerOK /\ SessOK /\ PcOK /\ MineOK /\ HeldOK
  BY DEF TypeOK
<1>2. StoreOK'
  BY <1>1 DEF Restart, StoreOK
<1>3. ManagerOK'
  BY <1>1 DEF Restart, ManagerOK
<1>4. SessOK'
  BY <1>1, FreshProcess DEF Restart, SessOK
<1>5. PcOK'
  BY <1>1, FreshProcess DEF Restart, PcOK, Label
<1>6. MineOK'
  BY <1>1 DEF Restart, MineOK
<1>7. HeldOK'
  BY <1>1, FreshProcess DEF Restart, HeldOK, Held
<1>8. HasSession'
  BY <1>1, FreshProcess DEF Restart, HasSession, Using, PcOK, MineOK
<1> QED
  BY <1>2, <1>3, <1>4, <1>5, <1>6, <1>7, <1>8 DEF TypeOK

\* The type invariant, for every execution: what the threads leave in the
\* row, the dictionaries and their own locals is what the next one expects.
THEOREM TypeCorrect == Spec => [](TypeOK /\ HasSession)
<1>1. Init => TypeOK /\ HasSession
  <2> SUFFICES ASSUME Init
               PROVE  TypeOK /\ HasSession
    OBVIOUS
  <2>1. StoreOK
    BY DEF Init, StoreOK, Account, Cookie, NoCookie
  <2>2. SessOK /\ PcOK /\ HeldOK
    BY FreshProcess DEF Init, SessOK, PcOK, HeldOK
  <2>3. ManagerOK /\ MineOK
    BY DEF Init, ManagerOK, MineOK
  <2>4. HasSession
    BY FreshProcess DEF Init, HasSession
  <2> QED BY <2>1, <2>2, <2>3, <2>4 DEF TypeOK
<1>2. TypeOK /\ HasSession /\ [Next]_vars => (TypeOK /\ HasSession)'
  <2> SUFFICES ASSUME TypeOK, HasSession, [Next]_vars
               PROVE  (TypeOK /\ HasSession)'
    OBVIOUS
  <2>1. CASE LoopStep \/ DueElapses
    BY <2>1, TypeLoopRead, TypeLoopReconcile, TypeLoopStart,
       TypeLoopDispatch, TypeDueElapses DEF LoopStep
  <2>2. ASSUME NEW t \in {"loop", "world"}, StartStep(t)
        PROVE  (TypeOK /\ HasSession)'
    BY <2>2, TypeStartReadCookie, TypeStartInstall, TypeStartLaunch DEF StartStep
  <2>3. CASE PollBegin \/ CommitStep
    BY <2>3, TypePollBegin, TypePollCheck, TypePollIngest, TypePollRefused DEF CommitStep
  <2>4. CASE WorldBegin \/ WorldStep
    BY <2>4, TypeWorldBegin, TypeWorldLookup, TypeWorldStart, TypeWorldCheck DEF WorldStep
  <2>5. ASSUME NEW t \in Caller, RequestEnds(t) \/ PersistStep(t)
        PROVE  (TypeOK /\ HasSession)'
    BY <2>5, TypeRequestServed, TypeRequestRejected, TypeRequestFailed,
       TypePersistCheck, TypePersistWrite, TypePersistNote DEF RequestEnds, PersistStep
  <2>6. ASSUME NEW t \in Session \cup {"poll"}, Schedule(t)
        PROVE  (TypeOK /\ HasSession)'
    BY <2>6, TypeSchedule
  <2>7. ASSUME NEW t \in Thread, WayOut(t)
        PROVE  (TypeOK /\ HasSession)'
    BY <2>7, TypeMarkReconnect, TypeDropSession, TypeStopSession DEF WayOut
  <2>8. CASE DisconnectAccount \/ LoginConnect \/ LoginWake \/ SyncNow
    BY <2>8, TypeDisconnectAccount, TypeLoginConnect, TypeLoginWake,
       TypeSyncNow
  <2>9. ASSUME NEW s \in Session, PipelineStep(s)
        PROVE  (TypeOK /\ HasSession)'
    BY <2>9, TypePipelineRejected, TypePipelineThrottled, TypePipelineEnds DEF PipelineStep
  <2>10. CASE UpstreamExpires \/ Restart
    BY <2>10, TypeUpstreamExpires, TypeRestart
  <2>11. CASE UNCHANGED vars
    BY <2>11 DEF vars, TypeOK, HasSession, StoreOK, ManagerOK, SessOK, PcOK,
       MineOK, HeldOK
  <2> QED
    BY <2>1, <2>2, <2>3, <2>4, <2>5, <2>6, <2>7, <2>8,
       <2>9, <2>10, <2>11 DEF Next
<1> QED BY <1>1, <1>2, PTL DEF Spec

-----------------------------------------------------------------------------
(* The revision identifies the login                                        *)

\* A credential read or built at revision r agrees with the row at revision r.
Matches(c, r) ==
  (r = account.rev /\ account.cookie # NoCookie) => c.login = account.cookie.login

RevisionsBehind ==
  /\ \A s \in Session : sess[s].rev <= account.rev
  /\ \A t \in Thread : held[t].rev <= account.rev

RowBeginsEmpty == account.rev = 0 => account.cookie = NoCookie
SessionsMatch == \A s \in Session : Matches(sess[s].cookie, sess[s].rev)
InstallMatches == \A t \in Thread : pc[t] = "install" => Matches(held[t].cookie, held[t].rev)
WriteIsOwn ==
  \A t \in Thread : pc[t] = "write" => held[t].cookie.login = sess[mine[t]].cookie.login
NoteMatches ==
  \A t \in Thread : pc[t] = "note" => Matches(sess[mine[t]].cookie, held[t].rev)

\* RevisionIdentifiesLogin made inductive: it speaks as well of the credential
\* a thread is about to install, of the one it is about to write, and of the
\* revision a write returned that the session has not noted yet.
CredentialInv ==
  /\ RevisionsBehind /\ RowBeginsEmpty /\ SessionsMatch
  /\ InstallMatches /\ WriteIsOwn /\ NoteMatches

\* What a step does that reads, writes and installs no credential.
CredentialsStay ==
  /\ account'.rev = account.rev
  /\ account'.cookie \in {account.cookie, NoCookie}
  /\ \A s \in Session : /\ sess'[s].cookie.login = sess[s].cookie.login
                        /\ sess'[s].rev = sess[s].rev
  /\ \A t \in Thread : held'[t].rev \in {held[t].rev, 0, account.rev}
  /\ \A t \in Thread : pc'[t] \in {"install", "write", "note"} =>
       pc'[t] = pc[t] /\ mine'[t] = mine[t] /\ held'[t] = held[t]

LEMMA StayingPreserves ==
  ASSUME TypeOK, HasSession, CredentialInv, CredentialsStay
  PROVE  CredentialInv'
<1>1. /\ account.rev \in Nat
      /\ \A s \in Session : sess[s].rev \in Nat
      /\ \A t \in Thread : held[t].rev \in Nat
  BY DEF TypeOK, StoreOK, Account, SessOK, SessionObject, HeldOK, Held
<1>2. \A t \in Thread : pc[t] \in {"write", "note"} => mine[t] \in Session
  BY DEF HasSession, Using
<1>3. RevisionsBehind'
  BY <1>1 DEF CredentialInv, CredentialsStay, RevisionsBehind
<1>4. RowBeginsEmpty'
  BY DEF CredentialInv, CredentialsStay, RowBeginsEmpty
<1>5. SessionsMatch'
  BY DEF CredentialInv, CredentialsStay, SessionsMatch, Matches
<1>6. InstallMatches'
  BY DEF CredentialInv, CredentialsStay, InstallMatches, Matches
<1>7. WriteIsOwn'
  BY <1>2 DEF CredentialInv, CredentialsStay, WriteIsOwn
<1>8. NoteMatches'
  BY <1>2 DEF CredentialInv, CredentialsStay, NoteMatches, Matches
<1> QED BY <1>3, <1>4, <1>5, <1>6, <1>7, <1>8 DEF CredentialInv

\* The steps of the loop, the callers and the handlers that move no credential.
LEMMA LoopStays ==
  ASSUME TypeOK, LoopStep \/ DueElapses
  PROVE  CredentialsStay
<1> USE DEF TypeOK, PcOK, HeldOK, Held, Goto, CredentialsStay, store, manager,
            threads, EmptyHeld
<1>1. CASE LoopRead
  BY <1>1 DEF LoopRead, Thread, Worker
<1>2. CASE LoopReconcile
  BY <1>2 DEF LoopReconcile, MineOK
<1>3. CASE LoopStart
  BY <1>3 DEF LoopStart
<1>4. CASE LoopDispatch
  BY <1>4 DEF LoopDispatch, MineOK
<1>5. CASE DueElapses
  BY <1>5 DEF DueElapses
<1> QED BY <1>1, <1>2, <1>3, <1>4, <1>5 DEF LoopStep

LEMMA LaunchStays ==
  ASSUME TypeOK, HasSession, NEW t \in {"loop", "world"}, StartLaunch(t)
  PROVE  CredentialsStay
<1>1. t \in Thread /\ mine[t] \in Session
  BY DEF Thread, Worker, HasSession, Using, StartLaunch
<1> QED
  BY <1>1 DEF TypeOK, PcOK, MineOK, HeldOK, Held, CredentialsStay, store,
     StartLaunch, EmptyHeld

LEMMA CallsStay ==
  ASSUME TypeOK,
         PollBegin \/ CommitStep \/ WorldBegin \/ WorldStep
  PROVE  CredentialsStay
<1> USE DEF TypeOK, PcOK, MineOK, HeldOK, Held, Goto, Leave, CredentialsStay,
            store, manager, EmptyHeld, StoreOK, Account
<1>1. CASE PollBegin
  BY <1>1 DEF PollBegin
<1>2. CASE PollCheck \/ PollIngest
  BY <1>2 DEF PollCheck, PollIngest
<1>3. CASE PollRefused
  BY <1>3 DEF PollRefused
<1>4. CASE WorldBegin
  BY <1>4 DEF WorldBegin
<1>5. CASE WorldLookup
  BY <1>5 DEF WorldLookup
<1>6. CASE WorldStart
  BY <1>6 DEF WorldStart, StartFoundExisting, StartAbandoned
<1>7. CASE WorldCheck
  BY <1>7 DEF WorldCheck
<1> QED BY <1>1, <1>2, <1>3, <1>4, <1>5, <1>6, <1>7
   DEF WorldStep, CommitStep

LEMMA RequestStays ==
  ASSUME TypeOK, HasSession, NEW t \in Caller, RequestEnds(t)
  PROVE  CredentialsStay
<1>1. t \in Thread
  BY DEF Thread, Worker, Caller
<1>2. mine[t] \in Session
  BY <1>1 DEF RequestEnds, RequestServed, RequestRejected, RequestFailed,
     HasSession, Using
<1>3. sess \in [Session -> SessionObject]
  BY DEF TypeOK, SessOK
<1> USE DEF TypeOK, PcOK, MineOK, HeldOK, Held, Goto, Leave, CredentialsStay,
            store, manager, EmptyHeld
<1>4. CASE RequestServed(t)
  BY <1>1, <1>2, <1>3, <1>4, RotationOnly DEF RequestServed
<1>5. CASE RequestRejected(t)
  BY <1>1, <1>5 DEF RequestRejected
<1>6. CASE RequestFailed(t)
  BY <1>1, <1>2, <1>3, <1>6, RotationOnly DEF RequestFailed
<1> QED BY <1>4, <1>5, <1>6 DEF RequestEnds

LEMMA WayOutStays ==
  ASSUME TypeOK, NEW t \in Thread, WayOut(t)
  PROVE  CredentialsStay
<1> USE DEF TypeOK, PcOK, MineOK, HeldOK, Held, Goto, CredentialsStay, store,
            manager
<1>1. CASE MarkReconnect(t)
  BY <1>1 DEF MarkReconnect, StoreOK, Account
<1>2. CASE DropSession(t)
  BY <1>2 DEF DropSession
<1>3. CASE StopSession(t)
  BY <1>3 DEF StopSession, SessOK, SessionObject
<1> QED BY <1>1, <1>2, <1>3 DEF WayOut

LEMMA HandlersStay ==
  ASSUME TypeOK,
         DisconnectAccount \/ LoginWake \/ SyncNow \/ UpstreamExpires
  PROVE  CredentialsStay
<1> USE DEF TypeOK, PcOK, MineOK, HeldOK, Held, Goto, CredentialsStay, store,
            manager, threads, Wake
<1>1. CASE DisconnectAccount
  BY <1>1 DEF DisconnectAccount, StoreOK, Account
<1>2. CASE LoginWake
  BY <1>2 DEF LoginWake
<1>3. CASE SyncNow
  BY <1>3 DEF SyncNow
<1>4. CASE UpstreamExpires
  BY <1>4 DEF UpstreamExpires
<1> QED BY <1>1, <1>2, <1>3, <1>4

LEMMA ListenersStay ==
  ASSUME TypeOK, NEW s \in Session \cup {"poll"},
         Schedule(s) \/ (s \in Session /\ PipelineStep(s))
  PROVE  CredentialsStay
<1> USE DEF TypeOK, PcOK, MineOK, HeldOK, Held, Goto, Leave, CredentialsStay,
            store, manager, EmptyHeld
<1>1. s \in Thread
  BY DEF Thread, Worker
<1>2. CASE Schedule(s)
  BY <1>1, <1>2 DEF Schedule
<1>3. CASE s \in Session /\ PipelineRejected(s)
  BY <1>1, <1>3 DEF PipelineRejected
<1>4. CASE s \in Session /\ PipelineThrottled(s)
  BY <1>1, <1>4 DEF PipelineThrottled
<1>5. CASE s \in Session /\ PipelineEnds(s)
  BY <1>1, <1>5 DEF PipelineEnds
<1> QED BY <1>2, <1>3, <1>4, <1>5 DEF PipelineStep

\* The steps that do move one.
LEMMA ReadPreserves ==
  ASSUME TypeOK, HasSession, CredentialInv, NEW t \in {"loop", "world"},
         StartReadCookie(t)
  PROVE  CredentialInv'
<1>1. t \in Thread
  BY DEF Thread, Worker
<1>2. CASE ~Usable
  <2>1. CredentialsStay
    BY <1>1, <1>2 DEF TypeOK, PcOK, HeldOK, Held, StartReadCookie,
       StartAbandoned, Goto, CredentialsStay, store, manager, EmptyHeld
  <2> QED BY <2>1, StayingPreserves
<1>3. CASE Usable
  <2>1. /\ held' = [held EXCEPT ![t].cookie = account.cookie]
        /\ pc' = [pc EXCEPT ![t] = "install"]
        /\ UNCHANGED <<account, sess, mine>>
    BY <1>3 DEF StartReadCookie, Goto, store
  <2>2. \A u \in Thread : held'[u].rev = held[u].rev
    BY <2>1 DEF TypeOK, HeldOK, Held
  <2>3. \A u \in Thread : pc'[u] \in {"install", "write", "note"} =>
          u = t \/ (pc'[u] = pc[u] /\ held'[u] = held[u])
    BY <2>1 DEF TypeOK, PcOK, HeldOK
  <2>4. held'[t].cookie = account.cookie /\ pc'[t] = "install"
    BY <1>1, <2>1 DEF TypeOK, PcOK, HeldOK, Held
  <2>5. RevisionsBehind' /\ RowBeginsEmpty' /\ SessionsMatch'
    BY <2>1, <2>2 DEF CredentialInv, RevisionsBehind, RowBeginsEmpty,
       SessionsMatch, Matches
  <2>6. InstallMatches'
    BY <2>1, <2>3, <2>4 DEF CredentialInv, InstallMatches, Matches
  <2>7. WriteIsOwn' /\ NoteMatches'
    BY <2>1, <2>3, <2>4 DEF CredentialInv, WriteIsOwn, NoteMatches, Matches
  <2> QED BY <2>5, <2>6, <2>7 DEF CredentialInv
<1> QED BY <1>2, <1>3

LEMMA InstallPreserves ==
  ASSUME TypeOK, HasSession, CredentialInv, NEW t \in {"loop", "world"},
         StartInstall(t)
  PROVE  CredentialInv'
<1>1. t \in Thread
  BY DEF Thread, Worker
<1>2. CASE blocked \/ current # NoSession
  <2>1. CredentialsStay
    BY <1>1, <1>2 DEF TypeOK, PcOK, MineOK, HeldOK, Held, StartInstall, Installed,
       StartAbandoned, StartFoundExisting, Goto, CredentialsStay, store,
       EmptyHeld
  <2> QED BY <2>1, StayingPreserves
<1>3. CASE ~blocked /\ current = NoSession
  <2>1. PICK s \in Session :
          /\ Garbage(s)
          /\ sess' = [sess EXCEPT ![s] =
               [cookie |-> held[t].cookie, persisted |-> held[t].cookie,
                rev |-> held[t].rev, stopped |-> FALSE]]
          /\ mine' = [mine EXCEPT ![t] = s]
    BY <1>3 DEF StartInstall, Installed
  <2>2. /\ pc[t] = "install"
        /\ pc' = [pc EXCEPT ![t] = "launch"]
        /\ UNCHANGED <<account, held>>
    BY <1>3 DEF StartInstall, Installed, Goto, store
  <2>3. \A u \in Thread : pc'[u] \in {"install", "write", "note"} =>
          u # t /\ pc'[u] = pc[u] /\ mine'[u] = mine[u] /\ mine[u] # s
    BY <1>1, <2>1, <2>2 DEF TypeOK, PcOK, MineOK, Garbage
  <2>4. /\ sess'[s].cookie = held[t].cookie /\ sess'[s].rev = held[t].rev
        /\ \A u \in Session : u # s => sess'[u] = sess[u]
    BY <2>1 DEF TypeOK, SessOK
  <2>5. RevisionsBehind'
    BY <1>1, <2>2, <2>4 DEF CredentialInv, RevisionsBehind
  <2>6. RowBeginsEmpty' /\ InstallMatches'
    BY <2>2, <2>3 DEF CredentialInv, RowBeginsEmpty, InstallMatches, Matches
  <2>7. SessionsMatch'
    BY <1>1, <2>2, <2>4 DEF CredentialInv, SessionsMatch, InstallMatches, Matches
  <2>8. \A u \in Thread : pc'[u] \in {"write", "note"} => sess'[mine'[u]] = sess[mine[u]]
    BY <2>3, <2>4 DEF HasSession, Using
  <2>9. WriteIsOwn' /\ NoteMatches'
    BY <2>2, <2>3, <2>8 DEF CredentialInv, WriteIsOwn, NoteMatches, Matches
  <2> QED BY <2>5, <2>6, <2>7, <2>9 DEF CredentialInv
<1> QED BY <1>2, <1>3

LEMMA PersistPreserves ==
  ASSUME TypeOK, HasSession, CredentialInv, NEW t \in Caller, PersistStep(t)
  PROVE  CredentialInv'
<1>1. t \in Thread
  BY DEF Thread, Worker, Caller
<1>2. mine[t] \in Session
  BY <1>1 DEF PersistStep, PersistCheck, PersistWrite, PersistNote, HasSession, Using
<1>3. /\ account.rev \in Nat
      /\ \A s \in Session : sess[s].rev \in Nat
      /\ \A u \in Thread : held[u].rev \in Nat
  BY DEF TypeOK, StoreOK, Account, SessOK, SessionObject, HeldOK, Held
<1>4. \A u \in Thread : pc[u] \in {"write", "note"} => mine[u] \in Session
  BY DEF HasSession, Using
<1>5. CASE PersistCheck(t)
  <2>1. \A u \in Thread : held'[u].rev = held[u].rev
    BY <1>5 DEF PersistCheck, AfterPersist, TypeOK, HeldOK, Held
  <2>2. account' = account /\ sess' = sess
    BY <1>5 DEF PersistCheck, store
  <2>3. \A u \in Thread : pc'[u] \in {"install", "write", "note"} =>
          \/ u # t /\ pc'[u] = pc[u] /\ mine'[u] = mine[u] /\ held'[u] = held[u]
          \/ u = t /\ pc'[u] = "write" /\ mine'[u] = mine[u]
                   /\ held'[u].cookie = sess[mine[u]].cookie
    BY <1>1, <1>5 DEF PersistCheck, AfterPersist, Goto, TypeOK, PcOK, MineOK, HeldOK, Held
  <2>4. RevisionsBehind' /\ RowBeginsEmpty' /\ SessionsMatch'
    BY <2>1, <2>2 DEF CredentialInv, RevisionsBehind, RowBeginsEmpty,
       SessionsMatch, Matches
  <2>5. InstallMatches' /\ NoteMatches'
    BY <2>2, <2>3 DEF CredentialInv, InstallMatches, NoteMatches, Matches
  <2>6. WriteIsOwn'
    BY <2>2, <2>3 DEF CredentialInv, WriteIsOwn
  <2> QED BY <2>4, <2>5, <2>6 DEF CredentialInv
<1>6. CASE PersistWrite(t)
  <2>1. /\ account'.cookie = held[t].cookie /\ account'.rev = account.rev + 1
        /\ UNCHANGED <<sess, mine>>
        /\ pc[t] = "write" /\ pc' = [pc EXCEPT ![t] = "note"]
    BY <1>6 DEF PersistWrite, Goto
  <2>2. /\ held'[t].rev = account.rev + 1
        /\ \A u \in Thread : u # t => held'[u] = held[u]
    BY <1>1, <1>6 DEF PersistWrite, TypeOK, HeldOK, Held
  <2>3. \A u \in Thread : u # t => pc'[u] = pc[u]
    BY <2>1 DEF TypeOK, PcOK
  <2>4. pc'[t] = "note"
    BY <1>1, <2>1 DEF TypeOK, PcOK
  <2>5. RevisionsBehind' /\ RowBeginsEmpty' /\ SessionsMatch'
    BY <1>1, <1>3, <2>1, <2>2 DEF CredentialInv, RevisionsBehind,
       RowBeginsEmpty, SessionsMatch, Matches
  <2>6. InstallMatches'
    BY <1>1, <1>3, <2>1, <2>2, <2>3, <2>4 DEF CredentialInv, RevisionsBehind,
       InstallMatches, Matches
  <2>7. WriteIsOwn'
    BY <2>1, <2>2, <2>3, <2>4 DEF CredentialInv, WriteIsOwn
  <2>8. NoteMatches'
    <3> SUFFICES ASSUME NEW u \in Thread, pc'[u] = "note"
                 PROVE  Matches(sess[mine[u]].cookie, held[u].rev)'
      BY DEF NoteMatches
    <3>1. CASE u = t
      BY <1>1, <2>1, <3>1 DEF CredentialInv, WriteIsOwn, Matches
    <3>2. CASE u # t
      BY <1>3, <2>1, <2>2, <3>2 DEF CredentialInv, RevisionsBehind, Matches
    <3> QED BY <3>1, <3>2
  <2> QED BY <2>5, <2>6, <2>7, <2>8 DEF CredentialInv
<1>7. CASE PersistNote(t)
  <2>1. /\ pc[t] = "note" /\ account' = account
        /\ held'[t].rev = 0
        /\ \A u \in Thread : u # t => held'[u] = held[u]
    BY <1>1, <1>7 DEF PersistNote, store, EmptyHeld, TypeOK, HeldOK
  <2>2. /\ sess'[mine[t]].rev = held[t].rev
        /\ \A s \in Session : s # mine[t] => sess'[s] = sess[s]
        /\ \A s \in Session : sess'[s].cookie = sess[s].cookie
    BY <1>2, <1>7 DEF PersistNote, TypeOK, SessOK, SessionObject
  <2>3. \A u \in Thread : pc'[u] \in {"install", "write", "note"} =>
          u # t /\ pc'[u] = pc[u] /\ mine'[u] = mine[u]
    BY <1>1, <1>7 DEF PersistNote, AfterPersist, Goto, TypeOK, PcOK, MineOK
  <2>4. RevisionsBehind' /\ RowBeginsEmpty'
    BY <1>1, <1>2, <1>3, <2>1, <2>2 DEF CredentialInv, RevisionsBehind, RowBeginsEmpty
  <2>5. SessionsMatch'
    BY <1>1, <1>2, <2>1, <2>2 DEF CredentialInv, SessionsMatch, NoteMatches, Matches
  <2>6. InstallMatches'
    BY <2>1, <2>3 DEF CredentialInv, InstallMatches, Matches
  <2>7. WriteIsOwn' /\ NoteMatches'
    BY <1>4, <2>1, <2>2, <2>3 DEF CredentialInv, WriteIsOwn, NoteMatches, Matches
  <2> QED BY <2>4, <2>5, <2>6, <2>7 DEF CredentialInv
<1> QED BY <1>5, <1>6, <1>7 DEF PersistStep

LEMMA LoginPreserves ==
  ASSUME TypeOK, HasSession, CredentialInv, LoginConnect
  PROVE  CredentialInv'
<1>1. /\ account.rev \in Nat
      /\ \A s \in Session : sess[s].rev \in Nat
      /\ \A u \in Thread : held[u].rev \in Nat
  BY DEF TypeOK, StoreOK, Account, SessOK, SessionObject, HeldOK, Held
<1>2. /\ account'.rev = account.rev + 1
      /\ UNCHANGED <<sess, mine, held>>
      /\ \A u \in Thread : pc'[u] \in {"install", "write", "note"} => pc'[u] = pc[u]
  BY DEF LoginConnect, Goto, TypeOK, PcOK
<1>3. RevisionsBehind' /\ RowBeginsEmpty' /\ SessionsMatch'
  BY <1>1, <1>2 DEF CredentialInv, RevisionsBehind, RowBeginsEmpty,
     SessionsMatch, Matches
<1>4. InstallMatches' /\ NoteMatches'
  BY <1>1, <1>2 DEF CredentialInv, RevisionsBehind, InstallMatches, NoteMatches, Matches
<1>5. WriteIsOwn'
  BY <1>2 DEF CredentialInv, WriteIsOwn
<1> QED BY <1>3, <1>4, <1>5 DEF CredentialInv

LEMMA RestartPreserves ==
  ASSUME TypeOK, CredentialInv, Restart
  PROVE  CredentialInv'
<1>1. account.rev \in Nat
  BY DEF TypeOK, StoreOK, Account
<1>2. /\ account' = account
      /\ \A s \in Session : sess'[s] = DeadSession
      /\ \A u \in Thread : held'[u] = EmptyHeld /\ pc'[u] \notin Using \cup {"install"}
  BY DEF Restart, Parked, Using
<1> QED
  BY <1>1, <1>2 DEF CredentialInv, RevisionsBehind, RowBeginsEmpty,
     SessionsMatch, InstallMatches, WriteIsOwn, NoteMatches, Matches,
     DeadSession, EmptyHeld, Using

\* Whenever the session's stamp equals the row's, the session runs the login
\* the row stores.
THEOREM RevisionIdentifies == Spec => []RevisionIdentifiesLogin
<1>1. Init => CredentialInv
  BY DEF Init, CredentialInv, RevisionsBehind, RowBeginsEmpty, SessionsMatch,
     InstallMatches, WriteIsOwn, NoteMatches, Matches, DeadSession, EmptyHeld,
     Parked
<1>2. TypeOK /\ HasSession /\ CredentialInv /\ [Next]_vars => CredentialInv'
  <2> SUFFICES ASSUME TypeOK, HasSession, CredentialInv, [Next]_vars
               PROVE  CredentialInv'
    OBVIOUS
  <2>1. CASE LoopStep \/ DueElapses
    BY <2>1, LoopStays, StayingPreserves
  <2>2. ASSUME NEW t \in {"loop", "world"}, StartStep(t)
        PROVE  CredentialInv'
    BY <2>2, ReadPreserves, InstallPreserves, LaunchStays, StayingPreserves
       DEF StartStep
  <2>3. CASE PollBegin \/ CommitStep \/ WorldBegin \/ WorldStep
    BY <2>3, CallsStay, StayingPreserves
  <2>4. ASSUME NEW t \in Caller, RequestEnds(t) \/ PersistStep(t)
        PROVE  CredentialInv'
    BY <2>4, RequestStays, PersistPreserves, StayingPreserves
  <2>5. ASSUME NEW t \in Session \cup {"poll"},
               Schedule(t) \/ (t \in Session /\ PipelineStep(t))
        PROVE  CredentialInv'
    BY <2>5, ListenersStay, StayingPreserves
  <2>6. ASSUME NEW t \in Thread, WayOut(t)
        PROVE  CredentialInv'
    BY <2>6, WayOutStays, StayingPreserves
  <2>7. CASE DisconnectAccount \/ LoginWake \/ SyncNow \/ UpstreamExpires
    BY <2>7, HandlersStay, StayingPreserves
  <2>8. CASE LoginConnect
    BY <2>8, LoginPreserves
  <2>9. CASE Restart
    BY <2>9, RestartPreserves
  <2>10. CASE UNCHANGED vars
    BY <2>10 DEF vars, CredentialInv, RevisionsBehind, RowBeginsEmpty,
       SessionsMatch, InstallMatches, WriteIsOwn, NoteMatches, Matches
  <2> QED
    BY <2>1, <2>2, <2>3, <2>4, <2>5, <2>6, <2>7, <2>8, <2>9, <2>10 DEF Next
<1>3. CredentialInv => RevisionIdentifiesLogin
  BY DEF CredentialInv, SessionsMatch, Matches, RevisionIdentifiesLogin
<1> QED BY <1>1, <1>2, <1>3, TypeCorrect, PTL DEF Spec

-----------------------------------------------------------------------------
(* A blocked tenant has no session                                          *)

LEMMA BlockedStep ==
  ASSUME BlockedHasNoSession, [Next]_vars
  PROVE  BlockedHasNoSession'
<1> USE DEF BlockedHasNoSession, store, manager, threads
<1>1. CASE LoopStep \/ DueElapses
  BY <1>1 DEF LoopStep, LoopRead, LoopReconcile, LoopStart, LoopDispatch,
     DueElapses
<1>2. ASSUME NEW t \in {"loop", "world"}, StartStep(t)
      PROVE  BlockedHasNoSession'
  BY <1>2 DEF StartStep, StartReadCookie, StartInstall, Installed, StartLaunch
<1>3. CASE PollBegin \/ CommitStep \/ WorldBegin \/ WorldStep
  BY <1>3 DEF PollBegin, CommitStep, PollCheck, PollIngest, PollRefused,
     WorldBegin, WorldStep,
     WorldLookup, WorldStart, WorldCheck
<1>4. ASSUME NEW t \in Caller, RequestEnds(t) \/ PersistStep(t)
      PROVE  BlockedHasNoSession'
  BY <1>4 DEF RequestEnds, RequestServed, RequestRejected, RequestFailed,
     PersistStep, PersistCheck, PersistWrite, PersistNote
<1>5. ASSUME NEW t \in Session \cup {"poll"},
             Schedule(t) \/ (t \in Session /\ PipelineStep(t))
      PROVE  BlockedHasNoSession'
  BY <1>5 DEF Schedule, PipelineStep, PipelineRejected, PipelineThrottled,
     PipelineEnds
<1>6. ASSUME NEW t \in Thread, WayOut(t)
      PROVE  BlockedHasNoSession'
  BY <1>6 DEF WayOut, MarkReconnect, DropSession, StopSession
<1>7. CASE \/ DisconnectAccount \/ LoginConnect \/ LoginWake \/ SyncNow
           \/ UpstreamExpires \/ Restart
  BY <1>7 DEF DisconnectAccount, LoginConnect, LoginWake, SyncNow, Wake,
     UpstreamExpires, Restart
<1>8. CASE UNCHANGED vars
  BY <1>8 DEF vars
<1> QED BY <1>1, <1>2, <1>3, <1>4, <1>5, <1>6, <1>7, <1>8 DEF Next

\* No interleaving of a start with a disconnect leaves a blocked tenant with a
\* registered session.
THEOREM BlockedSafe == Spec => []BlockedHasNoSession
<1>1. Init => BlockedHasNoSession
  BY DEF Init, BlockedHasNoSession
<1> QED BY <1>1, BlockedStep, PTL DEF Spec

-----------------------------------------------------------------------------
(* No listener is left behind                                               *)

\* A session nobody has told to stop is registered or about to be stopped.
Running == \A s \in Session :
  ~sess[s].stopped => s = current \/ \E t \in Thread : pc[t] = "stop" /\ mine[t] = s

\* A session about to be launched has no listener and one launcher.
LaunchesOnce == \A t \in Thread : pc[t] = "launch" =>
  /\ pc[mine[t]] = "off"
  /\ \A u \in Thread : (pc[u] = "launch" /\ mine[u] = mine[t]) => u = t

ListenerInv == Running /\ LaunchesOnce

\* A step that registers, stops and launches no session.
ListenersStayPut ==
  /\ current' = current
  /\ \A s \in Session : sess'[s].stopped = sess[s].stopped
  /\ \A t \in Thread : pc[t] = "stop" => pc'[t] = "stop" /\ mine'[t] = mine[t]
  /\ \A t \in Thread : pc'[t] = "launch" => pc[t] = "launch" /\ mine'[t] = mine[t]
  /\ \A s \in Session : pc[s] = "off" => pc'[s] = "off"

LEMMA StayingPut ==
  ASSUME HasSession, ListenerInv, ListenersStayPut
  PROVE  ListenerInv'
<1>1. Running'
  BY DEF ListenerInv, Running, ListenersStayPut
<1>2. \A t \in Thread : pc[t] = "launch" => mine[t] \in Session
  BY DEF HasSession, Using
<1>3. LaunchesOnce'
  BY <1>2 DEF ListenerInv, LaunchesOnce, ListenersStayPut
<1> QED BY <1>1, <1>3 DEF ListenerInv

\* Workers are not sessions.
LEMMA WorkersApart ==
  /\ \A w \in Worker : w \in Thread /\ w \notin Session
  /\ Session \subseteq Thread
BY SessionAssumption DEF Thread

LEMMA MostStayPut ==
  ASSUME TypeOK, HasSession,
         \/ LoopRead \/ LoopStart \/ LoopDispatch \/ DueElapses
         \/ PollBegin \/ CommitStep \/ WorldBegin \/ WorldStep
         \/ DisconnectAccount \/ LoginConnect \/ LoginWake \/ SyncNow
         \/ UpstreamExpires
  PROVE  ListenersStayPut
<1> USE WorkersApart DEF TypeOK, PcOK, MineOK, Goto, Leave, ListenersStayPut,
        store, manager, threads, Worker
<1>1. CASE LoopRead \/ LoopStart \/ DueElapses
  BY <1>1 DEF LoopRead, LoopStart, DueElapses
<1>2. CASE LoopDispatch
  BY <1>2 DEF LoopDispatch
<1>3. CASE PollBegin \/ CommitStep
  BY <1>3 DEF PollBegin, CommitStep, PollCheck, PollIngest, PollRefused
<1>4. CASE WorldBegin \/ WorldLookup \/ WorldCheck
  BY <1>4 DEF WorldBegin, WorldLookup, WorldCheck
<1>5. CASE WorldStart
  BY <1>5 DEF WorldStart, StartFoundExisting, StartAbandoned
<1>6. CASE DisconnectAccount \/ LoginConnect \/ LoginWake
  BY <1>6 DEF DisconnectAccount, LoginConnect, LoginWake, Wake
<1>7. CASE SyncNow \/ UpstreamExpires
  BY <1>7 DEF SyncNow, Wake, UpstreamExpires
<1> QED BY <1>1, <1>2, <1>3, <1>4, <1>5, <1>6, <1>7 DEF WorldStep

LEMMA CallersStayPut ==
  ASSUME TypeOK, HasSession, NEW t \in Caller, RequestEnds(t) \/ PersistStep(t)
  PROVE  ListenersStayPut
<1>1. t \in Thread /\ t \notin Session
  BY WorkersApart DEF Worker, Caller
<1>2. mine[t] \in Session
  BY <1>1 DEF RequestEnds, RequestServed, RequestRejected, RequestFailed,
     PersistStep, PersistCheck, PersistWrite, PersistNote, HasSession, Using
<1>3. sess \in [Session -> SessionObject]
  BY DEF TypeOK, SessOK
<1> USE WorkersApart DEF TypeOK, PcOK, MineOK, Goto, Leave, ListenersStayPut,
        store, manager
<1>4. CASE RequestServed(t)
  BY <1>1, <1>2, <1>3, <1>4, RotationOnly DEF RequestServed
<1>5. CASE RequestRejected(t)
  BY <1>1, <1>5 DEF RequestRejected
<1>6. CASE RequestFailed(t)
  BY <1>1, <1>2, <1>3, <1>6, RotationOnly DEF RequestFailed
<1>7. CASE PersistCheck(t)
  BY <1>1, <1>7 DEF PersistCheck, AfterPersist
<1>8. CASE PersistWrite(t)
  BY <1>1, <1>8 DEF PersistWrite
<1>9. CASE PersistNote(t)
  BY <1>1, <1>3, <1>9 DEF PersistNote, AfterPersist, SessionObject
<1> QED BY <1>4, <1>5, <1>6, <1>7, <1>8, <1>9 DEF RequestEnds, PersistStep

LEMMA ListenersOwnSteps ==
  ASSUME TypeOK, NEW t \in Session \cup {"poll"},
         Schedule(t) \/ (t \in Session /\ PipelineStep(t))
  PROVE  ListenersStayPut
<1>1. t \in Thread
  BY WorkersApart DEF Worker
<1> USE WorkersApart DEF TypeOK, PcOK, MineOK, Goto, Leave, ListenersStayPut,
        store, manager
<1>2. CASE Schedule(t)
  BY <1>1, <1>2 DEF Schedule
<1>3. CASE t \in Session /\ PipelineStep(t)
  BY <1>1, <1>3 DEF PipelineStep, PipelineRejected, PipelineThrottled,
     PipelineEnds
<1> QED BY <1>2, <1>3


\* The steps that take a session out, install one, launch its listener or stop it.
LEMMA ReconcileKeeps ==
  ASSUME TypeOK, HasSession, ListenerInv, LoopReconcile
  PROVE  ListenerInv'
<1>1. "loop" \in Thread /\ "loop" \notin Session
  BY WorkersApart DEF Worker
<1>2. pc["loop"] = "reconcile" /\ sess' = sess
  BY DEF LoopReconcile
<1>3. \A t \in Thread : t # "loop" => pc'[t] = pc[t] /\ mine'[t] = mine[t]
  BY DEF LoopReconcile, Goto, TypeOK, PcOK, MineOK
<1>4. pc'["loop"] \in {"stop", "start"}
  BY <1>1 DEF LoopReconcile, Goto, TypeOK, PcOK
<1>5. \/ current' = current
      \/ pc'["loop"] = "stop" /\ mine'["loop"] = current
  BY <1>1 DEF LoopReconcile, Goto, TypeOK, PcOK, MineOK
<1>6. Running'
  <2> SUFFICES ASSUME NEW s \in Session, ~sess'[s].stopped
               PROVE  s = current' \/ \E t \in Thread : pc'[t] = "stop" /\ mine'[t] = s
    BY DEF Running
  <2>1. CASE s = current
    BY <1>1, <1>5, <2>1
  <2>2. CASE \E t \in Thread : pc[t] = "stop" /\ mine[t] = s
    BY <1>2, <1>3, <2>2
  <2> QED BY <1>2, <2>1, <2>2 DEF ListenerInv, Running
<1>7. LaunchesOnce'
  <2>1. \A t \in Thread : pc'[t] = "launch" =>
          t # "loop" /\ pc[t] = "launch" /\ mine'[t] = mine[t]
    BY <1>3, <1>4
  <2>2. \A t \in Thread : pc[t] = "off" => pc'[t] = "off"
    BY <1>2, <1>3
  <2>3. \A t \in Thread : pc[t] = "launch" => mine[t] \in Thread
    BY WorkersApart DEF HasSession, Using
  <2> QED BY <2>1, <2>2, <2>3 DEF ListenerInv, LaunchesOnce
<1> QED BY <1>6, <1>7 DEF ListenerInv

LEMMA InstallKeeps ==
  ASSUME TypeOK, HasSession, ListenerInv, NEW t \in {"loop", "world"},
         StartInstall(t)
  PROVE  ListenerInv'
<1>1. t \in Thread /\ t \notin Session
  BY WorkersApart DEF Worker
<1>2. CASE blocked \/ current # NoSession
  <2>1. ListenersStayPut
    BY <1>1, <1>2, WorkersApart DEF TypeOK, PcOK, MineOK, StartInstall, Installed,
       StartAbandoned,
       StartFoundExisting, Goto, ListenersStayPut
  <2> QED BY <2>1, StayingPut
<1>3. CASE ~blocked /\ current = NoSession
  <2>1. PICK s \in Session :
          /\ Garbage(s)
          /\ current' = s
          /\ sess' = [sess EXCEPT ![s] =
               [cookie |-> held[t].cookie, persisted |-> held[t].cookie,
                rev |-> held[t].rev, stopped |-> FALSE]]
          /\ mine' = [mine EXCEPT ![t] = s]
    BY <1>3 DEF StartInstall, Installed
  <2>2. pc[t] = "install" /\ pc' = [pc EXCEPT ![t] = "launch"]
    BY <1>3 DEF StartInstall, Goto, Installed
  <2>3. /\ \A u \in Session : u # s => sess'[u] = sess[u]
        /\ \A u \in Thread : u # t => pc'[u] = pc[u] /\ mine'[u] = mine[u]
        /\ pc'[t] = "launch" /\ mine'[t] = s
    BY <1>1, <2>1, <2>2 DEF TypeOK, SessOK, PcOK, MineOK
  <2>4. Running'
    BY <1>3, <2>1, <2>2, <2>3, SessionAssumption DEF ListenerInv, Running
  <2>5. s \in Thread /\ s # t /\ pc[s] = "off" /\ \A u \in Thread : mine[u] # s
    BY <1>1, <2>1, WorkersApart DEF Garbage
  <2>6. \A u \in Thread : pc[u] = "launch" => mine[u] \in Session
    BY DEF HasSession, Using
  <2>7. LaunchesOnce'
    <3> SUFFICES ASSUME NEW u \in Thread, pc'[u] = "launch"
                 PROVE  /\ pc'[mine'[u]] = "off"
                        /\ \A v \in Thread :
                             (pc'[v] = "launch" /\ mine'[v] = mine'[u]) => v = u
      BY DEF LaunchesOnce
    <3>1. CASE u = t
      BY <2>3, <2>5, <3>1
    <3>2. CASE u # t
      <4>1. pc[u] = "launch" /\ mine'[u] = mine[u] /\ mine[u] \in Session
        BY <2>3, <2>6, <3>2
      <4>2. mine[u] # s /\ mine[u] # t /\ mine[u] \in Thread
        BY <1>1, <2>5, <4>1, WorkersApart
      <4>3. pc'[mine'[u]] = "off"
        BY <2>3, <4>1, <4>2 DEF ListenerInv, LaunchesOnce
      <4>4. ASSUME NEW v \in Thread, pc'[v] = "launch", mine'[v] = mine'[u]
            PROVE  v = u
        <5>1. v # t
          BY <2>3, <4>1, <4>2, <4>4
        <5> QED BY <2>3, <4>1, <4>4, <5>1 DEF ListenerInv, LaunchesOnce
      <4> QED BY <4>3, <4>4
    <3> QED BY <3>1, <3>2
  <2> QED BY <2>4, <2>7 DEF ListenerInv
<1> QED BY <1>2, <1>3

LEMMA LaunchKeeps ==
  ASSUME TypeOK, HasSession, ListenerInv, NEW t \in {"loop", "world"},
         StartLaunch(t)
  PROVE  ListenerInv'
<1>1. t \in Thread /\ t \notin Session
  BY WorkersApart DEF Worker
<1>2. pc[t] = "launch" /\ current' = current /\ sess' = sess
  BY DEF StartLaunch
<1>3. \A u \in Thread : pc[u] = "launch" => mine[u] \in Session
  BY DEF HasSession, Using
<1>4. mine[t] \in Session /\ pc[mine[t]] = "off"
  BY <1>1, <1>2, <1>3 DEF ListenerInv, LaunchesOnce
<1>5. /\ \A u \in Thread \ {t, mine[t]} : pc'[u] = pc[u]
      /\ \A u \in Thread \ {t} : mine'[u] = mine[u]
      /\ pc'[t] \in {"dispatch", "check"} /\ pc'[mine[t]] = "on"
  BY <1>1, <1>4, WorkersApart DEF StartLaunch, TypeOK, PcOK, MineOK
<1>6. Running'
  <2> SUFFICES ASSUME NEW s \in Session, ~sess'[s].stopped
               PROVE  s = current' \/ \E u \in Thread : pc'[u] = "stop" /\ mine'[u] = s
    BY DEF Running
  <2>1. CASE s = current
    BY <1>2, <2>1
  <2>2. CASE \E u \in Thread : pc[u] = "stop" /\ mine[u] = s
    BY <1>2, <1>4, <1>5, <2>2
  <2> QED BY <1>2, <2>1, <2>2 DEF ListenerInv, Running
<1>7. LaunchesOnce'
  <2> SUFFICES ASSUME NEW u \in Thread, pc'[u] = "launch"
               PROVE  /\ pc'[mine'[u]] = "off"
                      /\ \A v \in Thread :
                           (pc'[v] = "launch" /\ mine'[v] = mine'[u]) => v = u
    BY DEF LaunchesOnce
  <2>1. u # t /\ u # mine[t] /\ pc[u] = "launch" /\ mine'[u] = mine[u]
    BY <1>5
  <2>2. mine[u] \in Session /\ mine[u] # mine[t] /\ mine[u] # t
    BY <1>1, <1>2, <1>3, <2>1 DEF ListenerInv, LaunchesOnce
  <2>3. pc'[mine'[u]] = "off"
    BY <1>5, <2>1, <2>2, WorkersApart DEF ListenerInv, LaunchesOnce
  <2>4. ASSUME NEW v \in Thread, pc'[v] = "launch", mine'[v] = mine'[u]
        PROVE  v = u
    <3>1. v # t /\ pc[v] = "launch" /\ mine'[v] = mine[v]
      BY <1>5, <2>4
    <3> QED BY <2>1, <2>4, <3>1 DEF ListenerInv, LaunchesOnce
  <2> QED BY <2>3, <2>4
<1> QED BY <1>6, <1>7 DEF ListenerInv

LEMMA WayOutKeeps ==
  ASSUME TypeOK, HasSession, ListenerInv, NEW t \in Thread, WayOut(t)
  PROVE  ListenerInv'
<1>1. pc \in [Thread -> Label] /\ mine \in [Thread -> Session \cup {NoSession}]
  BY DEF TypeOK, PcOK, MineOK
<1>2. /\ pc[t] \in {"mark", "drop", "stop"}
      /\ \A u \in Thread : u # t => pc'[u] = pc[u] /\ mine'[u] = mine[u]
  BY <1>1 DEF WayOut, MarkReconnect, DropSession, StopSession, Goto
<1>3. pc'[t] \in {"drop", "stop", "start", "off", "idle"}
  BY <1>1 DEF WayOut, MarkReconnect, DropSession, StopSession, Goto
<1>4. \A u \in Thread : pc[u] = "launch" => mine[u] \in Thread
  BY WorkersApart DEF HasSession, Using
<1>5. LaunchesOnce'
  <2>1. \A u \in Thread : pc'[u] = "launch" =>
          u # t /\ pc[u] = "launch" /\ mine'[u] = mine[u]
    BY <1>2, <1>3
  <2>2. \A u \in Thread : pc[u] = "off" => pc'[u] = "off"
    BY <1>2
  <2> QED BY <1>4, <2>1, <2>2 DEF ListenerInv, LaunchesOnce
<1>6. CASE MarkReconnect(t)
  <2>1. current' = current /\ sess' = sess /\ mine' = mine /\ pc[t] = "mark"
    BY <1>6 DEF MarkReconnect, manager
  <2> QED BY <1>2, <1>5, <2>1 DEF ListenerInv, Running
<1>7. CASE DropSession(t)
  <2>1. sess' = sess /\ pc[t] = "drop" /\ pc'[t] = "stop" /\ mine'[t] = current
    BY <1>1, <1>7 DEF DropSession, Goto
  <2> QED BY <1>2, <1>5, <2>1 DEF ListenerInv, Running
<1>8. CASE StopSession(t)
  <2>1. current' = current
    BY <1>8 DEF StopSession, manager
  <2>2. \A s \in Session : ~sess'[s].stopped => ~sess[s].stopped /\ s # mine[t]
    BY <1>8 DEF StopSession, TypeOK, SessOK, SessionObject
  <2> QED BY <1>2, <1>5, <2>1, <2>2 DEF ListenerInv, Running
<1> QED BY <1>6, <1>7, <1>8 DEF WayOut

\* Every listener still running is the registered session's, or is about to be
\* stopped by the thread that took its session out.
THEOREM ListenersSafe == Spec => []NoOrphanListener
<1>1. Init => ListenerInv
  BY DEF Init, ListenerInv, Running, LaunchesOnce, DeadSession, Parked
<1>2. TypeOK /\ HasSession /\ ListenerInv /\ [Next]_vars => ListenerInv'
  <2> SUFFICES ASSUME TypeOK, HasSession, ListenerInv, [Next]_vars
               PROVE  ListenerInv'
    OBVIOUS
  <2>1. CASE LoopStep \/ DueElapses
    BY <2>1, MostStayPut, StayingPut, ReconcileKeeps DEF LoopStep
  <2>2. ASSUME NEW t \in {"loop", "world"}, StartStep(t)
        PROVE  ListenerInv'
    <3>1. CASE StartReadCookie(t)
      <4>1. t \in Thread /\ t \notin Session
        BY WorkersApart DEF Worker
      <4>2. ListenersStayPut
        BY <3>1, <4>1, WorkersApart DEF StartReadCookie, StartAbandoned, Goto,
           ListenersStayPut, TypeOK, PcOK, MineOK, manager
      <4> QED BY <4>2, StayingPut
    <3> QED BY <2>2, <3>1, InstallKeeps, LaunchKeeps DEF StartStep
  <2>3. CASE PollBegin \/ CommitStep \/ WorldBegin \/ WorldStep
    BY <2>3, MostStayPut, StayingPut
  <2>4. ASSUME NEW t \in Caller, RequestEnds(t) \/ PersistStep(t)
        PROVE  ListenerInv'
    BY <2>4, CallersStayPut, StayingPut
  <2>5. ASSUME NEW t \in Session \cup {"poll"},
               Schedule(t) \/ (t \in Session /\ PipelineStep(t))
        PROVE  ListenerInv'
    BY <2>5, ListenersOwnSteps, StayingPut
  <2>6. ASSUME NEW t \in Thread, WayOut(t)
        PROVE  ListenerInv'
    BY <2>6, WayOutKeeps
  <2>7. CASE \/ DisconnectAccount \/ LoginConnect \/ LoginWake \/ SyncNow
             \/ UpstreamExpires
    BY <2>7, MostStayPut, StayingPut
  <2>8. CASE Restart
    BY <2>8 DEF Restart, ListenerInv, Running, LaunchesOnce, DeadSession, Parked
  <2>9. CASE UNCHANGED vars
    BY <2>9 DEF vars, ListenerInv, Running, LaunchesOnce
  <2> QED
    BY <2>1, <2>2, <2>3, <2>4, <2>5, <2>6, <2>7, <2>8, <2>9 DEF Next
<1>3. ListenerInv => NoOrphanListener
  BY DEF ListenerInv, Running, NoOrphanListener
<1> QED BY <1>1, <1>2, <1>3, TypeCorrect, PTL DEF Spec

-----------------------------------------------------------------------------
(* A signed-out account stores no credential                                *)

\* A row that is neither active nor awaiting its first login has no cookie:
\* every step that leaves "active" clears the column, and every step that
\* fills the column enters "active".
LEMMA StoredStep ==
  ASSUME TypeOK, InactiveStoresNoCredential, [Next]_vars
  PROVE  InactiveStoresNoCredential'
<1>1. account \in Account
  BY DEF TypeOK, StoreOK
<1> USE DEF InactiveStoresNoCredential, store, threads
<1>2. CASE LoopStep \/ DueElapses
  BY <1>2 DEF LoopStep, LoopRead, LoopReconcile, LoopStart, LoopDispatch,
     DueElapses
<1>3. ASSUME NEW t \in {"loop", "world"}, StartStep(t)
      PROVE  InactiveStoresNoCredential'
  BY <1>3 DEF StartStep, StartReadCookie, StartInstall, Installed,
     StartLaunch
<1>4. CASE PollBegin \/ CommitStep \/ WorldBegin \/ WorldStep
  BY <1>1, <1>4 DEF PollBegin, CommitStep, PollCheck, PollIngest, PollRefused,
     WorldBegin, WorldStep,
     WorldLookup, WorldStart, WorldCheck, Account
<1>5. ASSUME NEW t \in Caller, RequestEnds(t) \/ PersistStep(t)
      PROVE  InactiveStoresNoCredential'
  BY <1>5 DEF RequestEnds, RequestServed, RequestRejected, RequestFailed,
     PersistStep, PersistCheck, PersistWrite, PersistNote
<1>6. ASSUME NEW t \in Session \cup {"poll"},
             Schedule(t) \/ (t \in Session /\ PipelineStep(t))
      PROVE  InactiveStoresNoCredential'
  BY <1>6 DEF Schedule, PipelineStep, PipelineRejected, PipelineThrottled,
     PipelineEnds
<1>7. ASSUME NEW t \in Thread, WayOut(t)
      PROVE  InactiveStoresNoCredential'
  BY <1>1, <1>7 DEF WayOut, MarkReconnect, DropSession, StopSession, Account
<1>8. CASE DisconnectAccount
  BY <1>1, <1>8 DEF DisconnectAccount, Account
<1>9. CASE LoginConnect
  BY <1>9 DEF LoginConnect
<1>10. CASE LoginWake \/ SyncNow \/ UpstreamExpires \/ Restart
  BY <1>10 DEF LoginWake, SyncNow, UpstreamExpires, Restart
<1>11. CASE UNCHANGED vars
  BY <1>11 DEF vars
<1> QED BY <1>2, <1>3, <1>4, <1>5, <1>6, <1>7, <1>8, <1>9,
       <1>10, <1>11 DEF Next

\* A rotation, a rejection or a disconnect that meet leave no credential with
\* an account that is signed out.
THEOREM SignedOutStoresNothing == Spec => []InactiveStoresNoCredential
<1>1. Init => InactiveStoresNoCredential
  BY DEF Init, InactiveStoresNoCredential
<1> QED BY <1>1, StoredStep, TypeCorrect, PTL DEF Spec

-----------------------------------------------------------------------------
(* What has stopped stays stopped                                           *)

\* A thread that is about to install a session has read a credential.
InstallHasCookie ==
  \A t \in Thread : pc[t] = "install" => held[t].cookie # NoCookie

LEMMA InstallCookieStep ==
  ASSUME TypeOK, InstallHasCookie, [Next]_vars
  PROVE  InstallHasCookie'
<1>1. /\ pc \in [Thread -> Label]
      /\ held \in [Thread -> Held]
  BY DEF TypeOK, PcOK, HeldOK
<1> USE <1>1, WorkersApart DEF InstallHasCookie, store, manager, threads, Goto,
        Leave, Held, Worker
<1>2. CASE LoopStep \/ DueElapses
  BY <1>2 DEF LoopStep, LoopRead, LoopReconcile, LoopStart, LoopDispatch,
     DueElapses
<1>3. ASSUME NEW t \in {"loop", "world"}, StartReadCookie(t)
      PROVE  InstallHasCookie'
  BY <1>3 DEF StartReadCookie, StartAbandoned, Usable
<1>4. ASSUME NEW t \in {"loop", "world"}, StartInstall(t) \/ StartLaunch(t)
      PROVE  InstallHasCookie'
  BY <1>4 DEF StartInstall, Installed, StartLaunch, StartAbandoned,
     StartFoundExisting
<1>5. CASE PollBegin \/ CommitStep
  BY <1>5 DEF PollBegin, CommitStep, PollCheck, PollIngest, PollRefused
<1>6. CASE WorldBegin \/ WorldStep
  BY <1>6 DEF WorldBegin, WorldStep, WorldLookup, WorldStart, WorldCheck,
     StartAbandoned, StartFoundExisting
<1>7. ASSUME NEW t \in Caller, RequestEnds(t) \/ PersistStep(t)
      PROVE  InstallHasCookie'
  BY <1>7 DEF RequestEnds, RequestServed, RequestRejected, RequestFailed,
     PersistStep, PersistCheck, PersistWrite, PersistNote, AfterPersist, Caller
<1>8. ASSUME NEW t \in Session \cup {"poll"},
             Schedule(t) \/ (t \in Session /\ PipelineStep(t))
      PROVE  InstallHasCookie'
  BY <1>8 DEF Schedule, PipelineStep, PipelineRejected, PipelineThrottled,
     PipelineEnds
<1>9. ASSUME NEW t \in Thread, WayOut(t)
      PROVE  InstallHasCookie'
  BY <1>9 DEF WayOut, MarkReconnect, DropSession, StopSession
<1>10. CASE \/ DisconnectAccount \/ LoginConnect \/ LoginWake \/ SyncNow
            \/ UpstreamExpires
  BY <1>10 DEF DisconnectAccount, LoginConnect, LoginWake, SyncNow,
     UpstreamExpires
<1>11. CASE Restart
  BY <1>11 DEF Restart, Parked
<1>12. CASE UNCHANGED vars
  BY <1>12 DEF vars
<1> QED
  BY <1>2, <1>3, <1>4, <1>5, <1>6, <1>7, <1>8, <1>9, <1>10, <1>11, <1>12
  DEF Next, StartStep

\* At rest no thread is where a session is needed, so a step leaves rest only
\* by storing the credential of a new login.
LEMMA RestStep ==
  ASSUME TypeOK, HasSession, InstallHasCookie, AtRest, [Next]_vars
  PROVE  AtRest' \/ logins' > logins
<1>1. /\ \A t \in Caller : t \in Thread /\ t \notin Session /\ pc[t] \notin Using
      /\ \A t \in Thread : pc[t] # "install"
  BY WorkersApart, SessionAssumption DEF HasSession, InstallHasCookie, AtRest,
     Caller, Worker
<1>2. /\ held \in [Thread -> Held]
      /\ mine \in [Thread -> Session \cup {NoSession}]
      /\ account \in Account
      /\ logins \in Nat
  BY DEF TypeOK, HeldOK, MineOK, StoreOK
<1> USE WorkersApart DEF AtRest, store, manager, threads, Leave, Held, Worker,
        Caller, EmptyHeld
<1>3. CASE LoopStep \/ DueElapses
  BY <1>2, <1>3 DEF LoopStep, LoopRead, LoopReconcile, LoopStart, LoopDispatch,
     DueElapses
<1>4. ASSUME NEW t \in {"loop", "world"}, StartStep(t)
      PROVE  AtRest'
  <2>1. ~StartInstall(t)
    BY <1>1 DEF StartInstall
  <2>2. CASE StartReadCookie(t)
    BY <1>2, <2>2 DEF StartReadCookie, StartAbandoned, Usable
  <2>3. CASE StartLaunch(t)
    BY <1>1, <1>2, <2>3 DEF StartLaunch, Using
  <2> QED BY <1>4, <2>1, <2>2, <2>3 DEF StartStep
<1>5. ~(PollBegin \/ CommitStep \/ WorldCheck)
  BY <1>1 DEF PollBegin, CommitStep, PollCheck, PollIngest, PollRefused,
     WorldCheck, Using
<1>6. CASE WorldBegin \/ WorldStep
  BY <1>2, <1>5, <1>6 DEF WorldBegin, WorldStep, WorldLookup, WorldStart,
     StartAbandoned, StartFoundExisting, Usable
<1>7. \A t \in Caller : ~(RequestEnds(t) \/ PersistStep(t))
  BY <1>1 DEF RequestEnds, RequestServed, RequestRejected, RequestFailed,
     PersistStep, PersistCheck, PersistWrite, PersistNote, Using
<1>8. ASSUME NEW t \in Session \cup {"poll"},
             Schedule(t) \/ (t \in Session /\ PipelineStep(t))
      PROVE  AtRest'
  BY <1>2, <1>8 DEF Schedule, PipelineStep, PipelineRejected,
     PipelineThrottled, PipelineEnds
<1>9. ASSUME NEW t \in Thread, WayOut(t)
      PROVE  AtRest'
  BY <1>2, <1>9 DEF WayOut, MarkReconnect, DropSession, StopSession, Account
<1>10. CASE DisconnectAccount \/ LoginWake \/ SyncNow \/ UpstreamExpires
  BY <1>2, <1>10 DEF DisconnectAccount, LoginWake, SyncNow, Wake,
     UpstreamExpires, Account
<1>11. CASE LoginConnect
  BY <1>2, <1>11 DEF LoginConnect
<1>12. CASE Restart
  BY <1>12 DEF Restart
<1>13. CASE UNCHANGED vars
  BY <1>13 DEF vars
<1> QED
  BY <1>3, <1>4, <1>5, <1>6, <1>7, <1>8, <1>9, <1>10, <1>11, <1>12, <1>13 DEF Next

\* Once a stop has come to rest, nothing but a login brings a session, a stored
\* credential, a poll or a lookup of the tenant back.
THEOREM StopHolds == Spec => StoppedStaysStopped
<1>1. Init => InstallHasCookie
  BY DEF Init, InstallHasCookie, Parked
<1>2. Spec => []InstallHasCookie
  BY <1>1, InstallCookieStep, TypeCorrect, PTL DEF Spec
<1>3. TypeOK /\ HasSession /\ InstallHasCookie /\ [Next]_vars =>
        [AtRest => AtRest' \/ logins' > logins]_vars
  BY RestStep
<1> QED BY <1>2, <1>3, TypeCorrect, PTL DEF Spec, StoppedStaysStopped

=============================================================================
