------------------------ MODULE OffsiteBackupProofs ------------------------
(***************************************************************************)
(* Proofs about OffsiteBackup for any number of artifacts, parts,          *)
(* attempts and faults.                                                    *)
(***************************************************************************)
EXTENDS OffsiteBackup, FiniteSetTheorems, TLAPS

Fields == {"at", "todo", "newest", "upload", "part", "tries", "fresh"}

Operations == {"create", "part", "complete", "abort", "head"}

\* sync is a record with these fields, and whoever asks late asks something.
Shape ==
  /\ sync = [f \in Fields |-> sync[f]]
  /\ \A request \in late : request.op \in Operations

\* What the uploading process is about to write down is in the bucket already.
SeenIsStored ==
  /\ sync.at = "record" => Current \in bucket
  /\ sync.fresh => Recorded(Newest)

OffsiteInv == Shape /\ SeenIsStored /\ RecordedIsStored

-----------------------------------------------------------------------------
(* The gateway                                                              *)

\* No request takes an object away.
LEMMA ServedGrows ==
  ASSUME NEW request, request.op \in Operations
  PROVE  bucket \subseteq Served(request).bucket
<1>1. CASE request.op = "create"
  <2>1. Served(request) = Created(request.key)
    BY <1>1 DEF Served
  <2> QED BY <2>1 DEF Created, Answer
<1>2. CASE request.op = "part"
  <2>1. Served(request) = PartStored(request.id, request.part)
    BY <1>2 DEF Served
  <2> QED BY <2>1 DEF PartStored, Answer
<1>3. CASE request.op = "complete"
  <2>1. Served(request) = Completed(request.id)
    BY <1>3 DEF Served
  <2> QED BY <2>1 DEF Completed, Answer
<1>4. CASE request.op = "abort"
  <2>1. Served(request) = Aborted(request.id)
    BY <1>4 DEF Served
  <2> QED BY <2>1 DEF Aborted, Answer
<1>5. CASE request.op = "head"
  <2>1. Served(request) = Answer(bucket, uploads, request.key \in bucket, 0)
    BY <1>5 DEF Served
  <2> QED BY <2>1 DEF Answer
<1> QED BY <1>1, <1>2, <1>3, <1>4, <1>5 DEF Operations

LEMMA RequestsAreKnown ==
  ASSUME Asks
  PROVE  Request.op \in Operations
BY DEF Asks, Request, Operations

\* exactObject says whether the object is there.
LEMMA HeadTells ==
  ASSUME sync.at \in {"recover", "verify", "confirm"}
  PROVE  /\ Served(Request).bucket = bucket
         /\ Served(Request).ok = (Request.key \in bucket)
<1>1. Request.op = "head"
  BY DEF Request
<1>2. Served(Request) = Answer(bucket, uploads, Request.key \in bucket, 0)
  BY <1>1 DEF Served
<1> QED BY <1>2 DEF Answer

-----------------------------------------------------------------------------
(* The uploading process                                                    *)

\* A step that leaves the newest artifact and the mark of its upload alone, or
\* gives the pass up.
Keeps ==
  \/ sync' = Idle
  \/ /\ sync' = [f \in Fields |-> sync'[f]]
     /\ sync'.newest = sync.newest /\ sync'.fresh = sync.fresh /\ sync'.todo = sync.todo

LEMMA IdleShape == Idle = [f \in Fields |-> Idle[f]] /\ Idle.at = "idle" /\ ~Idle.fresh
BY DEF Idle, Fields

LEMMA FailsKeeps ==
  ASSUME Shape, Fails
  PROVE  Keeps /\ sync'.at # "record"
<1>1. AfterError(sync.at) \in {"abort", "recover", "idle"}
  BY DEF AfterError
<1>2. CASE AfterError(sync.at) = "idle"
  <2>1. sync' = Idle
    BY <1>2 DEF Fails, Idle
  <2> QED BY <2>1, IdleShape DEF Keeps
<1>3. CASE AfterError(sync.at) # "idle"
  BY <1>1, <1>3 DEF Fails, Keeps, Shape, Fields
<1> QED BY <1>2, <1>3

LEMMA GoesKeeps ==
  ASSUME Shape, NEW place, Goes(place)
  PROVE  Keeps /\ sync'.at = place
BY DEF Goes, Keeps, Shape, Fields

LEMMA ContinueKeeps ==
  ASSUME Shape, Asks, NEW answer, Continue(answer)
  PROVE  /\ Keeps
         /\ sync'.at = "record" => sync.at \in {"recover", "verify"} /\ answer.ok
<1>1. CASE ~answer.ok
  <2>1. Fails
    BY <1>1 DEF Continue
  <2> QED BY <2>1, FailsKeeps
<1>2. CASE sync.at = "create" /\ answer.ok
  <2>1. CASE answer.id = 0
    <3>1. Goes("verify")
      BY <1>2, <2>1 DEF Continue
    <3> QED BY <3>1, GoesKeeps
  <2>2. CASE answer.id # 0
    <3>1. sync' = Opens(Current.artifact \in disk, answer.id)
      BY <1>2, <2>2 DEF Continue
    <3> QED BY <3>1 DEF Opens, Keeps, Shape, Fields
  <2> QED BY <2>1, <2>2
<1>3. CASE sync.at = "part" /\ answer.ok
  <2>1. CASE sync.part < Parts
    <3>1. sync' = [sync EXCEPT !.part = @ + 1, !.tries = 0]
      BY <1>3, <2>1 DEF Continue
    <3> QED BY <1>3, <3>1 DEF Keeps, Shape, Fields
  <2>2. CASE ~(sync.part < Parts)
    <3>1. Goes("complete")
      BY <1>3, <2>2 DEF Continue
    <3> QED BY <3>1, GoesKeeps
  <2> QED BY <2>1, <2>2
<1>4. CASE sync.at = "complete" /\ answer.ok
  <2>1. Goes("verify")
    BY <1>4 DEF Continue
  <2> QED BY <2>1, GoesKeeps
<1>5. CASE sync.at \in {"recover", "verify"} /\ answer.ok
  <2>1. Goes("record")
    BY <1>5 DEF Continue
  <2> QED BY <1>5, <2>1, GoesKeeps
<1>6. CASE sync.at \in {"abort", "confirm"} /\ answer.ok
  <2>1. sync' = Idle
    BY <1>6 DEF Continue
  <2> QED BY <2>1, IdleShape DEF Keeps
<1> QED BY <1>1, <1>2, <1>3, <1>4, <1>5, <1>6 DEF Asks

-----------------------------------------------------------------------------
(* The invariant                                                            *)

\* While the record and the marker stay and the bucket only grows, a step that
\* keeps what was seen keeps the invariant, if what it goes on to record is there.
LEMMA Carried ==
  ASSUME OffsiteInv, Keeps, record' = record, success' = success, bucket \subseteq bucket',
         \A request \in late' : request.op \in Operations,
         sync'.at = "record" => Current \in bucket'
  PROVE  OffsiteInv'
<1>1. CASE sync' = Idle
  BY <1>1, IdleShape DEF OffsiteInv, Shape, SeenIsStored, RecordedIsStored
<1>2. CASE sync' # Idle
  <2>1. Newest' = Newest /\ Current' = Current
    BY <1>2 DEF Keeps, Newest, KeyOf, Current
  <2>2. Recorded(Newest)' = Recorded(Newest)
    BY <2>1 DEF Recorded, Alike, Marker
  <2> HIDE DEF Recorded, Newest, Current
  <2> QED BY <1>2, <2>1, <2>2 DEF OffsiteInv, Shape, SeenIsStored, RecordedIsStored, Keeps
<1> QED BY <1>1, <1>2

\* The recorded key of a digest that is recorded
LEMMA RecordOfIs ==
  ASSUME NEW key, Recorded(key)
  PROVE  RecordOf(key) \in record
BY DEF Recorded, RecordOf

LEMMA OffsiteInit == Init => OffsiteInv
BY IdleShape DEF Init, OffsiteInv, Shape, SeenIsStored, RecordedIsStored

LEMMA OffsiteNext == OffsiteInv /\ [Next]_vars => OffsiteInv'
<1> SUFFICES ASSUME OffsiteInv, [Next]_vars
             PROVE  OffsiteInv'
  OBVIOUS
<1>0. Shape
  BY DEF OffsiteInv
<1>1. CASE Start
  <2> DEFINE last == CHOOSE a \in disk : \A b \in disk : b <= a
  <2>0. sync' = [Idle EXCEPT !.at = "next", !.todo = Wanted(disk), !.newest = last]
    BY <1>1 DEF Start
  <2> HIDE DEF last
  <2>1. sync' = [f \in Fields |-> sync'[f]] /\ sync'.at = "next" /\ sync'.fresh = FALSE
    BY <2>0 DEF Idle, Fields
  <2>2. late' = late
    BY <1>1 DEF Start
  <2>3. Shape' /\ SeenIsStored'
    BY <1>0, <2>1, <2>2 DEF Shape, SeenIsStored
  <2> QED BY <1>1, <2>3 DEF OffsiteInv, RecordedIsStored, Start
<1>2. CASE TakeNext
  <2>1. /\ sync' = [f \in Fields |-> sync'[f]] /\ sync'.at # "record"
        /\ sync'.fresh => sync.fresh /\ sync'.newest = sync.newest
    <3>1. CASE sync.todo = <<>>
      BY <1>0, <1>2, <3>1 DEF TakeNext, Shape, Fields
    <3>2. CASE sync.todo # <<>> /\ Recorded(Current)
      BY <1>0, <1>2, <3>2 DEF TakeNext, Shape, Fields
    <3>3. CASE sync.todo # <<>> /\ ~Recorded(Current) /\ Current.artifact \in disk \ bad
      BY <1>0, <1>2, <3>3 DEF TakeNext, Shape, Fields
    <3>4. CASE sync.todo # <<>> /\ ~Recorded(Current) /\ Current.artifact \notin disk \ bad
      BY <1>0, <1>2, <3>4, IdleShape DEF TakeNext
    <3> QED BY <3>1, <3>2, <3>3, <3>4
  <2>2. UNCHANGED <<bucket, late, record, success>>
    BY <1>2 DEF TakeNext
  <2>3. sync'.fresh => sync.fresh /\ Recorded(Newest)' = Recorded(Newest)
    BY <2>1, <2>2 DEF Recorded, Alike, Marker, Newest, KeyOf
  <2> QED BY <2>1, <2>2, <2>3 DEF OffsiteInv, Shape, SeenIsStored, RecordedIsStored
<1>3. CASE Exchange
  <2>1. /\ bucket' = Served(Request).bucket /\ Continue(Served(Request)) /\ Asks
        /\ late' = late /\ record' = record
        /\ success' = IF sync.at = "confirm" /\ Served(Request).ok /\ Request.key = Newest
                      THEN {Newest} ELSE success
    BY <1>3 DEF Exchange
  <2>2. bucket \subseteq bucket'
    BY <2>1, RequestsAreKnown, ServedGrows
  <2>3. /\ Keeps
        /\ sync'.at = "record" => sync.at \in {"recover", "verify"} /\ Served(Request).ok
    BY <1>0, <2>1, ContinueKeeps
  <2>4. sync'.at = "record" => Current \in bucket'
    <3> SUFFICES ASSUME sync'.at = "record"
                 PROVE  Current \in bucket'
      OBVIOUS
    <3>1. sync.at \in {"recover", "verify"} /\ Served(Request).ok
      BY <2>3
    <3>2. Request.key = Current
      BY <3>1 DEF Request
    <3> QED BY <2>1, <3>1, <3>2, HeadTells
  <2>5. CASE sync.at = "confirm" /\ Served(Request).ok /\ Request.key = Newest
    <3>1. success' = {Newest} /\ Newest \in bucket'
      BY <2>1, <2>5, HeadTells
    <3>2. sync' = Idle
      BY <2>1, <2>5 DEF Continue
    <3>3. Shape' /\ SeenIsStored'
      BY <1>0, <2>1, <3>2, IdleShape DEF Shape, SeenIsStored
    <3> HIDE DEF Newest
    <3> QED BY <2>1, <2>2, <3>1, <3>3 DEF OffsiteInv, RecordedIsStored
  <2>6. CASE ~(sync.at = "confirm" /\ Served(Request).ok /\ Request.key = Newest)
    <3>1. success' = success
      BY <2>1, <2>6
    <3> QED BY <1>0, <2>1, <2>2, <2>3, <2>4, <3>1, Carried DEF Shape
  <2> QED BY <2>5, <2>6
<1>4. CASE Lose
  <2>1. Asks /\ record' = record /\ success' = success
    BY <1>4 DEF Lose
  <2>2. bucket \subseteq bucket'
    BY <1>4, RequestsAreKnown, ServedGrows DEF Lose
  <2>3. \A request \in late' : request.op \in Operations
    BY <1>0, <1>4, <2>1, RequestsAreKnown DEF Lose, Shape
  <2>4. CASE sync.tries + 1 < Attempts
    <3>1. sync' = [sync EXCEPT !.tries = @ + 1]
      BY <1>4, <2>4 DEF Lose
    <3>2. Keeps /\ sync'.at = sync.at
      BY <1>0, <3>1 DEF Keeps, Shape, Fields
    <3> QED BY <2>1, <2>2, <2>3, <3>2, Carried DEF Asks
  <2>5. CASE ~(sync.tries + 1 < Attempts)
    <3>1. Keeps /\ sync'.at # "record"
      BY <1>0, <1>4, <2>5, FailsKeeps DEF Lose
    <3> QED BY <2>1, <2>2, <2>3, <3>1, Carried
  <2> QED BY <2>4, <2>5
<1>5. CASE Arrive
  <2>1. PICK request \in late :
          late' = late \ {request} /\ bucket' = Served(request).bucket
    BY <1>5 DEF Arrive
  <2>2. bucket \subseteq bucket'
    BY <1>0, <2>1, ServedGrows DEF Shape
  <2>3. UNCHANGED <<record, success, sync>>
    BY <1>5 DEF Arrive
  <2>4. Recorded(Newest)' = Recorded(Newest) /\ Current' = Current
    BY <2>3 DEF Recorded, Alike, Marker, Newest, KeyOf, Current
  <2> HIDE DEF Recorded, Newest, Current
  <2> QED BY <2>1, <2>2, <2>3, <2>4 DEF OffsiteInv, Shape, SeenIsStored, RecordedIsStored
<1>6. CASE Record
  <2>1. /\ Current \in bucket /\ record' = record \cup {Current} /\ bucket' = bucket
        /\ success' = success /\ late' = late
    BY <1>6 DEF Record, OffsiteInv, SeenIsStored
  <2>2. /\ sync' = [f \in Fields |-> sync'[f]] /\ sync'.at = "next"
        /\ sync'.newest = sync.newest
        /\ sync'.fresh = (sync.fresh \/ Alike(Current, Newest))
    BY <1>0, <1>6 DEF Record, Shape, Fields
  <2>3. Newest' = Newest
    BY <2>2 DEF Newest, KeyOf
  <2> HIDE DEF Newest, Current
  <2>4. \A k : Alike(k, Newest)' = Alike(k, Newest)
    BY <2>3 DEF Alike, Marker
  <2>5. sync'.fresh => Recorded(Newest)'
    BY <2>1, <2>2, <2>4 DEF OffsiteInv, SeenIsStored, Recorded
  <2>6. Shape' /\ SeenIsStored'
    BY <1>0, <2>1, <2>2, <2>5 DEF Shape, SeenIsStored
  <2> QED BY <2>1, <2>6 DEF OffsiteInv, RecordedIsStored
<1>7. CASE Finish \/ Confirm
  <2>1. bucket' = bucket /\ late' = late /\ record' = record
    BY <1>7 DEF Finish, Confirm
  <2>2. CASE sync.fresh /\ success' = {RecordOf(Newest)} /\ sync' = Idle
    <3>1. RecordOf(Newest) \in record
      BY <2>2, RecordOfIs DEF OffsiteInv, SeenIsStored
    <3>2. Shape' /\ SeenIsStored'
      BY <1>0, <2>1, <2>2, IdleShape DEF Shape, SeenIsStored
    <3> QED BY <2>1, <2>2, <3>1, <3>2 DEF OffsiteInv, RecordedIsStored
  <2>3. CASE success' = success /\ sync' = Idle
    BY <1>0, <2>1, <2>3, IdleShape, Carried DEF Keeps, Shape
  <2>4. CASE success' = success /\ sync' = [sync EXCEPT !.at = "confirm", !.tries = 0]
    <3>1. Keeps /\ sync'.at = "confirm"
      BY <1>0, <2>4 DEF Keeps, Shape, Fields
    <3> QED BY <1>0, <2>1, <2>4, <3>1, Carried DEF Shape
  <2> QED BY <1>7, <2>2, <2>3, <2>4 DEF Finish, Confirm
<1>8. CASE Crash
  <2>1. /\ sync' = Idle /\ record' = record /\ success' = success /\ bucket' = bucket
        /\ late' = late \cup (IF sync.at \in {"part", "complete", "abort"}
                              THEN {Request} ELSE {})
    BY <1>8 DEF Crash
  <2>2. \A request \in late' : request.op \in Operations
    BY <1>0, <2>1, RequestsAreKnown DEF Shape, Asks
  <2> QED BY <2>1, <2>2, IdleShape, Carried DEF Keeps
<1>9. CASE Make \/ Prune \/ UNCHANGED vars
  <2>1. UNCHANGED <<bucket, late, record, success, sync>>
    BY <1>9 DEF Make, Prune, vars
  <2>2. Recorded(Newest)' = Recorded(Newest) /\ Current' = Current
    BY <2>1 DEF Recorded, Alike, Marker, Newest, KeyOf, Current
  <2> HIDE DEF Recorded, Newest, Current
  <2> QED BY <2>1, <2>2 DEF OffsiteInv, Shape, SeenIsStored, RecordedIsStored
<1> QED BY <1>1, <1>2, <1>3, <1>4, <1>5, <1>6, <1>7, <1>8, <1>9 DEF Next, Uploading

\* What the state file and the marker of success claim is in the bucket
\* (r2_backup.py:477-526: a completion counts once the object was seen).
THEOREM RecordIsTrue == Spec => []RecordedIsStored
<1>1. OffsiteInv => RecordedIsStored
  BY DEF OffsiteInv
<1> QED BY <1>1, OffsiteInit, OffsiteNext, PTL DEF Spec

-----------------------------------------------------------------------------
(* What faults leave behind                                                 *)

\* Places at which an upload is the process's to complete or to give back.
Owning == {"part", "complete", "recover", "abort"}

\* Places at which the object has been seen or is said to be there.
Done == {"verify", "record"}

Owns(i) == i = sync.upload /\ sync.at \in Owning

\* An upload that nobody will close: it is nobody's, or a completion that is late
\* may come before its owner gives it back, and leave an object for it.
Exposed ==
  {i \in DOMAIN uploads : /\ uploads[i].open
                          /\ Owns(i) => \E r \in late : r.op = "complete" /\ r.id = i}

\* An object that is not recorded, nor about to be.
Stray == {k \in bucket : k \notin record /\ ~(sync.at \in Done /\ k = Current)}

Left == {i \in DOMAIN uploads : uploads[i].open /\ ~Owns(i)}
Again == {k \in bucket : \E l \in bucket : Alike(l, k) /\ l.artifact < k.artifact}

UploadFields == {"key", "parts", "open"}

\* The uploads are a sequence of records with a numbered artifact.
Records(u) ==
  /\ \E S : u \in Seq(S)
  /\ \A i \in DOMAIN u : /\ u[i] = [f \in UploadFields |-> u[i][f]]
                         /\ u[i].key.artifact \in Nat /\ u[i].open \in BOOLEAN

Gateway ==
  /\ IsFiniteSet(bucket)
  /\ \A k \in bucket : k.artifact \in Nat
  /\ Records(uploads)
  /\ \A r \in late : r.op \in {"part", "complete", "abort"} /\ r.id \in DOMAIN uploads

\* The key that is worked on has no marker yet, and its upload is for it.
Work ==
  /\ disk \subseteq Nat /\ made \in Nat /\ faults \in Nat
  /\ sync.at \in {"idle", "next", "newest", "confirm", "create"} \cup Owning \cup Done
  /\ sync.at \in {"create"} \cup Owning \cup Done =>
       ~Recorded(Current) /\ Current.artifact \in Nat
  /\ sync.at \in Owning => /\ sync.upload \in DOMAIN uploads
                           /\ uploads[sync.upload].key = Current
  /\ \A k, l \in record : Alike(k, l) => k = l

WasteInv == OffsiteInv /\ Gateway /\ Work

Budget == Cardinality(Exposed) + Cardinality(Stray) <= faults

-----------------------------------------------------------------------------
(* From the budget to the property                                          *)

LEMMA Least ==
  ASSUME NEW T, T \subseteq Nat, T # {}
  PROVE  \E n \in T : \A m \in T : n <= m
<1> DEFINE R == OpToRel(<, Nat)
<1>1. IsWellFoundedOn(R, Nat)
  BY NatLessThanWellFounded
<1>2. \A m, n \in Nat : m < n => <<m, n>> \in R
  BY DEF OpToRel
<1> HIDE DEF R
<1>3. PICK x \in T : \A y \in T : ~(<<y, x>> \in R)
  BY <1>1, WFMin
<1>4. \A y \in T : y \in Nat /\ x \in Nat /\ ~(y < x)
  BY <1>2, <1>3
<1> QED BY <1>3, <1>4

LEMMA Finite ==
  ASSUME Gateway
  PROVE  /\ IsFiniteSet(DOMAIN uploads)
         /\ \A S \in SUBSET DOMAIN uploads : IsFiniteSet(S) /\ Cardinality(S) \in Nat
         /\ \A S \in SUBSET bucket : IsFiniteSet(S) /\ Cardinality(S) \in Nat
<1>1. PICK S : uploads \in Seq(S)
  BY DEF Gateway, Records
<1>2. Len(uploads) \in Nat /\ DOMAIN uploads = 1..Len(uploads)
  BY <1>1
<1>3. IsFiniteSet(DOMAIN uploads)
  BY <1>2, FS_Interval
<1> QED BY <1>3, FS_Subset, FS_CardinalityType DEF Gateway

\* The first copy of a day or a month.
FirstAlike(k) ==
  CHOOSE l \in bucket : Alike(l, k) /\ \A m \in bucket : Alike(m, k) => l.artifact <= m.artifact

LEMMA FirstAlikeExists ==
  ASSUME Gateway, NEW k \in bucket
  PROVE  /\ FirstAlike(k) \in bucket /\ Alike(FirstAlike(k), k)
         /\ \A m \in bucket : Alike(m, k) => FirstAlike(k).artifact <= m.artifact
<1> DEFINE T == {l.artifact : l \in {m \in bucket : Alike(m, k)}}
<1>1. T \subseteq Nat /\ k.artifact \in T
  BY DEF Gateway, Alike
<1>2. PICK n \in T : \A m \in T : n <= m
  BY <1>1, Least
<1>3. PICK l \in bucket : Alike(l, k) /\ l.artifact = n
  BY <1>2
<1>4. \A m \in bucket : Alike(m, k) => l.artifact <= m.artifact
  BY <1>2, <1>3
<1> QED BY <1>3, <1>4 DEF FirstAlike

\* Of the copies under one marker all but one are stray.
LEMMA AgainIsStray ==
  ASSUME WasteInv
  PROVE  Cardinality(Again) <= Cardinality(Stray)
<1> DEFINE f == [k \in Again |-> IF k \in Stray THEN k ELSE FirstAlike(k)]
<1>0. Gateway /\ Work /\ Again \subseteq bucket /\ Stray \subseteq bucket
  BY DEF WasteInv, Again, Stray
<1>1. ASSUME NEW k \in bucket, NEW l \in bucket, Alike(k, l), k \notin Stray, l \notin Stray
      PROVE  k = l
  <2>1. /\ k \in record \/ (sync.at \in Done /\ k = Current)
        /\ l \in record \/ (sync.at \in Done /\ l = Current)
    BY <1>1 DEF Stray
  <2>2. sync.at \in Done => \A m \in record : ~Alike(m, Current) /\ ~Alike(Current, m)
    BY <1>0 DEF Work, Recorded, Alike
  <2> QED BY <1>0, <1>1, <2>1, <2>2 DEF Work
<1>2. ASSUME NEW k \in Again, k \notin Stray
      PROVE  /\ FirstAlike(k) \in Stray /\ FirstAlike(k) \notin Again
             /\ Alike(FirstAlike(k), k)
  <2>1. PICK l \in bucket : Alike(l, k) /\ l.artifact < k.artifact
    BY DEF Again, Alike
  <2>2. /\ FirstAlike(k) \in bucket /\ Alike(FirstAlike(k), k)
        /\ \A m \in bucket : Alike(m, k) => FirstAlike(k).artifact <= m.artifact
    BY <1>0, FirstAlikeExists
  <2>3. FirstAlike(k) # k
    BY <1>0, <2>1, <2>2 DEF Gateway
  <2>4. FirstAlike(k) \in Stray
    BY <1>0, <1>1, <1>2, <2>2, <2>3
  <2>5. FirstAlike(k) \notin Again
    <3> SUFFICES ASSUME NEW m \in bucket, Alike(m, FirstAlike(k)),
                        m.artifact < FirstAlike(k).artifact
                 PROVE  FALSE
      BY DEF Again, Alike
    <3>1. Alike(m, k)
      BY <2>2 DEF Alike
    <3> QED BY <1>0, <2>2, <3>1 DEF Gateway
  <2> QED BY <2>2, <2>4, <2>5
<1>3. f \in [Again -> Stray]
  BY <1>2
<1>4. ASSUME NEW k \in Again, NEW l \in Again, f[k] = f[l]
      PROVE  k = l
  <2>1. CASE k \in Stray /\ l \in Stray
    BY <1>4, <2>1
  <2>2. CASE k \in Stray /\ l \notin Stray
    BY <1>2, <1>4, <2>2
  <2>3. CASE k \notin Stray /\ l \in Stray
    BY <1>2, <1>4, <2>3
  <2>4. CASE k \notin Stray /\ l \notin Stray
    <3>1. FirstAlike(k) = FirstAlike(l)
      BY <1>4, <2>4
    <3>2. Alike(k, l)
      BY <1>2, <2>4, <3>1 DEF Alike
    <3> QED BY <1>0, <1>1, <2>4, <3>2
  <2> QED BY <2>1, <2>2, <2>3, <2>4
<1>5. f \in Injection(Again, Stray)
  <2> HIDE DEF f
  <2> QED BY <1>3, <1>4 DEF Injection, IsInjective
<1>6. IsFiniteSet(Stray)
  BY <1>0, Finite
<1> QED BY <1>5, <1>6, FS_Injection

LEMMA BudgetSuffices ==
  ASSUME WasteInv, Budget
  PROVE  FaultsBoundWaste
<1>1. Left \subseteq Exposed
  BY DEF Left, Exposed
<1>2. Cardinality(Left) <= Cardinality(Exposed)
  BY <1>1, Finite, FS_Subset DEF WasteInv, Exposed
<1>3. Cardinality(Again) <= Cardinality(Stray)
  BY AgainIsStray
<1>4. /\ Cardinality(Left) \in Nat /\ Cardinality(Exposed) \in Nat
      /\ Cardinality(Again) \in Nat /\ Cardinality(Stray) \in Nat /\ faults \in Nat
  BY Finite DEF WasteInv, Work, Left, Exposed, Again, Stray
<1>5. Cardinality(Left) + Cardinality(Again) <= faults
  BY <1>2, <1>3, <1>4 DEF Budget
<1> QED BY <1>5 DEF FaultsBoundWaste, Left, Again, Owns, Owning

-----------------------------------------------------------------------------
(* What a request does to the uploads                                       *)

\* The uploads that were there are for the same keys.
SameUploads ==
  /\ DOMAIN uploads' = DOMAIN uploads
  /\ \A i \in DOMAIN uploads : uploads'[i].key = uploads[i].key

Quiet ==
  /\ bucket' = bucket /\ SameUploads
  /\ \A i \in DOMAIN uploads : uploads'[i].open = uploads[i].open

Closes(i) ==
  /\ bucket' = bucket /\ SameUploads
  /\ \A j \in DOMAIN uploads : uploads'[j].open = (uploads[j].open /\ j # i)

Stores(i) ==
  /\ uploads[i].open /\ bucket' = bucket \cup {uploads[i].key} /\ SameUploads
  /\ \A j \in DOMAIN uploads : uploads'[j].open = (uploads[j].open /\ j # i)

Opened(i, key) ==
  /\ bucket' = bucket /\ i \notin DOMAIN uploads /\ i # 0
  /\ DOMAIN uploads' = DOMAIN uploads \cup {i}
  /\ uploads'[i].key = key /\ uploads'[i].open
  /\ \A j \in DOMAIN uploads : uploads'[j] = uploads[j]

Serves(request) ==
  bucket' = Served(request).bucket /\ uploads' = Served(request).uploads

LEMMA ChangedRecord ==
  ASSUME Records(uploads), NEW i \in DOMAIN uploads, NEW r,
         r = [f \in UploadFields |-> r[f]], r.key = uploads[i].key, r.open \in BOOLEAN,
         uploads' = [uploads EXCEPT ![i] = r]
  PROVE  Records(uploads') /\ SameUploads /\ uploads'[i] = r
<1>1. PICK S : uploads \in Seq(S)
  BY DEF Records
<1>2. uploads \in Seq(S \cup {r})
  BY <1>1
<1>3. uploads' \in Seq(S \cup {r})
  BY <1>2
<1>4. DOMAIN uploads' = DOMAIN uploads
  OBVIOUS
<1>5. \A j \in DOMAIN uploads : uploads'[j] = IF j = i THEN r ELSE uploads[j]
  OBVIOUS
<1> QED BY <1>3, <1>4, <1>5 DEF Records, SameUploads

LEMMA ServedCreate ==
  ASSUME Records(uploads), NEW request, request.op = "create",
         request.key.artifact \in Nat, Serves(request)
  PROVE  /\ Records(uploads')
         /\ Served(request).ok
         /\ IF request.key \in bucket THEN Quiet /\ Served(request).id = 0
            ELSE Opened(Served(request).id, request.key)
<1> DEFINE r == [key |-> request.key, parts |-> {}, open |-> TRUE]
           n == Len(uploads) + 1
<1>1. Served(request) = Created(request.key)
  BY DEF Served
<1>2. CASE request.key \in bucket
  BY <1>1, <1>2 DEF Created, Answer, Serves, Quiet, SameUploads
<1>3. CASE request.key \notin bucket
  <2>1. /\ bucket' = bucket /\ uploads' = Append(uploads, r)
        /\ Served(request).ok /\ Served(request).id = n
    BY <1>1, <1>3 DEF Created, Answer, Serves
  <2>2. r = [f \in UploadFields |-> r[f]] /\ r.key = request.key /\ r.open = TRUE
    BY DEF UploadFields
  <2> HIDE DEF r
  <2>3. PICK S : uploads \in Seq(S)
    BY DEF Records
  <2>4. uploads \in Seq(S \cup {r})
    BY <2>3
  <2>5. uploads' \in Seq(S \cup {r})
    BY <2>1, <2>4
  <2>6. /\ DOMAIN uploads = 1..Len(uploads) /\ Len(uploads) \in Nat
        /\ DOMAIN uploads' = 1..n
    BY <2>1, <2>4
  <2>7. /\ DOMAIN uploads' = DOMAIN uploads \cup {n} /\ n \notin DOMAIN uploads /\ n # 0
    BY <2>6
  <2>8. uploads'[n] = r /\ \A j \in DOMAIN uploads : uploads'[j] = uploads[j]
    BY <2>1, <2>4, <2>6
  <2>9. Records(uploads')
    BY <2>2, <2>5, <2>7, <2>8 DEF Records
  <2> HIDE DEF n
  <2> QED BY <1>3, <2>1, <2>2, <2>7, <2>8, <2>9 DEF Opened
<1> QED BY <1>2, <1>3

LEMMA ServedPart ==
  ASSUME Records(uploads), NEW request, request.op = "part",
         request.id \in DOMAIN uploads, Serves(request)
  PROVE  Records(uploads') /\ Quiet
<1> DEFINE i == request.id
           r == [uploads[i] EXCEPT !.parts = @ \cup {request.part}]
<1>1. Served(request) = PartStored(request.id, request.part)
  BY DEF Served
<1>2. CASE uploads[i].open
  <2>1. bucket' = bucket /\ uploads' = [uploads EXCEPT ![i] = r]
    BY <1>1, <1>2 DEF PartStored, Answer, Serves
  <2>2. uploads[i] = [f \in UploadFields |-> uploads[i][f]] /\ uploads[i].open \in BOOLEAN
    BY DEF Records
  <2>3. /\ r = [f \in UploadFields |-> r[f]]
        /\ r.key = uploads[i].key /\ r.open = uploads[i].open /\ r.open \in BOOLEAN
    BY <2>2 DEF UploadFields
  <2> HIDE DEF r
  <2>4. Records(uploads') /\ SameUploads /\ uploads'[i] = r
    BY <2>1, <2>3, ChangedRecord
  <2>5. \A j \in DOMAIN uploads : uploads'[j].open = uploads[j].open
    BY <2>1, <2>3
  <2> QED BY <2>1, <2>4, <2>5 DEF Quiet
<1>3. CASE ~uploads[i].open
  BY <1>1, <1>3 DEF PartStored, Answer, Serves, Quiet, SameUploads
<1> QED BY <1>2, <1>3

LEMMA ClosedRecord ==
  ASSUME Records(uploads), NEW i \in DOMAIN uploads,
         uploads' = [uploads EXCEPT ![i].open = FALSE]
  PROVE  /\ Records(uploads') /\ SameUploads
         /\ \A j \in DOMAIN uploads : uploads'[j].open = (uploads[j].open /\ j # i)
<1> DEFINE r == [uploads[i] EXCEPT !.open = FALSE]
<1>1. uploads' = [uploads EXCEPT ![i] = r]
  OBVIOUS
<1>2. \A j \in DOMAIN uploads : uploads[j] = [f \in UploadFields |-> uploads[j][f]]
  BY DEF Records
<1>3. r = [f \in UploadFields |-> r[f]] /\ r.key = uploads[i].key /\ r.open = FALSE
  BY <1>2 DEF UploadFields
<1> HIDE DEF r
<1>4. Records(uploads') /\ SameUploads /\ uploads'[i] = r
  BY <1>1, <1>3, ChangedRecord
<1>5. \A j \in DOMAIN uploads : j # i => uploads'[j] = uploads[j]
  BY <1>1
<1>6. \A j \in DOMAIN uploads : uploads[j].open \in BOOLEAN
  BY DEF Records
<1> QED BY <1>3, <1>4, <1>5, <1>6

LEMMA ServedComplete ==
  ASSUME Records(uploads), NEW request, request.op = "complete",
         request.id \in DOMAIN uploads, Serves(request)
  PROVE  /\ Records(uploads')
         /\ \/ Quiet /\ (Served(request).ok => uploads[request.id].key \in bucket)
            \/ Stores(request.id) /\ Served(request).ok
<1> DEFINE i == request.id
<1>1. Served(request) = Completed(i)
  BY DEF Served
<1>2. CASE uploads[i].key \in bucket
  <2>1. Served(request) = Answer(bucket, uploads, TRUE, i)
    BY <1>1, <1>2 DEF Completed
  <2>2. bucket' = bucket /\ uploads' = uploads /\ Served(request).ok = TRUE
    BY <2>1 DEF Answer, Serves
  <2> QED BY <1>2, <2>2 DEF Quiet, SameUploads
<1>3. CASE uploads[i].key \notin bucket /\ uploads[i].open /\ uploads[i].parts = 1..Parts
  <2>1. /\ bucket' = bucket \cup {uploads[i].key} /\ Served(request).ok
        /\ uploads' = [uploads EXCEPT ![i].open = FALSE]
    BY <1>1, <1>3 DEF Completed, Answer, Serves
  <2> QED BY <1>3, <2>1, ClosedRecord DEF Stores
<1>4. CASE uploads[i].key \notin bucket /\ ~(uploads[i].open /\ uploads[i].parts = 1..Parts)
  <2>1. Served(request) = Answer(bucket, uploads, FALSE, i)
    BY <1>1, <1>4 DEF Completed
  <2>2. bucket' = bucket /\ uploads' = uploads /\ Served(request).ok = FALSE
    BY <2>1 DEF Answer, Serves
  <2> QED BY <1>4, <2>2 DEF Quiet, SameUploads
<1> QED BY <1>2, <1>3, <1>4

LEMMA ServedAbort ==
  ASSUME Records(uploads), NEW request, request.op = "abort",
         request.id \in DOMAIN uploads, Serves(request)
  PROVE  Records(uploads') /\ Closes(request.id)
<1>1. Served(request) = Aborted(request.id)
  BY DEF Served
<1>2. bucket' = bucket /\ uploads' = [uploads EXCEPT ![request.id].open = FALSE]
  BY <1>1 DEF Aborted, Answer, Serves
<1> QED BY <1>2, ClosedRecord DEF Closes

LEMMA ServedHead ==
  ASSUME Records(uploads), NEW request, request.op = "head", Serves(request)
  PROVE  Records(uploads') /\ Quiet /\ Served(request).ok = (request.key \in bucket)
<1>1. Served(request) = Answer(bucket, uploads, request.key \in bucket, 0)
  BY DEF Served
<1> QED BY <1>1 DEF Answer, Serves, Quiet, SameUploads

\* Any request that names an upload there is, and a key with a number.
Proper(request) ==
  /\ request.op \in Operations
  /\ request.op = "create" => request.key.artifact \in Nat
  /\ request.op \in {"part", "complete", "abort"} => request.id \in DOMAIN uploads

\* What no request does: change the key of an upload, store what is not a number.
Respects ==
  /\ DOMAIN uploads \subseteq DOMAIN uploads'
  /\ \A i \in DOMAIN uploads : uploads'[i].key = uploads[i].key
  /\ Records(uploads')
  /\ IsFiniteSet(bucket') /\ \A k \in bucket' : k.artifact \in Nat

LEMMA ServedRespects ==
  ASSUME Gateway, NEW request, Proper(request), Serves(request)
  PROVE  Respects
<1>0. Records(uploads) /\ IsFiniteSet(bucket) /\ \A k \in bucket : k.artifact \in Nat
  BY DEF Gateway
<1>1. CASE request.op = "create"
  <2>1. /\ Records(uploads')
        /\ Quiet \/ Opened(Served(request).id, request.key)
    BY <1>0, <1>1, ServedCreate DEF Proper
  <2> QED BY <1>0, <2>1 DEF Respects, Quiet, SameUploads, Opened
<1>2. CASE request.op = "part"
  <2>1. Records(uploads') /\ Quiet
    BY <1>0, <1>2, ServedPart DEF Proper
  <2> QED BY <1>0, <2>1 DEF Respects, Quiet, SameUploads
<1>3. CASE request.op = "complete"
  <2>0. request.id \in DOMAIN uploads /\ uploads[request.id].key.artifact \in Nat
    BY <1>0, <1>3 DEF Proper, Records
  <2>1. Records(uploads') /\ (Quiet \/ Stores(request.id))
    BY <1>0, <1>3, <2>0, ServedComplete
  <2>2. IsFiniteSet(bucket')
    BY <1>0, <2>1, FS_AddElement DEF Quiet, Stores
  <2> QED BY <1>0, <2>0, <2>1, <2>2 DEF Respects, Quiet, SameUploads, Stores
<1>4. CASE request.op = "abort"
  <2>1. Records(uploads') /\ Closes(request.id)
    BY <1>0, <1>4, ServedAbort DEF Proper
  <2> QED BY <1>0, <2>1 DEF Respects, Closes, SameUploads
<1>5. CASE request.op = "head"
  <2>1. Records(uploads') /\ Quiet
    BY <1>0, <1>5, ServedHead
  <2> QED BY <1>0, <2>1 DEF Respects, Quiet, SameUploads
<1> QED BY <1>1, <1>2, <1>3, <1>4, <1>5 DEF Proper, Operations

LEMMA RequestIsProper ==
  ASSUME Work, Asks
  PROVE  /\ Proper(Request)
         /\ sync.at \in {"part", "complete", "abort"} =>
              Request.op = sync.at /\ Request.id = sync.upload
         /\ sync.at = "create" => Request.op = "create" /\ Request.key = Current
         /\ sync.at \in {"recover", "verify", "confirm"} => Request.op = "head"
         /\ sync.at \in {"recover", "verify"} => Request.key = Current
<1>1. /\ Request.op = IF sync.at \in {"recover", "verify", "confirm"} THEN "head" ELSE sync.at
      /\ Request.id = sync.upload
      /\ sync.at # "confirm" => Request.key = Current
  BY DEF Request
<1>2. sync.at \in {"part", "complete", "abort"} => sync.upload \in DOMAIN uploads
  BY DEF Work, Owning
<1>3. sync.at = "create" => Current.artifact \in Nat
  BY DEF Work
<1> HIDE DEF Request, Current
<1> QED BY <1>1, <1>2, <1>3 DEF Asks, Proper, Operations

LEMMA LateIsProper ==
  ASSUME Gateway, NEW request \in late
  PROVE  Proper(request)
BY DEF Gateway, Proper, Operations

LEMMA GatewayKept ==
  ASSUME Gateway, Work, Respects,
         \A r \in late' : r \in late \/ (r = Request /\ sync.at \in {"part", "complete", "abort"})
  PROVE  Gateway'
<1> SUFFICES ASSUME NEW r \in late'
             PROVE  r.op \in {"part", "complete", "abort"} /\ r.id \in DOMAIN uploads'
  BY DEF Gateway, Respects
<1>1. CASE r \in late
  BY <1>1 DEF Gateway, Respects
<1>2. CASE r = Request /\ sync.at \in {"part", "complete", "abort"}
  <2>1. Asks
    BY <1>2 DEF Asks
  <2> QED BY <1>2, <2>1, RequestIsProper DEF Proper, Respects
<1> QED BY <1>1, <1>2

-----------------------------------------------------------------------------
(* Where the uploading process goes                                         *)

Moves(place, id) == sync'.at = place /\ sync'.upload = id /\ sync'.todo = sync.todo

LEMMA FailsMoves ==
  ASSUME Shape, Fails
  PROVE  \/ sync' = Idle /\ sync.at \notin {"part", "complete", "recover"}
         \/ sync.at \in {"part", "recover"} /\ Moves("abort", sync.upload)
         \/ sync.at = "complete" /\ Moves("recover", sync.upload)
<1>1. CASE sync.at \in {"part", "recover"}
  <2>1. AfterError(sync.at) = "abort"
    BY <1>1 DEF AfterError
  <2> QED BY <1>1, <2>1 DEF Fails, Shape, Fields, Moves
<1>2. CASE sync.at = "complete"
  <2>1. AfterError(sync.at) = "recover"
    BY <1>2 DEF AfterError
  <2> QED BY <1>2, <2>1 DEF Fails, Shape, Fields, Moves
<1>3. CASE sync.at \notin {"part", "complete", "recover"}
  <2>1. AfterError(sync.at) = "idle"
    BY <1>3 DEF AfterError
  <2> QED BY <1>3, <2>1 DEF Fails, Idle
<1> QED BY <1>1, <1>2, <1>3

LEMMA ContinueMoves ==
  ASSUME Shape, Asks, NEW answer, Continue(answer), answer.ok
  PROVE  \/ sync.at = "create" /\ answer.id = 0 /\ Moves("verify", sync.upload)
         \/ /\ sync.at = "create" /\ answer.id # 0
            /\ \E place \in {"part", "abort"} : Moves(place, answer.id)
         \/ sync.at = "part" /\ \E place \in {"part", "complete"} : Moves(place, sync.upload)
         \/ sync.at = "complete" /\ Moves("verify", sync.upload)
         \/ sync.at \in {"recover", "verify"} /\ Moves("record", sync.upload)
         \/ sync.at \in {"abort", "confirm"} /\ sync' = Idle
<1>1. CASE sync.at = "create"
  <2>1. CASE answer.id = 0
    <3>1. Goes("verify")
      BY <1>1, <2>1 DEF Continue
    <3> QED BY <1>1, <2>1, <3>1 DEF Goes, Moves, Shape, Fields
  <2>2. CASE answer.id # 0
    <3>1. sync' = Opens(Current.artifact \in disk, answer.id)
      BY <1>1, <2>2 DEF Continue
    <3>2. \E place \in {"part", "abort"} : Moves(place, answer.id)
      BY <3>1 DEF Opens, Moves, Shape, Fields
    <3> QED BY <1>1, <2>2, <3>2
  <2> QED BY <2>1, <2>2
<1>2. CASE sync.at = "part"
  <2>1. CASE sync.part < Parts
    <3>1. sync' = [sync EXCEPT !.part = @ + 1, !.tries = 0]
      BY <1>2, <2>1 DEF Continue
    <3> QED BY <1>2, <3>1 DEF Moves, Shape, Fields
  <2>2. CASE ~(sync.part < Parts)
    <3>1. Goes("complete")
      BY <1>2, <2>2 DEF Continue
    <3> QED BY <1>2, <3>1 DEF Goes, Moves, Shape, Fields
  <2> QED BY <2>1, <2>2
<1>3. CASE sync.at = "complete"
  <2>1. Goes("verify")
    BY <1>3 DEF Continue
  <2> QED BY <1>3, <2>1 DEF Goes, Moves, Shape, Fields
<1>4. CASE sync.at \in {"recover", "verify"}
  <2>1. Goes("record")
    BY <1>4 DEF Continue
  <2> QED BY <1>4, <2>1 DEF Goes, Moves, Shape, Fields
<1>5. CASE sync.at \in {"abort", "confirm"}
  <2>1. sync' = Idle
    BY <1>5 DEF Continue
  <2> QED BY <1>5, <2>1
<1> QED BY <1>1, <1>2, <1>3, <1>4, <1>5 DEF Asks

-----------------------------------------------------------------------------
(* The invariant of the waste                                               *)

Resting == {"idle", "next", "newest", "confirm"}

Working == {"create"} \cup Owning \cup Done

LEMMA WorkRests ==
  ASSUME Work, UNCHANGED <<record, disk, made>>, faults' \in Nat, sync'.at \in Resting
  PROVE  Work'
BY DEF Work, Resting, Owning, Done

LEMMA WorkMoves ==
  ASSUME Work, UNCHANGED <<record, disk, made>>, faults' \in Nat, sync.at \in Working,
         NEW place \in Working, NEW id, Moves(place, id),
         place \in Owning => id \in DOMAIN uploads' /\ uploads'[id].key = Current
  PROVE  Work'
<1>1. Current' = Current
  BY DEF Moves, Current
<1>2. ~Recorded(Current) /\ Current.artifact \in Nat
  BY DEF Work, Working
<1>3. (~Recorded(Current))'
  BY <1>1, <1>2 DEF Recorded, Alike, Marker
<1>4. Current'.artifact \in Nat
  BY <1>1, <1>2
<1>5. sync'.at = place /\ sync'.upload = id
  BY DEF Moves
<1> HIDE DEF Current
<1>6. UNCHANGED <<record, disk, made>> /\ \A k, l : Alike(k, l)' = Alike(k, l)
  BY DEF Alike, Marker
<1> QED BY <1>1, <1>2, <1>3, <1>4, <1>5, <1>6 DEF Work, Working

\* A retry asks the same again.
LEMMA RetryMoves ==
  ASSUME Shape, sync' = [sync EXCEPT !.tries = @ + 1]
  PROVE  Moves(sync.at, sync.upload)
BY DEF Shape, Fields, Moves

LEMMA IdleRests == sync' = Idle => sync'.at \in Resting
BY DEF Idle, Resting

LEMMA WorkFails ==
  ASSUME Shape, Work, Respects, UNCHANGED <<record, disk, made>>, faults' \in Nat, Fails
  PROVE  Work'
<1>1. \A place \in Owning : sync.at \in Owning /\ Moves(place, sync.upload) => Work'
  <2> SUFFICES ASSUME NEW place \in Owning, sync.at \in Owning, Moves(place, sync.upload)
               PROVE  Work'
    OBVIOUS
  <2>1. sync.upload \in DOMAIN uploads' /\ uploads'[sync.upload].key = Current
    BY DEF Work, Respects
  <2>2. sync.at \in Working /\ place \in Working
    BY DEF Working
  <2> QED BY <2>1, <2>2, WorkMoves
<1>2. CASE sync' = Idle
  BY <1>2, IdleRests, WorkRests
<1>3. CASE sync.at \in {"part", "recover"} /\ Moves("abort", sync.upload)
  BY <1>1, <1>3 DEF Owning
<1>4. CASE sync.at = "complete" /\ Moves("recover", sync.upload)
  BY <1>1, <1>4 DEF Owning
<1> QED BY <1>2, <1>3, <1>4, FailsMoves

\* What is created is for the key that is worked on.
LEMMA CreatedForCurrent ==
  ASSUME Gateway, Work, sync.at = "create", Serves(Request)
  PROVE  /\ Served(Request).ok
         /\ \/ Quiet /\ Current \in bucket /\ Served(Request).id = 0
            \/ Opened(Served(Request).id, Current)
<1>1. /\ Request.op = "create" /\ Request.key = Current /\ Records(uploads)
      /\ Current.artifact \in Nat
  BY RequestIsProper DEF Asks, Gateway, Work
<1> QED BY <1>1, ServedCreate

LEMMA ExchangeWork ==
  ASSUME Shape, Gateway, Work, Exchange
  PROVE  Respects /\ Work'
<1>0. /\ Asks /\ Serves(Request) /\ Continue(Served(Request))
      /\ UNCHANGED <<record, disk, made>> /\ faults' \in Nat
  BY DEF Exchange, Serves, Work
<1>1. Respects
  BY <1>0, RequestIsProper, ServedRespects
<1>2. CASE ~Served(Request).ok
  <2>1. Fails
    BY <1>0, <1>2 DEF Continue
  <2> QED BY <1>0, <1>1, <2>1, WorkFails
<1>3. CASE Served(Request).ok
  <2>1. CASE sync.at = "create" /\ Moves("verify", sync.upload)
    <3>1. sync.at \in Working /\ "verify" \in Working /\ "verify" \notin Owning
      BY <2>1 DEF Working, Owning, Done
    <3> QED BY <1>0, <1>1, <2>1, <3>1, WorkMoves
  <2>2. CASE /\ sync.at = "create" /\ Served(Request).id # 0
             /\ \E place \in {"part", "abort"} : Moves(place, Served(Request).id)
    <3>1. PICK place \in {"part", "abort"} : Moves(place, Served(Request).id)
      BY <2>2
    <3>2. Opened(Served(Request).id, Current)
      BY <1>0, <2>2, CreatedForCurrent
    <3>3. sync.at \in Working /\ place \in Working
      BY <2>2 DEF Working, Owning
    <3> QED BY <1>0, <1>1, <3>1, <3>2, <3>3, WorkMoves DEF Opened
  <2>3. CASE sync.at = "part" /\ \E place \in {"part", "complete"} : Moves(place, sync.upload)
    <3>1. PICK place \in {"part", "complete"} : Moves(place, sync.upload)
      BY <2>3
    <3>2. sync.upload \in DOMAIN uploads' /\ uploads'[sync.upload].key = Current
      BY <1>1, <2>3 DEF Work, Owning, Respects
    <3>3. sync.at \in Working /\ place \in Working
      BY <2>3 DEF Working, Owning
    <3> QED BY <1>0, <1>1, <3>1, <3>2, <3>3, WorkMoves
  <2>4. CASE sync.at = "complete" /\ Moves("verify", sync.upload)
    <3>1. sync.at \in Working /\ "verify" \in Working /\ "verify" \notin Owning
      BY <2>4 DEF Working, Owning, Done
    <3> QED BY <1>0, <1>1, <2>4, <3>1, WorkMoves
  <2>5. CASE sync.at \in {"recover", "verify"} /\ Moves("record", sync.upload)
    <3>1. sync.at \in Working /\ "record" \in Working /\ "record" \notin Owning
      BY <2>5 DEF Working, Owning, Done
    <3> QED BY <1>0, <1>1, <2>5, <3>1, WorkMoves
  <2>6. CASE sync' = Idle
    BY <1>0, <1>1, <2>6, IdleRests, WorkRests
  <2> HIDE DEF Served, Request, Current
  <2> QED BY <1>0, <1>3, <2>1, <2>2, <2>3, <2>4, <2>5, <2>6, ContinueMoves
<1> QED BY <1>1, <1>2, <1>3

LEMMA NothingRespects ==
  ASSUME Gateway, UNCHANGED <<bucket, uploads>>
  PROVE  Respects
BY DEF Gateway, Respects

LEMMA LoseWork ==
  ASSUME Shape, Gateway, Work, Lose
  PROVE  Respects /\ Work'
<1>0. Asks /\ UNCHANGED <<record, disk, made>> /\ faults' \in Nat
  BY DEF Lose, Work
<1>1. Serves(Request) \/ UNCHANGED <<bucket, uploads>>
  BY DEF Lose, Serves
<1>2. Respects
  BY <1>0, <1>1, RequestIsProper, ServedRespects, NothingRespects
<1>3. CASE ~(sync.tries + 1 < Attempts)
  BY <1>0, <1>2, <1>3, WorkFails DEF Lose
<1>4. CASE sync.tries + 1 < Attempts
  <2>1. Moves(sync.at, sync.upload)
    BY <1>4, RetryMoves DEF Lose
  <2>2. CASE sync.at = "confirm"
    BY <1>0, <1>2, <2>1, <2>2, WorkRests DEF Moves, Resting
  <2>3. CASE sync.at # "confirm"
    <3>1. sync.at \in Working
      BY <1>0, <2>3 DEF Asks, Working, Owning, Done
    <3>2. sync.at \in Owning =>
            sync.upload \in DOMAIN uploads' /\ uploads'[sync.upload].key = Current
      BY <1>2 DEF Work, Respects
    <3> QED BY <1>0, <1>2, <2>1, <3>1, <3>2, WorkMoves
  <2> QED BY <2>2, <2>3
<1> QED BY <1>2, <1>3, <1>4

LEMMA RecordWork ==
  ASSUME Shape, Work, Record
  PROVE  Work'
<1>1. /\ record' = record \cup {Current} /\ UNCHANGED <<disk, made, faults>>
      /\ sync'.at = "next"
  BY DEF Record, Shape, Fields
<1>2. ~Recorded(Current)
  BY DEF Record, Work, Done
<1>3. \A k \in record : ~Alike(k, Current) /\ ~Alike(Current, k)
  BY <1>2 DEF Recorded, Alike
<1> HIDE DEF Current
<1>4. \A k, l \in record' : Alike(k, l) => k = l
  BY <1>1, <1>3 DEF Work
<1>5. \A k, l : Alike(k, l)' = Alike(k, l)
  BY DEF Alike, Marker
<1> QED BY <1>1, <1>4, <1>5 DEF Work, Owning, Done

LEMMA TakeNextWork ==
  ASSUME Shape, Work, TakeNext
  PROVE  Work'
<1>1. UNCHANGED <<record, disk, made>> /\ faults' \in Nat
  BY DEF TakeNext, Work
<1>2. CASE sync'.at \in Resting
  BY <1>1, <1>2, WorkRests
<1>3. CASE sync'.at \notin Resting
  <2>1. /\ ~Recorded(Current) /\ Current.artifact \in disk
        /\ sync' = [sync EXCEPT !.at = "create", !.tries = 0]
    BY <1>3 DEF TakeNext, Idle, Resting, Shape, Fields
  <2>2. Current' = Current /\ sync'.at = "create"
    BY <2>1 DEF Current, Shape, Fields
  <2>3. (~Recorded(Current))'
    BY <1>1, <2>1, <2>2 DEF Recorded, Alike, Marker
  <2>4. Current'.artifact \in Nat
    BY <2>1, <2>2 DEF Work
  <2> HIDE DEF Current
  <2>5. UNCHANGED <<record, disk, made>> /\ \A k, l : Alike(k, l)' = Alike(k, l)
    BY <1>1 DEF Alike, Marker
  <2> QED BY <1>1, <2>2, <2>3, <2>4, <2>5 DEF Work, Owning, Done
<1> QED BY <1>2, <1>3

LEMMA WasteInit == Init => WasteInv /\ Budget
<1> SUFFICES ASSUME Init
             PROVE  WasteInv /\ Budget
  OBVIOUS
<1>1. OffsiteInv
  BY OffsiteInit
<1>2. uploads \in Seq({}) /\ DOMAIN uploads = {}
  BY DEF Init
<1>3. IsFiniteSet(bucket) /\ bucket = {} /\ late = {}
  BY FS_EmptySet DEF Init
<1>4. Gateway
  BY <1>2, <1>3 DEF Gateway, Records
<1>5. sync.at = "idle"
  BY DEF Init, Idle
<1>6. Work
  BY <1>5 DEF Init, Work, Owning, Done
<1>7. Exposed = {} /\ Stray = {}
  BY <1>2, <1>3 DEF Exposed, Stray
<1>8. Budget
  BY <1>7, FS_EmptySet DEF Init, Budget
<1> QED BY <1>1, <1>4, <1>6, <1>8 DEF WasteInv

LEMMA WasteNext == WasteInv /\ [Next]_vars => WasteInv'
<1> SUFFICES ASSUME WasteInv, [Next]_vars
             PROVE  Gateway' /\ Work'
  BY OffsiteNext DEF WasteInv
<1>0. Shape /\ Gateway /\ Work
  BY DEF WasteInv, OffsiteInv
<1>1. CASE Start
  <2>1. /\ UNCHANGED <<record, disk, made, bucket, uploads, late>> /\ faults' \in Nat
        /\ sync'.at = "next"
    BY <1>0, <1>1 DEF Start, Idle, Work
  <2>2. Gateway'
    BY <1>0, <2>1 DEF Gateway
  <2> QED BY <1>0, <2>1, <2>2, WorkRests DEF Resting
<1>2. CASE TakeNext
  <2>1. UNCHANGED <<bucket, uploads, late>>
    BY <1>2 DEF TakeNext
  <2>2. Gateway'
    BY <1>0, <2>1 DEF Gateway
  <2> QED BY <1>0, <1>2, <2>2, TakeNextWork
<1>3. CASE Exchange
  <2>1. Respects /\ Work' /\ late' = late
    BY <1>0, <1>3, ExchangeWork DEF Exchange
  <2> QED BY <1>0, <2>1, GatewayKept
<1>4. CASE Lose
  <2>1. Respects /\ Work'
    BY <1>0, <1>4, LoseWork
  <2>2. \A r \in late' : r \in late \/ (r = Request /\ sync.at \in {"part", "complete", "abort"})
    BY <1>4 DEF Lose
  <2> QED BY <1>0, <2>1, <2>2, GatewayKept
<1>5. CASE Arrive
  <2>1. PICK r \in late : late' = late \ {r} /\ Serves(r)
    BY <1>5 DEF Arrive, Serves
  <2>2. Respects
    BY <1>0, <2>1, LateIsProper, ServedRespects
  <2>3. Gateway'
    BY <1>0, <2>1, <2>2, GatewayKept
  <2>4. UNCHANGED <<made, disk, record, success, sync, faults>>
    BY <1>5 DEF Arrive
  <2>5. CASE sync.at \in Resting
    BY <1>0, <2>3, <2>4, <2>5, WorkRests DEF Work
  <2>6. CASE sync.at \notin Resting
    <3>1. sync.at \in Working
      BY <1>0, <2>6 DEF Work, Working, Resting
    <3>2. Moves(sync.at, sync.upload)
      BY <2>4 DEF Moves
    <3>3. sync.at \in Owning =>
            sync.upload \in DOMAIN uploads' /\ uploads'[sync.upload].key = Current
      BY <1>0, <2>2 DEF Work, Respects
    <3>4. Work'
      BY <1>0, <2>4, <3>1, <3>2, <3>3, WorkMoves DEF Work
    <3> QED BY <2>3, <3>4
  <2> QED BY <2>5, <2>6
<1>6. CASE Record
  <2>1. UNCHANGED <<bucket, uploads, late>>
    BY <1>6 DEF Record
  <2>2. Gateway'
    BY <1>0, <2>1 DEF Gateway
  <2> QED BY <1>0, <1>6, <2>2, RecordWork
<1>7. CASE Finish \/ Confirm
  <2>1. UNCHANGED <<bucket, uploads, late, record, disk, made>> /\ faults' \in Nat
    BY <1>0, <1>7 DEF Finish, Confirm, Work
  <2>2. sync'.at \in Resting
    <3>1. CASE sync' = Idle
      BY <3>1, IdleRests
    <3>2. CASE sync' = [sync EXCEPT !.at = "confirm", !.tries = 0]
      BY <1>0, <3>2 DEF Resting, Shape, Fields
    <3> QED BY <1>7, <3>1, <3>2 DEF Finish, Confirm
  <2>3. Gateway'
    BY <1>0, <2>1 DEF Gateway
  <2> QED BY <1>0, <2>1, <2>2, <2>3, WorkRests
<1>8. CASE Crash
  <2>1. /\ UNCHANGED <<bucket, uploads, record, disk, made>> /\ faults' \in Nat
        /\ sync' = Idle
        /\ late' = late \cup (IF sync.at \in {"part", "complete", "abort"}
                              THEN {Request} ELSE {})
    BY <1>0, <1>8 DEF Crash, Work
  <2>2. \A r \in late' : r \in late \/ (r = Request /\ sync.at \in {"part", "complete", "abort"})
    BY <2>1
  <2>3. Gateway'
    BY <1>0, <2>1, <2>2, NothingRespects, GatewayKept
  <2> QED BY <1>0, <2>1, <2>3, IdleRests, WorkRests
<1>9. CASE Make \/ Prune \/ UNCHANGED vars
  <2>1. UNCHANGED <<bucket, uploads, late, record, sync, faults>>
    BY <1>9 DEF Make, Prune, vars
  <2>2. disk' \subseteq Nat /\ made' \in Nat
    <3>1. CASE Make
      BY <1>0, <3>1, CountAssumption DEF Make, Work
    <3>2. CASE Prune \/ UNCHANGED vars
      BY <1>0, <3>2 DEF Prune, vars, Work
    <3> QED BY <1>9, <3>1, <3>2
  <2>3. Gateway'
    BY <1>0, <2>1 DEF Gateway
  <2>4. (~Recorded(Current))' = (~Recorded(Current)) /\ Current' = Current
    BY <2>1 DEF Recorded, Alike, Marker, Current
  <2> HIDE DEF Current
  <2>5. \A k, l : Alike(k, l)' = Alike(k, l)
    BY DEF Alike, Marker
  <2> QED BY <1>0, <2>1, <2>2, <2>3, <2>4, <2>5 DEF Work
<1> QED BY <1>1, <1>2, <1>3, <1>4, <1>5, <1>6, <1>7, <1>8, <1>9 DEF Next, Uploading

-----------------------------------------------------------------------------
(* The budget                                                               *)

\* Every step pays with a fault for what it leaves behind, or turns one thing that
\* was left behind into another.
Balanced ==
  \/ Exposed' \subseteq Exposed /\ Stray' \subseteq Stray /\ faults' \in {faults, faults + 1}
  \/ /\ faults' = faults + 1
     /\ \/ Stray' \subseteq Stray /\ \E i : Exposed' \subseteq Exposed \cup {i}
        \/ Exposed' \subseteq Exposed /\ \E k : Stray' \subseteq Stray \cup {k}
  \/ /\ faults' = faults
     /\ \/ \E i \in Exposed : \E k :
             Exposed' \subseteq Exposed \ {i} /\ Stray' \subseteq Stray \cup {k}
        \/ \E k \in Stray : \E i :
             Stray' \subseteq Stray \ {k} /\ Exposed' \subseteq Exposed \cup {i}

LEMMA SubsetCount ==
  ASSUME NEW A, IsFiniteSet(A), NEW B \in SUBSET A
  PROVE  /\ Cardinality(A) \in Nat /\ Cardinality(B) \in Nat
         /\ Cardinality(B) <= Cardinality(A)
BY FS_Subset, FS_CardinalityType

LEMMA OneMore ==
  ASSUME NEW A, IsFiniteSet(A), NEW x, NEW B \in SUBSET (A \cup {x})
  PROVE  Cardinality(B) \in Nat /\ Cardinality(B) <= Cardinality(A) + 1
<1>0. /\ Cardinality(A) \in Nat /\ IsFiniteSet(A \cup {x})
      /\ Cardinality(A \cup {x}) \in {Cardinality(A), Cardinality(A) + 1}
  BY FS_AddElement, FS_CardinalityType
<1>1. /\ IsFiniteSet(A \cup {x}) /\ Cardinality(A) \in Nat
      /\ Cardinality(A \cup {x}) <= Cardinality(A) + 1
  BY <1>0
<1>2. Cardinality(B) \in Nat /\ Cardinality(A \cup {x}) \in Nat
      /\ Cardinality(B) <= Cardinality(A \cup {x})
  BY <1>1, SubsetCount
<1> QED BY <1>1, <1>2

LEMMA OneLess ==
  ASSUME NEW A, IsFiniteSet(A), NEW x \in A, NEW B \in SUBSET (A \ {x})
  PROVE  Cardinality(B) \in Nat /\ Cardinality(B) <= Cardinality(A) - 1
<1>1. /\ IsFiniteSet(A \ {x}) /\ Cardinality(A) \in Nat
      /\ Cardinality(A \ {x}) = Cardinality(A) - 1
  BY FS_RemoveElement, FS_CardinalityType
<1>2. Cardinality(B) \in Nat /\ Cardinality(B) <= Cardinality(A \ {x})
  BY <1>1, SubsetCount
<1> QED BY <1>1, <1>2

LEMMA BudgetKept ==
  ASSUME WasteInv, Budget, Balanced
  PROVE  Budget'
<1>1. /\ IsFiniteSet(Exposed) /\ IsFiniteSet(Stray)
      /\ Cardinality(Exposed) \in Nat /\ Cardinality(Stray) \in Nat /\ faults \in Nat
      /\ Cardinality(Exposed) + Cardinality(Stray) <= faults
  BY Finite DEF WasteInv, Work, Exposed, Stray, Budget
<1> DEFINE e == Cardinality(Exposed')
           s == Cardinality(Stray')
<1>2. /\ Exposed' \subseteq Exposed => e \in Nat /\ e <= Cardinality(Exposed)
      /\ Stray' \subseteq Stray => s \in Nat /\ s <= Cardinality(Stray)
  BY <1>1, SubsetCount
<1>3. /\ \A i : Exposed' \subseteq Exposed \cup {i} => e \in Nat /\ e <= Cardinality(Exposed) + 1
      /\ \A k : Stray' \subseteq Stray \cup {k} => s \in Nat /\ s <= Cardinality(Stray) + 1
  BY <1>1, OneMore
<1>4. /\ \A i \in Exposed :
           Exposed' \subseteq Exposed \ {i} => e \in Nat /\ e <= Cardinality(Exposed) - 1
      /\ \A k \in Stray :
           Stray' \subseteq Stray \ {k} => s \in Nat /\ s <= Cardinality(Stray) - 1
  BY <1>1, OneLess
<1> HIDE DEF e, s
<1>5. /\ faults' \in {faults, faults + 1}
      /\ e \in Nat /\ s \in Nat
      /\ e + s - (Cardinality(Exposed) + Cardinality(Stray)) <= faults' - faults
  <2>1. CASE Exposed' \subseteq Exposed /\ Stray' \subseteq Stray /\ faults' \in {faults, faults + 1}
    BY <1>1, <1>2, <2>1
  <2>2. CASE /\ faults' = faults + 1
             /\ Stray' \subseteq Stray /\ \E i : Exposed' \subseteq Exposed \cup {i}
    <3>1. e \in Nat /\ s \in Nat /\ e <= Cardinality(Exposed) + 1 /\ s <= Cardinality(Stray)
      BY <1>2, <1>3, <2>2
    <3> QED BY <1>1, <2>2, <3>1
  <2>3. CASE /\ faults' = faults + 1
             /\ Exposed' \subseteq Exposed /\ \E k : Stray' \subseteq Stray \cup {k}
    <3>1. e \in Nat /\ s \in Nat /\ e <= Cardinality(Exposed) /\ s <= Cardinality(Stray) + 1
      BY <1>2, <1>3, <2>3
    <3> QED BY <1>1, <2>3, <3>1
  <2>4. CASE /\ faults' = faults
             /\ \E i \in Exposed : \E k : /\ Exposed' \subseteq Exposed \ {i}
                                      /\ Stray' \subseteq Stray \cup {k}
    <3>1. e \in Nat /\ s \in Nat /\ e <= Cardinality(Exposed) - 1 /\ s <= Cardinality(Stray) + 1
      BY <1>3, <1>4, <2>4
    <3> QED BY <1>1, <2>4, <3>1
  <2>5. CASE /\ faults' = faults
             /\ \E k \in Stray : \E i : /\ Stray' \subseteq Stray \ {k}
                                    /\ Exposed' \subseteq Exposed \cup {i}
    <3>1. e \in Nat /\ s \in Nat /\ e <= Cardinality(Exposed) + 1 /\ s <= Cardinality(Stray) - 1
      BY <1>3, <1>4, <2>5
    <3> QED BY <1>1, <2>5, <3>1
  <2> QED BY <2>1, <2>2, <2>3, <2>4, <2>5 DEF Balanced
<1>6. e + s <= faults'
  BY <1>1, <1>5
<1> QED BY <1>6 DEF Budget, e, s

\* A request that opens no upload.
Narrows ==
  /\ DOMAIN uploads' = DOMAIN uploads
  /\ \A i \in DOMAIN uploads : uploads'[i].open => uploads[i].open

LEMMA Narrowing ==
  /\ Quiet => Narrows
  /\ \A i : Closes(i) \/ Stores(i) => Narrows
  /\ UNCHANGED uploads => Narrows
BY DEF Quiet, Closes, Stores, SameUploads, Narrows

\* At most the upload of the process is newly left open, and only when it leaves it.
LEMMA ExposedNear ==
  ASSUME Narrows
  PROVE  /\ Exposed' \subseteq Exposed \cup {sync.upload}
         /\ sync.at \notin Owning => Exposed' \subseteq Exposed
         /\ sync.upload \notin {i \in DOMAIN uploads : uploads'[i].open} =>
              Exposed' \subseteq Exposed
BY DEF Narrows, Exposed, Owns

LEMMA ExposedKept ==
  ASSUME Narrows, sync'.at \in Owning, sync'.upload = sync.upload,
         \A r \in late' : r.op = "complete" => r \in late
  PROVE  Exposed' \subseteq Exposed
<1> SUFFICES ASSUME NEW i \in Exposed'
             PROVE  i \in Exposed
  OBVIOUS
<1>1. i \in DOMAIN uploads /\ uploads[i].open
  BY DEF Narrows, Exposed
<1>2. CASE Owns(i)
  <2>1. \E r \in late' : r.op = "complete" /\ r.id = i
    BY <1>2 DEF Exposed, Owns
  <2> QED BY <1>1, <2>1 DEF Exposed
<1>3. CASE ~Owns(i)
  BY <1>1, <1>3 DEF Exposed
<1> QED BY <1>2, <1>3

\* At most the key that is worked on is newly stray, and only when it was done.
LEMMA StrayNear ==
  ASSUME bucket' = bucket, record' = record
  PROVE  /\ Stray' \subseteq Stray \cup {Current}
         /\ sync.at \notin Done => Stray' \subseteq Stray
         /\ sync'.at \in Done /\ sync'.todo = sync.todo => Stray' \subseteq Stray
         /\ Current \notin bucket => Stray' \subseteq Stray
<1>1. sync'.todo = sync.todo => Current' = Current
  BY DEF Current
<1> HIDE DEF Current
<1> QED BY <1>1 DEF Stray

\* A fault pays for what the process may leave by it.
LEMMA FaultCovers ==
  ASSUME Narrows, bucket' = bucket, record' = record, faults' = faults + 1
  PROVE  Balanced
<1>1. CASE sync.at \in Owning
  <2>1. sync.at \notin Done
    BY <1>1 DEF Owning, Done
  <2>2. Stray' \subseteq Stray /\ \E i : Exposed' \subseteq Exposed \cup {i}
    BY <2>1, ExposedNear, StrayNear
  <2> QED BY <2>2 DEF Balanced
<1>2. CASE sync.at \notin Owning
  <2>1. Exposed' \subseteq Exposed /\ \E k : Stray' \subseteq Stray \cup {k}
    BY <1>2, ExposedNear, StrayNear
  <2> QED BY <2>1 DEF Balanced
<1> QED BY <1>1, <1>2

\* What was stray is found to be there and will be recorded.
LEMMA FoundBalances ==
  ASSUME Work, Narrows, bucket' = bucket, record' = record, faults' = faults,
         sync.at \in Owning, Current \in bucket, sync'.at \in Done, sync'.todo = sync.todo
  PROVE  Balanced
<1>1. Current' = Current
  BY DEF Current
<1>2. ~Recorded(Current) /\ sync.at \notin Done
  BY DEF Work, Owning, Done
<1> HIDE DEF Current
<1>3. Current \in Stray
  BY <1>2 DEF Stray, Recorded, Alike
<1>4. Stray' \subseteq Stray \ {Current}
  BY <1>1, <1>2 DEF Stray
<1>5. Exposed' \subseteq Exposed \cup {sync.upload}
  BY ExposedNear
<1> QED BY <1>3, <1>4, <1>5 DEF Balanced

LEMMA KeptBalances ==
  ASSUME Exposed' \subseteq Exposed, Stray' \subseteq Stray, faults' = faults
  PROVE  Balanced
BY DEF Balanced

\* Opening an upload exposes it unless the process takes it over.
LEMMA OpenedNear ==
  ASSUME NEW i, NEW key, Opened(i, key), Gateway, sync.at \notin Owning
  PROVE  /\ Exposed' \subseteq Exposed \cup {i}
         /\ late' = late /\ sync'.at \in Owning /\ sync'.upload = i => Exposed' \subseteq Exposed
<1>1. \A j \in Exposed' : j = i \/ (j \in DOMAIN uploads /\ uploads[j].open)
  BY DEF Opened, Exposed
<1>2. \A j \in DOMAIN uploads : uploads[j].open => j \in Exposed
  BY DEF Exposed, Owns
<1>3. \A r \in late : r.id # i
  BY DEF Gateway, Opened
<1>4. ASSUME late' = late, sync'.at \in Owning, sync'.upload = i
      PROVE  i \notin Exposed'
  BY <1>3, <1>4 DEF Exposed, Owns
<1> QED BY <1>1, <1>2, <1>4

LEMMA ExchangeBalances ==
  ASSUME Shape, Gateway, Work, Exchange
  PROVE  Balanced
<1>0. /\ Asks /\ Serves(Request) /\ Continue(Served(Request)) /\ Records(uploads)
      /\ record' = record /\ late' = late /\ faults' = faults
  BY DEF Exchange, Serves, Gateway
<1>1. CASE sync.at = "create"
  <2>1. sync.at \notin Done /\ sync.at \notin Owning
    BY <1>1 DEF Done, Owning
  <2>2. CASE Quiet
    <3>1. Exposed' \subseteq Exposed
      BY <2>1, <2>2, Narrowing, ExposedNear
    <3>2. Stray' \subseteq Stray
      BY <1>0, <2>1, <2>2, StrayNear DEF Quiet
    <3> QED BY <1>0, <3>1, <3>2, KeptBalances
  <2>3. CASE ~Quiet
    <3>1. Opened(Served(Request).id, Current) /\ Served(Request).ok
      BY <1>0, <1>1, <2>3, CreatedForCurrent
    <3>2. Served(Request).id # 0
      BY <3>1 DEF Opened
    <3>3. \E place \in {"part", "abort"} : Moves(place, Served(Request).id)
      BY <1>0, <1>1, <3>1, <3>2, ContinueMoves
    <3>4. sync'.at \in Owning /\ sync'.upload = Served(Request).id
      BY <3>3 DEF Moves, Owning
    <3>5. Exposed' \subseteq Exposed
      BY <1>0, <2>1, <3>1, <3>4, OpenedNear
    <3>6. Stray' \subseteq Stray
      BY <1>0, <2>1, <3>1, StrayNear DEF Opened
    <3> QED BY <1>0, <3>5, <3>6, KeptBalances
  <2> QED BY <2>2, <2>3
<1>2. CASE sync.at = "part"
  <2>1. Quiet /\ sync.at \notin Done
    BY <1>0, <1>2, RequestIsProper, ServedPart DEF Proper, Done
  <2>2. \E place \in Owning : Moves(place, sync.upload)
    <3>1. CASE Served(Request).ok
      BY <1>0, <1>2, <3>1, ContinueMoves DEF Owning
    <3>2. CASE ~Served(Request).ok
      <4>1. Fails
        BY <1>0, <3>2 DEF Continue
      <4> QED BY <1>2, <4>1, FailsMoves DEF Owning
    <3> QED BY <3>1, <3>2
  <2>3. Exposed' \subseteq Exposed
    BY <1>0, <2>1, <2>2, Narrowing, ExposedKept DEF Moves
  <2>4. Stray' \subseteq Stray
    BY <1>0, <2>1, StrayNear DEF Quiet
  <2> QED BY <1>0, <2>3, <2>4, KeptBalances
<1>3. CASE sync.at = "complete"
  <2>0. /\ sync.at \notin Done /\ sync.at \in Owning
        /\ Request.op = "complete" /\ Request.id = sync.upload
        /\ sync.upload \in DOMAIN uploads /\ uploads[sync.upload].key = Current
    BY <1>0, <1>3, RequestIsProper DEF Proper, Done, Owning, Work
  <2>1. \/ Quiet /\ (Served(Request).ok => Current \in bucket)
        \/ Stores(sync.upload) /\ Served(Request).ok
    BY <1>0, <2>0, ServedComplete
  <2>2. CASE ~Served(Request).ok
    <3>1. Quiet /\ Fails
      BY <1>0, <2>1, <2>2 DEF Continue
    <3>2. Moves("recover", sync.upload)
      BY <1>3, <3>1, FailsMoves, IdleShape
    <3>3. Exposed' \subseteq Exposed
      BY <1>0, <3>1, <3>2, Narrowing, ExposedKept DEF Moves, Owning
    <3>4. Stray' \subseteq Stray
      BY <1>0, <2>0, <3>1, StrayNear DEF Quiet
    <3> QED BY <1>0, <3>3, <3>4, KeptBalances
  <2>3. CASE Served(Request).ok /\ Quiet /\ Current \in bucket
    <3>1. Moves("verify", sync.upload)
      BY <1>0, <1>3, <2>3, ContinueMoves
    <3> QED BY <1>0, <2>0, <2>3, <3>1, Narrowing, FoundBalances
            DEF Moves, Done, Quiet
  <2>4. CASE Served(Request).ok /\ Stores(sync.upload)
    <3>1. Moves("verify", sync.upload)
      BY <1>0, <1>3, <2>4, ContinueMoves
    <3>2. Exposed' \subseteq Exposed
      BY <2>4, Narrowing, ExposedNear DEF Stores
    <3>3. bucket' = bucket \cup {Current} /\ Current' = Current /\ sync'.at \in Done
      BY <2>0, <2>4, <3>1 DEF Stores, Moves, Current, Done
    <3>4. Stray' \subseteq Stray
      BY <1>0, <2>0, <3>3 DEF Stray
    <3> QED BY <1>0, <3>2, <3>4, KeptBalances
  <2> QED BY <2>1, <2>2, <2>3, <2>4
<1>4. CASE sync.at = "recover"
  <2>0. Request.op = "head" /\ Request.key = Current /\ sync.at \notin Done /\ sync.at \in Owning
    BY <1>0, <1>4, RequestIsProper DEF Done, Owning
  <2>1. Quiet /\ Served(Request).ok = (Current \in bucket)
    BY <1>0, <2>0, ServedHead
  <2>2. CASE Served(Request).ok
    <3>1. Moves("record", sync.upload)
      BY <1>0, <1>4, <2>2, ContinueMoves
    <3> QED BY <1>0, <2>0, <2>1, <2>2, <3>1, Narrowing, FoundBalances
            DEF Moves, Done, Quiet
  <2>3. CASE ~Served(Request).ok
    <3>1. Fails
      BY <1>0, <2>3 DEF Continue
    <3>2. Moves("abort", sync.upload)
      BY <1>4, <3>1, FailsMoves
    <3>3. Exposed' \subseteq Exposed
      BY <1>0, <2>1, <3>2, Narrowing, ExposedKept DEF Moves, Owning
    <3>4. Stray' \subseteq Stray
      BY <1>0, <2>0, <2>1, StrayNear DEF Quiet
    <3> QED BY <1>0, <3>3, <3>4, KeptBalances
  <2> QED BY <2>2, <2>3
<1>5. CASE sync.at = "abort"
  <2>0. /\ sync.at \notin Done /\ Request.op = "abort" /\ Request.id = sync.upload
        /\ sync.upload \in DOMAIN uploads
    BY <1>0, <1>5, RequestIsProper DEF Proper, Done
  <2>1. Closes(sync.upload)
    BY <1>0, <2>0, ServedAbort
  <2>2. Exposed' \subseteq Exposed
    BY <2>1, Narrowing, ExposedNear DEF Closes
  <2>3. Stray' \subseteq Stray
    BY <1>0, <2>0, <2>1, StrayNear DEF Closes
  <2> QED BY <1>0, <2>2, <2>3, KeptBalances
<1>6. CASE sync.at \in {"verify", "confirm"}
  <2>0. Request.op = "head" /\ sync.at \notin Owning
    BY <1>0, <1>6, RequestIsProper DEF Owning
  <2>1. Quiet /\ Served(Request).ok = (Request.key \in bucket)
    BY <1>0, <2>0, ServedHead
  <2>2. Exposed' \subseteq Exposed
    BY <2>0, <2>1, Narrowing, ExposedNear
  <2>3. Stray' \subseteq Stray
    <3>1. CASE sync.at = "confirm"
      BY <1>0, <2>1, <3>1, StrayNear DEF Quiet, Done
    <3>2. CASE sync.at = "verify" /\ Served(Request).ok
      <4>1. Moves("record", sync.upload)
        BY <1>0, <3>2, ContinueMoves
      <4> QED BY <1>0, <2>1, <4>1, StrayNear DEF Quiet, Done, Moves
    <3>3. CASE sync.at = "verify" /\ ~Served(Request).ok
      <4>1. Current \notin bucket
        BY <1>0, <2>1, <3>3, RequestIsProper
      <4> QED BY <1>0, <2>1, <4>1, StrayNear DEF Quiet
    <3> QED BY <1>6, <3>1, <3>2, <3>3
  <2> QED BY <1>0, <2>2, <2>3, KeptBalances
<1> QED BY <1>0, <1>1, <1>2, <1>3, <1>4, <1>5, <1>6 DEF Asks

LEMMA LoseBalances ==
  ASSUME Gateway, Work, Lose
  PROVE  Balanced
<1>0. Asks /\ record' = record /\ faults' = faults + 1 /\ Records(uploads)
  BY DEF Lose, Gateway
<1>1. CASE Narrows /\ bucket' = bucket
  BY <1>0, <1>1, FaultCovers
<1>2. CASE UNCHANGED <<bucket, uploads>>
  BY <1>1, <1>2, Narrowing
<1>3. CASE Serves(Request) /\ sync.at = "create"
  <2>1. CASE Quiet
    BY <1>1, <2>1, Narrowing DEF Quiet
  <2>2. CASE Opened(Served(Request).id, Current)
    <3>1. sync.at \notin Owning /\ sync.at \notin Done
      BY <1>3 DEF Owning, Done
    <3>2. \E i : Exposed' \subseteq Exposed \cup {i}
      BY <2>2, <3>1, OpenedNear
    <3>3. Stray' \subseteq Stray
      BY <1>0, <2>2, <3>1, StrayNear DEF Opened
    <3> QED BY <1>0, <3>2, <3>3 DEF Balanced
  <2> QED BY <1>3, <2>1, <2>2, CreatedForCurrent
<1>4. CASE Serves(Request) /\ sync.at \in {"recover", "verify", "confirm"}
  <2>1. Quiet
    BY <1>0, <1>4, RequestIsProper, ServedHead
  <2> QED BY <1>1, <2>1, Narrowing DEF Quiet
<1>5. CASE Serves(Request) /\ sync.at = "part"
  <2>1. Quiet
    BY <1>0, <1>5, RequestIsProper, ServedPart DEF Proper
  <2> QED BY <1>1, <2>1, Narrowing DEF Quiet
<1>6. CASE Serves(Request) /\ sync.at = "abort"
  <2>1. Closes(sync.upload)
    BY <1>0, <1>6, RequestIsProper, ServedAbort DEF Proper
  <2> QED BY <1>1, <2>1, Narrowing DEF Closes
<1>7. CASE Serves(Request) /\ sync.at = "complete"
  <2>0. /\ Request.op = "complete" /\ Request.id = sync.upload /\ sync.at \notin Done
        /\ sync.upload \in DOMAIN uploads
    BY <1>0, <1>7, RequestIsProper DEF Proper, Done
  <2>1. CASE Quiet
    BY <1>1, <2>1, Narrowing DEF Quiet
  <2>2. CASE Stores(sync.upload)
    <3>1. Exposed' \subseteq Exposed
      BY <2>2, Narrowing, ExposedNear DEF Stores
    <3>2. Stray' \subseteq Stray \cup {uploads[sync.upload].key}
      BY <1>0, <2>0, <2>2 DEF Stores, Stray
    <3> QED BY <1>0, <3>1, <3>2 DEF Balanced
  <2> QED BY <1>0, <1>7, <2>0, <2>1, <2>2, ServedComplete
<1>8. UNCHANGED <<bucket, uploads>> \/ Serves(Request)
  BY DEF Lose, Serves
<1> QED BY <1>0, <1>2, <1>3, <1>4, <1>5, <1>6, <1>7, <1>8 DEF Asks

LEMMA ArriveBalances ==
  ASSUME Gateway, Arrive
  PROVE  Balanced
<1>1. PICK r \in late : late' = late \ {r} /\ Serves(r)
  BY DEF Arrive, Serves
<1>2. UNCHANGED <<sync, record, faults>> /\ Records(uploads)
  BY DEF Arrive, Gateway
<1>3. r.op \in {"part", "complete", "abort"} /\ r.id \in DOMAIN uploads
  BY DEF Gateway
<1>4. CASE Narrows /\ bucket' = bucket
  <2>1. Exposed' \subseteq Exposed
    BY <1>1, <1>2, <1>4 DEF Narrows, Exposed, Owns
  <2>2. Stray' \subseteq Stray
    BY <1>2, <1>4 DEF Stray, Current
  <2> QED BY <1>2, <2>1, <2>2, KeptBalances
<1>5. CASE r.op = "part"
  BY <1>1, <1>2, <1>3, <1>4, <1>5, ServedPart, Narrowing DEF Quiet
<1>6. CASE r.op = "abort"
  BY <1>1, <1>2, <1>3, <1>4, <1>6, ServedAbort, Narrowing DEF Closes
<1>7. CASE r.op = "complete"
  <2>1. CASE Quiet
    BY <1>4, <2>1, Narrowing DEF Quiet
  <2>2. CASE Stores(r.id)
    <3>1. r.id \in Exposed
      BY <1>3, <1>7, <2>2 DEF Stores, Exposed
    <3>2. Exposed' \subseteq Exposed \ {r.id}
      BY <1>1, <1>2, <2>2 DEF Stores, SameUploads, Exposed, Owns
    <3>3. Stray' \subseteq Stray \cup {uploads[r.id].key}
      BY <1>2, <2>2 DEF Stores, Stray, Current
    <3> QED BY <1>2, <3>1, <3>2, <3>3 DEF Balanced
  <2> QED BY <1>1, <1>2, <1>3, <1>7, <2>1, <2>2, ServedComplete
<1> QED BY <1>3, <1>5, <1>6, <1>7

LEMMA StepBalanced ==
  ASSUME WasteInv, [Next]_vars
  PROVE  Balanced
<1>0. Shape /\ Gateway /\ Work
  BY DEF WasteInv, OffsiteInv
<1>1. CASE Start \/ TakeNext \/ Finish \/ Confirm
  <2>1. UNCHANGED <<bucket, uploads, record, faults>>
    BY <1>1 DEF Start, TakeNext, Finish, Confirm
  <2>2. sync.at \notin Owning /\ sync.at \notin Done
    BY <1>1 DEF Start, TakeNext, Finish, Confirm, Owning, Done
  <2> QED BY <2>1, <2>2, Narrowing, ExposedNear, StrayNear, KeptBalances
<1>2. CASE Record
  <2>1. /\ UNCHANGED <<bucket, uploads, faults>> /\ record' = record \cup {Current}
        /\ sync.at \notin Owning
    BY <1>2 DEF Record, Owning
  <2>2. Exposed' \subseteq Exposed
    BY <2>1, Narrowing, ExposedNear
  <2>3. Stray' \subseteq Stray
    BY <2>1 DEF Stray
  <2> QED BY <2>1, <2>2, <2>3, KeptBalances
<1>3. CASE Exchange
  BY <1>0, <1>3, ExchangeBalances
<1>4. CASE Lose
  BY <1>0, <1>4, LoseBalances
<1>5. CASE Arrive
  BY <1>0, <1>5, ArriveBalances
<1>6. CASE Crash
  BY <1>6, Narrowing, FaultCovers DEF Crash
<1>7. CASE Make \/ Prune \/ UNCHANGED vars
  <2>1. UNCHANGED <<bucket, uploads, late, record, sync, faults>>
    BY <1>7 DEF Make, Prune, vars
  <2>2. Exposed' \subseteq Exposed /\ Stray' \subseteq Stray
    BY <2>1 DEF Exposed, Owns, Stray, Current
  <2> QED BY <2>1, <2>2, KeptBalances
<1> QED BY <1>1, <1>2, <1>3, <1>4, <1>5, <1>6, <1>7 DEF Next, Uploading

\* Uploads left open and second copies of an archive, a day or a month are at most the
\* faults, whatever was late or lost: an open upload that a late completion still
\* closes becomes an object that is not recorded, and such an object, found again,
\* leaves the upload made for it open (r2_backup.py:395-497).
THEOREM WasteBounded == Spec => []FaultsBoundWaste
<1>1. Init => WasteInv /\ Budget
  BY WasteInit
<1>2. WasteInv /\ Budget /\ [Next]_vars => WasteInv' /\ Budget'
  BY WasteNext, StepBalanced, BudgetKept
<1>3. WasteInv /\ Budget => FaultsBoundWaste
  BY BudgetSuffices
<1> QED BY <1>1, <1>2, <1>3, PTL DEF Spec

=============================================================================
