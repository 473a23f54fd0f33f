--------------------------- MODULE OffsiteBackup ---------------------------
(***************************************************************************)
(* Off-site copies of the database (scripts/backup_hosted.py,              *)
(* scripts/r2_backup.py, infra/r2-backup-worker/src/index.js): one process *)
(* writes artifacts and removes old ones, another uploads what it finds    *)
(* through a gateway that stores objects in parts, and remembers in a      *)
(* state file what it has uploaded.  Requests and answers get lost, a      *)
(* request that the client has given up may still arrive, and either       *)
(* process is restarted at any time.                                       *)
(***************************************************************************)
EXTENDS Integers, Sequences, FiniteSets, SequencesExt

CONSTANTS
  MaxTime,      \* bound on the clock, in runs of the process that writes artifacts
  Keep,         \* how many artifacts stay on disk
  PerDay,       \* times of a day
  PerMonth,     \* times of a month
  Content(_),   \* digest of the archive of a time: a database that has not changed
                \* is compressed to the same bytes
  Parts,        \* parts of an artifact
  Attempts,     \* how often a request is tried
  MaxFaults     \* bound on lost requests, lost answers and crashes

ASSUME CountAssumption ==
  /\ {MaxTime, MaxFaults} \subseteq Nat
  /\ {Keep, PerDay, PerMonth, Parts, Attempts} \subseteq Nat \ {0}

VARIABLES
  made,     \* the last artifact made; an artifact is the time of its making
  disk,     \* artifacts on disk
  bad,      \* those of them whose archive is not what their manifest says
  bucket,   \* keys of the objects stored
  uploads,  \* multipart uploads by id
  late,     \* requests under way that nobody waits for
  record,   \* .offsite-state.json: the keys uploaded
  success,  \* .last-offsite-success.json: the key in it, if it is there
  sync,     \* the process that uploads
  faults    \* number of faults so far

vars == <<made, disk, bad, bucket, uploads, late, record, success, sync, faults>>

Artifact == 1..MaxTime
Tiers == {"hourly", "daily", "monthly"}
Key == [tier: Tiers, artifact: Artifact]

\* Mutant: every tier is by day.
MarkerByDay(key) == (key.artifact - 1) \div PerDay

\* What an upload is remembered under: its digest, its day or its month
Marker(key) ==
  CASE key.tier = "hourly" -> Content(key.artifact)
    [] key.tier = "daily" -> (key.artifact - 1) \div PerDay
    [] key.tier = "monthly" -> (key.artifact - 1) \div PerMonth

Alike(k, l) == k.tier = l.tier /\ Marker(k) = Marker(l)

Recorded(key) == \E k \in record : Alike(k, key)

\* The key that is recorded for it, which is of the first artifact with that digest
RecordOf(key) == CHOOSE k \in record : Alike(k, key)

KeyOf(tier, a) == [tier |-> tier, artifact |-> a]

\* The keys of a pass in order: every artifact, and the last of a day and a month
Wanted(files) ==
  LET Ascending(S) == SetToSortSeq(S, LAMBDA a, b : a < b)
      LastOf(tier) == {a \in files : \A b \in files :
                         Marker(KeyOf(tier, b)) = Marker(KeyOf(tier, a)) => b <= a}
      Keys(tier, S) == [i \in DOMAIN Ascending(S) |-> KeyOf(tier, Ascending(S)[i])]
  IN Keys("hourly", files) \o Keys("daily", LastOf("daily"))
       \o Keys("monthly", LastOf("monthly"))

Idle == [at |-> "idle", todo |-> <<>>, newest |-> 0, upload |-> 0, part |-> 0, tries |-> 0,
         fresh |-> FALSE]

-----------------------------------------------------------------------------
(* The gateway                                                              *)

\* createUpload, uploadPart, completeUpload, abortUpload, exactObject: what a
\* request does and whether it succeeds
Answer(b, u, ok, id) == [bucket |-> b, uploads |-> u, ok |-> ok, id |-> id]

Created(key) ==
  IF key \in bucket THEN Answer(bucket, uploads, TRUE, 0)
  ELSE Answer(bucket, Append(uploads, [key |-> key, parts |-> {}, open |-> TRUE]),
              TRUE, Len(uploads) + 1)

PartStored(id, n) ==
  IF uploads[id].open
  THEN Answer(bucket, [uploads EXCEPT ![id].parts = @ \cup {n}], TRUE, id)
  ELSE Answer(bucket, uploads, FALSE, id)

Completed(id) ==
  IF uploads[id].key \in bucket THEN Answer(bucket, uploads, TRUE, id)
  ELSE IF uploads[id].open /\ uploads[id].parts = 1..Parts
  THEN Answer(bucket \cup {uploads[id].key}, [uploads EXCEPT ![id].open = FALSE], TRUE, id)
  ELSE Answer(bucket, uploads, FALSE, id)

Aborted(id) == Answer(bucket, [uploads EXCEPT ![id].open = FALSE], uploads[id].open, id)

Served(request) ==
  CASE request.op = "create" -> Created(request.key)
    [] request.op = "part" -> PartStored(request.id, request.part)
    [] request.op = "complete" -> Completed(request.id)
    [] request.op = "abort" -> Aborted(request.id)
    [] request.op = "head" -> Answer(bucket, uploads, request.key \in bucket, 0)

-----------------------------------------------------------------------------
(* The uploading process                                                    *)

Current == Head(sync.todo)

Newest == KeyOf("hourly", sync.newest)

\* The request a place in upload or sync_once makes
Request ==
  [op |-> CASE sync.at \in {"recover", "verify", "confirm"} -> "head"
            [] OTHER -> sync.at,
   key |-> IF sync.at = "confirm" THEN RecordOf(Newest) ELSE Current,
   id |-> sync.upload, part |-> sync.part]

Asks == sync.at \in {"create", "part", "complete", "recover", "abort", "verify", "confirm"}

\* Mutant: what is not confirmed is taken for done.
TrustsCompletion(place) ==
  CASE place = "part" -> "abort"
    [] place = "complete" -> "recover"
    [] place = "recover" -> "record"
    [] OTHER -> "idle"

\* Where an error leads: a completion may have happened, an upload is given back.
AfterError(place) ==
  CASE place \in {"part", "recover"} -> "abort"
    [] place = "complete" -> "recover"
    [] OTHER -> "idle"

Fails == sync' = [IF AfterError(sync.at) = "idle" THEN Idle ELSE sync
                    EXCEPT !.at = AfterError(sync.at), !.tries = 0]

Goes(place) == sync' = [sync EXCEPT !.at = place, !.tries = 0]

\* Mutant: the file is opened before there is anything to give back.
OpensUnguarded(here, id) ==
  IF here THEN [sync EXCEPT !.at = "part", !.upload = id, !.part = 1, !.tries = 0] ELSE Idle

\* The archive is opened when the upload exists; it may be gone by then.
Opens(here, id) ==
  [sync EXCEPT !.at = IF here THEN "part" ELSE "abort", !.upload = id, !.part = 1, !.tries = 0]

\* What the client makes of an answer
Continue(answer) ==
  CASE ~answer.ok -> Fails
    [] sync.at = "create" /\ answer.ok ->
         IF answer.id = 0 THEN Goes("verify")
         ELSE sync' = Opens(Current.artifact \in disk, answer.id)
    [] sync.at = "part" /\ answer.ok ->
         IF sync.part < Parts THEN sync' = [sync EXCEPT !.part = @ + 1, !.tries = 0]
         ELSE Goes("complete")
    [] sync.at = "complete" /\ answer.ok -> Goes("verify")
    [] sync.at \in {"recover", "verify"} /\ answer.ok -> Goes("record")
    [] sync.at \in {"abort", "confirm"} /\ answer.ok -> sync' = Idle

Init ==
  /\ made = 0
  /\ disk = {}
  /\ bad = {}
  /\ bucket = {}
  /\ uploads = <<>>
  /\ late = {}
  /\ record = {}
  /\ success = {}
  /\ sync = Idle
  /\ faults = 0

\* sync_once: the artifacts with a manifest; none is an error.
Start ==
  /\ sync.at = "idle" /\ disk # {}
  /\ sync' = [Idle EXCEPT !.at = "next", !.todo = Wanted(disk),
                          !.newest = CHOOSE a \in disk : \A b \in disk : b <= a]
  /\ UNCHANGED <<made, disk, bad, bucket, uploads, late, record, success, faults>>

\* upload_for: what is recorded is passed over. An archive that is gone, or has not
\* the size or the checksum of its manifest, is an error, and ends the pass.
TakeNext ==
  /\ sync.at = "next"
  /\ sync' = IF sync.todo = <<>> THEN [sync EXCEPT !.at = "newest"]
             ELSE IF Recorded(Current) THEN [sync EXCEPT !.todo = Tail(@)]
             ELSE IF Current.artifact \in disk \ bad THEN [sync EXCEPT !.at = "create", !.tries = 0]
             ELSE Idle
  /\ UNCHANGED <<made, disk, bad, bucket, uploads, late, record, success, faults>>

\* A request is served and answered. What is looked up to confirm the newest artifact
\* is an error if it is of an earlier one: the time of making is compared too.
Exchange ==
  /\ Asks
  /\ bucket' = Served(Request).bucket /\ uploads' = Served(Request).uploads
  /\ Continue(Served(Request))
  /\ success' = IF sync.at = "confirm" /\ Served(Request).ok /\ Request.key = Newest
                THEN {Newest} ELSE success
  /\ UNCHANGED <<made, disk, bad, late, record, faults>>

\* A request is lost, or is served and its answer is lost, or is late; it is tried
\* again, and at last given up.
Lose ==
  /\ Asks /\ faults < MaxFaults
  /\ faults' = faults + 1
  /\ \/ UNCHANGED <<bucket, uploads, late>>
     \/ /\ bucket' = Served(Request).bucket /\ uploads' = Served(Request).uploads
        /\ UNCHANGED late
     \/ /\ sync.at \in {"part", "complete", "abort"} /\ late' = late \cup {Request}
        /\ UNCHANGED <<bucket, uploads>>
  /\ IF sync.tries + 1 < Attempts THEN sync' = [sync EXCEPT !.tries = @ + 1] ELSE Fails
  /\ UNCHANGED <<made, disk, bad, record, success>>

Arrive ==
  /\ \E request \in late :
       /\ late' = late \ {request}
       /\ bucket' = Served(request).bucket /\ uploads' = Served(request).uploads
  /\ UNCHANGED <<made, disk, bad, record, success, sync, faults>>

\* The state file is written once the object has been seen.
Record ==
  /\ sync.at = "record"
  /\ record' = record \cup {Current}
  /\ sync' = [sync EXCEPT !.at = "next", !.todo = Tail(@),
                          !.fresh = @ \/ Alike(Current, Newest)]
  /\ UNCHANGED <<made, disk, bad, bucket, uploads, late, success, faults>>

\* The marker of success is written when the newest archive was uploaded in this
\* pass, and stays as it is while it is recent.
Finish ==
  /\ sync.at = "newest"
  /\ \/ sync.fresh /\ success' = {RecordOf(Newest)}
     \/ ~sync.fresh /\ success # {} /\ UNCHANGED success
  /\ sync' = Idle
  /\ UNCHANGED <<made, disk, bad, bucket, uploads, late, record, faults>>

\* Mutant: a marker of success is recent for ever.
TrustsMarker ==
  /\ sync.at = "newest" /\ ~sync.fresh /\ success = {}
  /\ sync' = [sync EXCEPT !.at = "confirm", !.tries = 0]
  /\ UNCHANGED <<made, disk, bad, bucket, uploads, late, record, success, faults>>

\* Otherwise the newest archive is looked up again.
Confirm ==
  /\ sync.at = "newest" /\ ~sync.fresh
  /\ sync' = [sync EXCEPT !.at = "confirm", !.tries = 0]
  /\ UNCHANGED <<made, disk, bad, bucket, uploads, late, record, success, faults>>

Crash ==
  /\ sync.at # "idle" /\ faults < MaxFaults
  /\ faults' = faults + 1
  /\ late' = late \cup (IF sync.at \in {"part", "complete", "abort"} THEN {Request} ELSE {})
  /\ sync' = Idle
  /\ UNCHANGED <<made, disk, bad, bucket, uploads, record, success>>

-----------------------------------------------------------------------------
(* The process that writes artifacts                                        *)

\* create_artifact and verify_artifact; an archive that fails the verification is
\* left where it is.
Make ==
  /\ \E a \in made + 1 .. MaxTime :
       /\ made' = a
       /\ disk' = disk \cup {a}
       /\ bad' \in {bad, bad \cup {a}}
  /\ UNCHANGED <<bucket, uploads, late, record, success, sync, faults>>

\* backup removes all but the newest once the newest has been verified.
Prune ==
  /\ made \notin bad
  /\ \E a \in disk :
       /\ Cardinality({b \in disk : b > a}) >= Keep
       /\ disk' = disk \ {a} /\ bad' = bad \ {a}
  /\ UNCHANGED <<made, bucket, uploads, late, record, success, sync, faults>>

Uploading == Start \/ TakeNext \/ Exchange \/ Record \/ Finish \/ Confirm

Next == Uploading \/ Lose \/ Arrive \/ Crash \/ Make \/ Prune

Spec == Init /\ [][Next]_vars

\* The uploading process runs for ever with its interval, and is started again; a
\* marker of success is recent for two hours only.
FairSpec == Spec /\ WF_vars(Uploading) /\ SF_vars(Confirm)

-----------------------------------------------------------------------------

TypeOK ==
  /\ made \in 0..MaxTime /\ disk \subseteq 1..made /\ bad \subseteq disk
  /\ bucket \subseteq Key /\ record \subseteq Key /\ success \subseteq Key
  /\ uploads \in Seq([key: Key, parts: SUBSET (1..Parts), open: BOOLEAN])
  /\ faults \in 0..MaxFaults

\* What the state file and the marker of success claim is in the bucket,
\* whatever was lost, late or restarted: a completed upload whose answer is lost
\* is recorded only after the object has been seen.
RecordedIsStored == record \cup success \subseteq bucket

\* An upload is left open, and an archive, a day or a month has a second copy, only
\* by a fault, and by each fault at most one: an archive that is removed meanwhile
\* leaves none, and a database that has not changed is not uploaded again.
FaultsBoundWaste ==
  LET left == {i \in DOMAIN uploads : uploads[i].open
                 /\ ~(i = sync.upload /\ sync.at \in {"part", "complete", "recover", "abort"})}
      again == {k \in bucket : \E l \in bucket : Alike(l, k) /\ l.artifact < k.artifact}
  IN Cardinality(left) + Cardinality(again) <= faults

\* An archive that is not what its manifest says ends every pass that comes to it,
\* and nothing that is later is uploaded while it is there.
Blocked(a) == \E b \in bad : b <= a

\* The bytes of an artifact are in the bucket, under the key of this one or of another.
Holds(keys, a) == \E k \in keys : k.tier = "hourly" /\ Content(k.artifact) = Content(a)

\* What an artifact holds is stored off-site in the end, unless it is removed or
\* blocked. A database that has not changed is stored once.
BackupLeaves ==
  \A a \in Artifact : a \in disk ~> Holds(bucket, a) \/ a \notin disk \/ Blocked(a)

\* The marker of success comes to name the newest artifact, also when the process
\* was restarted between the upload and the marker. Excepted: the bytes were there
\* before, under an earlier key, which the look-up refuses to confirm.
SuccessFollows ==
  \A a \in Artifact :
    a = made /\ a \in disk ~>
      \/ KeyOf("hourly", a) \in success
      \/ made # a \/ bad # {}
      \/ Holds({k \in bucket : k.artifact < a}, a)

=============================================================================
