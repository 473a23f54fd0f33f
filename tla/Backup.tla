------------------------------- MODULE Backup -------------------------------
(***************************************************************************)
(* Portable backups (server/backup_v3.py, the import of server/storage.py  *)
(* and the routes of server/app.py): a tenant of one deployment is         *)
(* exported to a file while people go on editing, and the file is merged   *)
(* into a tenant that has lived a life of its own, at another deployment   *)
(* or at the same one later.  An export reads one snapshot and an import   *)
(* is one transaction under store.lock, so each is a step.                 *)
(***************************************************************************)
EXTENDS Integers

CONSTANTS
  Site,       \* tenants that exchange files
  Row,        \* players, and the preferences: rows that only have a time
  Player,     \* the rows that are players
  Tag,        \* tag ids, in order
  Name,       \* tag names, without regard to case
  Fact,       \* append-only records: events, samples, anomalies, responses
  Raw,        \* those of them that only a full backup has
  Reader,     \* tenants with a browser that shows a note
  None,       \* no row, no file
  MaxTime,    \* bound on the clock
  MaxEdits    \* bound on what people and collectors do

ASSUME RowAssumption == Player \subseteq Row /\ Raw \subseteq Fact /\ Reader \subseteq Site
ASSUME TagAssumption == Tag \subseteq Nat
ASSUME BoundAssumption == MaxTime \in Nat /\ MaxEdits \in Nat

VARIABLES
  now,      \* the clock
  edits,    \* number of edits so far
  tables,   \* the tables of each tenant
  file,     \* the backup file, or None
  browser   \* the note a browser shows, of each tenant and player

vars == <<now, edits, tables, file, browser>>

Time == 0..MaxTime

\* What was written and when; who wrote it stands for the content.
Content == [at: Time, by: Site]

Note == [at: Time, by: Site, revision: Nat]

TagRow == [at: Time, name: Name]

ASSUME NoneAssumption == None \notin Nat \cup Content \cup Note \cup TagRow

Tables ==
  [rows: [Row -> Content \cup {None}],
   notes: [Player -> Note \cup {None}],
   tags: [Tag -> TagRow \cup {None}],
   links: [Player \X Tag -> Time \cup {None}],
   facts: SUBSET Fact]

Empty ==
  [rows |-> [r \in Row |-> None], notes |-> [p \in Player |-> None],
   tags |-> [t \in Tag |-> None], links |-> [l \in Player \X Tag |-> None], facts |-> {}]

-----------------------------------------------------------------------------
(* The merge                                                                *)

\* Mutant: what is imported stays.
ImportWins(old, new) == IF new = None THEN old ELSE new

\* _merge_mutable, and the same rule in ingest and for preferences: the newer
\* row stays.
Newest(old, new) ==
  IF new = None THEN old
  ELSE IF old = None \/ old.at < new.at THEN new
  ELSE old

\* Mutant: of two rows of one time the one that is there stays.
NeverClash(old, new) == FALSE

\* Two rows of one time that differ: the import is refused.
Clash(old, new) == old # None /\ new # None /\ old # new /\ old.at = new.at

\* Mutant: the row of a note that is replaced keeps its own revision.
NotesKeepRevision(old, new) ==
  [p \in Player |->
     IF old[p] = None \/ Newest(old[p], new[p]) = old[p] THEN Newest(old[p], new[p])
     ELSE [new[p] EXCEPT !.revision = old[p].revision]]

\* The rows of friend_annotations, revision included
MergedNotes(old, new) == [p \in Player |-> Newest(old[p], new[p])]

\* A link is in the table once, with the time at which it was made.
Links(old, new) == [l \in DOMAIN old |-> IF old[l] = None THEN new[l] ELSE old[l]]

\* Mutant: the database knows tags by their id.
TagsById(old, new) ==
  [ok |-> \A t \in Tag : ~Clash(old[t], new[t]),
   tags |-> [t \in Tag |-> Newest(old[t], new[t])]]

\* The tags one by one in order of id: no other tag has the name already, among
\* those merged before it and those that come after it.
MergedTags(old, new) ==
  LET tags == [t \in Tag |-> Newest(old[t], new[t])]
      There(t, u) == IF u < t THEN tags[u] ELSE old[u]
      Taken(t) == \E u \in Tag \ {t} : There(t, u) # None /\ There(t, u).name = new[t].name
  IN [ok |-> \A t \in Tag : new[t] # None => ~Taken(t) /\ ~Clash(old[t], new[t]),
      tags |-> tags]

\* _validate_references: what the file or the tenant does not have is not named.
Resolved(old, new) ==
  /\ \A p \in Player : new.notes[p] # None => new.rows[p] # None \/ old.rows[p] # None
  /\ \A l \in Player \X Tag : new.links[l] # None =>
       /\ new.rows[l[1]] # None \/ old.rows[l[1]] # None
       /\ new.tags[l[2]] # None \/ old.tags[l[2]] # None

\* import_tenant_backup and _merge_staged
Merged(old, new) ==
  [rows |-> [r \in Row |-> Newest(old.rows[r], new.rows[r])],
   notes |-> MergedNotes(old.notes, new.notes),
   tags |-> MergedTags(old.tags, new.tags).tags,
   links |-> Links(old.links, new.links),
   facts |-> old.facts \cup new.facts]

\* Whether they end without an error; otherwise everything is rolled back.
Accepted(old, new) ==
  /\ Resolved(old, new)
  /\ \A r \in Row : ~Clash(old.rows[r], new.rows[r])
  /\ \A p \in Player : ~Clash(old.notes[p], new.notes[p])
  /\ MergedTags(old.tags, new.tags).ok
  /\ \A l \in Player \X Tag :
       old.links[l] # None /\ new.links[l] # None => old.links[l] = new.links[l]

\* _iter_tenant_json
Exported(s, full) ==
  [tables[s] EXCEPT !.facts = IF full THEN @ ELSE @ \ Raw]

-----------------------------------------------------------------------------
(* What people and collectors do meanwhile                                  *)

Init ==
  /\ now = 0
  /\ edits = 0
  /\ tables = [s \in Site |-> Empty]
  /\ file = None
  /\ browser = [s \in Site |-> [p \in Player |-> None]]

Tick ==
  /\ now < MaxTime
  /\ now' = now + 1
  /\ UNCHANGED <<edits, tables, file, browser>>

Edit(s, new) ==
  /\ edits < MaxEdits
  /\ edits' = edits + 1
  /\ tables' = [tables EXCEPT ![s] = new]
  /\ UNCHANGED <<now, file>>

\* No row is written twice at one time.
Fresh(row) == row # None => row.at < now

\* A snapshot writes a player; set_timezone writes the preferences.
Write(s, r) ==
  /\ Fresh(tables[s].rows[r])
  /\ Edit(s, [tables[s] EXCEPT !.rows[r] = [at |-> now, by |-> s]])
  /\ UNCHANGED browser

\* The ledgers grow.
Observe(s, f) ==
  /\ f \notin UNION {tables[u].facts : u \in Site} /\ (file # None => f \notin file.facts)
  /\ Edit(s, [tables[s] EXCEPT !.facts = @ \cup {f}])
  /\ UNCHANGED browser

\* A revision is a random token, drawn for every save (secrets.token_urlsafe): here
\* the number of the edit, so that no two saves of any tenant draw the same.
Revision(note) == IF note = None THEN 0 ELSE note.revision

\* The browser reads the note.
Open(s, p) ==
  /\ s \in Reader /\ tables[s].rows[p] # None
  /\ browser[s][p] # tables[s].notes[p]
  /\ browser' = [browser EXCEPT ![s][p] = tables[s].notes[p]]
  /\ UNCHANGED <<now, edits, tables, file>>

\* put_annotation, with the revision of the browser or of a device that has just
\* read the note
Annotate(s, p, mine) ==
  LET old == tables[s].notes[p]
      new == [at |-> now, by |-> s, revision |-> edits + 1]
  IN /\ tables[s].rows[p] # None /\ Fresh(old)
     /\ mine => s \in Reader /\ Revision(browser[s][p]) = Revision(old)
     /\ Edit(s, [tables[s] EXCEPT !.notes[p] = new])
     /\ browser' = IF mine THEN [browser EXCEPT ![s][p] = new] ELSE browser

\* Ids are random: one that has been somewhere is not made again.
NewTag(t) ==
  /\ \A s \in Site : tables[s].tags[t] = None
  /\ file # None => file.tags[t] = None

\* create_tag and update_tag: no other tag has the name.
NameTag(s, t, name) ==
  /\ tables[s].tags[t] # None \/ NewTag(t)
  /\ Fresh(tables[s].tags[t])
  /\ \A u \in Tag \ {t} : tables[s].tags[u] # None => tables[s].tags[u].name # name
  /\ Edit(s, [tables[s] EXCEPT !.tags[t] = [at |-> now, name |-> name]])
  /\ UNCHANGED browser

\* delete_tag, with its assignments
DeleteTag(s, t) ==
  /\ tables[s].tags[t] # None
  /\ Edit(s, [tables[s] EXCEPT
       !.tags[t] = None,
       !.links = [l \in DOMAIN @ |-> IF l[2] = t THEN None ELSE @[l]]])
  /\ UNCHANGED browser

Assign(s, p, t) ==
  /\ tables[s].rows[p] # None /\ tables[s].tags[t] # None /\ tables[s].links[<<p, t>>] = None
  /\ Edit(s, [tables[s] EXCEPT !.links[<<p, t>>] = now])
  /\ UNCHANGED browser

Unassign(s, p, t) ==
  /\ tables[s].links[<<p, t>>] # None
  /\ Edit(s, [tables[s] EXCEPT !.links[<<p, t>>] = None])
  /\ UNCHANGED browser

-----------------------------------------------------------------------------
(* Export and import                                                        *)

\* stream_tenant_backup
Export(s) ==
  /\ \E full \in BOOLEAN : file' = Exported(s, full)
  /\ UNCHANGED <<now, edits, tables, browser>>

\* import_tenant_backup; refused, it changes nothing.
Import(s) ==
  /\ file # None /\ Accepted(tables[s], file)
  /\ tables' = [tables EXCEPT ![s] = Merged(@, file)]
  /\ UNCHANGED <<now, edits, file, browser>>

Next ==
  \/ Tick
  \/ \E s \in Site :
       \/ \E r \in Row : Write(s, r)
       \/ \E f \in Fact : Observe(s, f)
       \/ \E p \in Player : Open(s, p) \/ \E mine \in BOOLEAN : Annotate(s, p, mine)
       \/ \E t \in Tag, name \in Name : NameTag(s, t, name)
       \/ \E t \in Tag : DeleteTag(s, t)
       \/ \E p \in Player, t \in Tag : Assign(s, p, t) \/ Unassign(s, p, t)
       \/ Export(s)
       \/ Import(s)

Spec == Init /\ [][Next]_vars

-----------------------------------------------------------------------------

\* Notes and assignments have their player and their tag, and no two tags share a
\* name.
Whole(T) ==
  /\ T \in Tables
  /\ \A p \in Player : T.notes[p] # None => T.rows[p] # None
  /\ \A l \in Player \X Tag : T.links[l] # None => T.rows[l[1]] # None /\ T.tags[l[2]] # None
  /\ \A t, u \in Tag : t # u /\ T.tags[t] # None /\ T.tags[u] # None =>
       T.tags[t].name # T.tags[u].name

\* Nothing hangs in the air, whatever was merged: notes and assignments have
\* their player and their tag, and no two tags of a tenant share a name.
TablesAreWhole == \A s \in Site : Whole(tables[s])

\* What is there is still there, or has a newer row in its place.
Keeps(old, new) ==
  LET Kept(was, is) == was # None => is # None /\ (is = was \/ was.at < is.at)
  IN /\ \A r \in Row : Kept(old.rows[r], new.rows[r])
     /\ \A p \in Player : Kept(old.notes[p], new.notes[p])
     /\ \A t \in Tag : Kept(old.tags[t], new.tags[t])
     /\ \A l \in Player \X Tag : old.links[l] # None => new.links[l] = old.links[l]
     /\ old.facts \subseteq new.facts

\* An import removes nothing and takes nothing back, and the file imported once
\* more, as after a lost answer, is accepted and changes nothing.
ImportOnlyAddsOnce ==
  \A s \in Site :
    LET T == tables[s]
        M == Merged(T, file)
    IN file # None /\ Accepted(T, file) =>
         /\ Keeps(T, M)
         /\ Accepted(M, file) /\ Merged(M, file) = M

\* Two tenants that import each other's backups end up alike, whoever is first
\* and whatever each has renamed, deleted or noted since, unless one is refused.
SitesConverge ==
  \A s, r \in Site :
    LET M == Merged(tables[s], tables[r])
    IN Accepted(tables[s], tables[r]) /\ Accepted(tables[r], M)
         => Merged(tables[r], M) = M

\* Every copy there is of a player's note: in a tenant's table, in the file, in the
\* hands of a browser
Copies(p) ==
  {tables[s].notes[p] : s \in Site} \cup {browser[s][p] : s \in Site}
    \cup (IF file = None THEN {} ELSE {file.notes[p]})

\* A revision names one text, wherever imports have carried it: put_annotation
\* compares nothing else, so a browser's save replaces the note it shows and not
\* one that an import has put in its place.
RevisionNamesNote ==
  \A p \in Player : \A x, y \in Copies(p) : Revision(x) = Revision(y) => x = y

=============================================================================
