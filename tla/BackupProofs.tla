---------------------------- MODULE BackupProofs ----------------------------
(***************************************************************************)
(* Proofs about Backup for any tenants, rows, tags, names and edits.       *)
(***************************************************************************)
EXTENDS Backup, TLAPS

\* A file is made of whole tables, and they stay whole.
BackupInv ==
  /\ now \in Time /\ edits \in Nat
  /\ tables = [s \in Site |-> tables[s]]
  /\ TablesAreWhole
  /\ file # None => Whole(file)

-----------------------------------------------------------------------------
(* The newest of two rows                                                   *)

Dated(row) == row # None => row.at \in Nat

LEMMA NewestIsOne ==
  ASSUME NEW old, NEW new
  PROVE  /\ Newest(old, new) \in {old, new}
         /\ Newest(old, new) = None <=> old = None /\ new = None
         /\ new = None => Newest(old, new) = old
BY DEF Newest

\* The row that is there stays, or a newer one is put in its place.
LEMMA NewestKeeps ==
  ASSUME NEW old, NEW new, old # None
  PROVE  /\ Newest(old, new) # None
         /\ Newest(old, new) = old \/ old.at < Newest(old, new).at
BY DEF Newest

\* To merge a row again changes nothing and clashes with nothing.
LEMMA NewestTwice ==
  ASSUME NEW old, NEW new, Dated(old), Dated(new), ~Clash(old, new)
  PROVE  /\ Newest(Newest(old, new), new) = Newest(old, new)
         /\ ~Clash(Newest(old, new), new)
BY DEF Newest, Clash, Dated

\* Merged into where it comes from, the newest row is the newest there too.
LEMMA NewestBack ==
  ASSUME NEW old, NEW new, Dated(old), Dated(new), ~Clash(old, new)
  PROVE  Newest(new, Newest(old, new)) = Newest(old, new)
BY DEF Newest, Clash, Dated

-----------------------------------------------------------------------------
(* Tables                                                                   *)

LEMMA TimesAreNat == Time \subseteq Nat
BY BoundAssumption DEF Time

LEMMA TablesParts ==
  ASSUME NEW T, T \in Tables
  PROVE  /\ T = [rows |-> T.rows, notes |-> T.notes, tags |-> T.tags, links |-> T.links,
                 facts |-> T.facts]
         /\ T.rows \in [Row -> Content \cup {None}]
         /\ T.notes \in [Player -> Note \cup {None}]
         /\ T.tags \in [Tag -> TagRow \cup {None}]
         /\ T.links \in [Player \X Tag -> Time \cup {None}]
         /\ T.facts \in SUBSET Fact
BY DEF Tables

LEMMA RowsAreDated ==
  ASSUME NEW T, T \in Tables
  PROVE  /\ \A r \in Row : Dated(T.rows[r])
         /\ \A p \in Player : Dated(T.notes[p])
         /\ \A t \in Tag : Dated(T.tags[t])
<1>1. \A c \in Content \cup {None} : Dated(c)
  BY TimesAreNat DEF Content, Dated
<1>2. \A c \in Note \cup {None} : Dated(c)
  BY TimesAreNat DEF Note, Dated
<1>3. \A c \in TagRow \cup {None} : Dated(c)
  BY TimesAreNat DEF TagRow, Dated
<1> QED BY <1>1, <1>2, <1>3, TablesParts

\* What a merge makes of each table.
IsMerge(M, T, N) ==
  /\ M = [rows |-> M.rows, notes |-> M.notes, tags |-> M.tags, links |-> M.links,
          facts |-> M.facts]
  /\ M.rows = [r \in Row |-> Newest(T.rows[r], N.rows[r])]
  /\ M.notes = [p \in Player |-> Newest(T.notes[p], N.notes[p])]
  /\ M.tags = [t \in Tag |-> Newest(T.tags[t], N.tags[t])]
  /\ M.links = [l \in Player \X Tag |-> IF T.links[l] = None THEN N.links[l] ELSE T.links[l]]
  /\ M.facts = T.facts \cup N.facts

LEMMA MergedParts ==
  ASSUME NEW T, NEW N, T \in Tables, N \in Tables
  PROVE  IsMerge(Merged(T, N), T, N)
<1>1. DOMAIN T.links = Player \X Tag
  BY TablesParts
<1> QED BY <1>1 DEF IsMerge, Merged, MergedNotes, MergedTags, Links

LEMMA MergedTyped ==
  ASSUME NEW T, NEW N, T \in Tables, N \in Tables
  PROVE  Merged(T, N) \in Tables
<1> DEFINE M == Merged(T, N)
<1>0. IsMerge(M, T, N)
  BY MergedParts
<1> HIDE DEF M
<1>1. M.rows \in [Row -> Content \cup {None}]
  BY <1>0, NewestIsOne, TablesParts DEF IsMerge
<1>2. M.notes \in [Player -> Note \cup {None}]
  BY <1>0, NewestIsOne, TablesParts DEF IsMerge
<1>3. M.tags \in [Tag -> TagRow \cup {None}]
  BY <1>0, NewestIsOne, TablesParts DEF IsMerge
<1>4. M.links \in [Player \X Tag -> Time \cup {None}]
  <2>1. \A l \in Player \X Tag : T.links[l] \in Time \cup {None} /\ N.links[l] \in Time \cup {None}
    BY TablesParts
  <2> QED BY <1>0, <2>1 DEF IsMerge
<1>5. M.facts \in SUBSET Fact
  BY <1>0, TablesParts DEF IsMerge
<1>6. M \in Tables
  BY <1>0, <1>1, <1>2, <1>3, <1>4, <1>5 DEF Tables, IsMerge
<1> QED BY <1>6 DEF M

-----------------------------------------------------------------------------
(* Merges                                                                   *)

\* The names a tag meets when its turn comes.
LEMMA AcceptedTags ==
  ASSUME NEW T, NEW N, T \in Tables, N \in Tables, Accepted(T, N)
  PROVE  \A t \in Tag : N.tags[t] # None =>
           /\ ~Clash(T.tags[t], N.tags[t])
           /\ \A u \in Tag \ {t} :
                /\ u < t /\ Merged(T, N).tags[u] # None =>
                     Merged(T, N).tags[u].name # N.tags[t].name
                /\ ~(u < t) /\ T.tags[u] # None => T.tags[u].name # N.tags[t].name
<1>1. Merged(T, N).tags = [t \in Tag |-> Newest(T.tags[t], N.tags[t])]
  <2>1. IsMerge(Merged(T, N), T, N)
    BY MergedParts
  <2> QED BY <2>1 DEF IsMerge
<1>2. MergedTags(T.tags, N.tags).ok
  BY DEF Accepted
<1> QED BY <1>1, <1>2 DEF MergedTags

\* The names a tag of one file meets when it is merged are its own again.
LEMMA MergedNames ==
  ASSUME NEW T, NEW N, Whole(T), Whole(N), Accepted(T, N),
         NEW t \in Tag, NEW u \in Tag, u < t,
         Merged(T, N).tags[t] # None, Merged(T, N).tags[u] # None
  PROVE  Merged(T, N).tags[t].name # Merged(T, N).tags[u].name
<1> DEFINE M == Merged(T, N)
<1>1. T \in Tables /\ N \in Tables /\ t # u /\ ~(t < u)
  BY TagAssumption DEF Whole
<1>2. IsMerge(M, T, N)
  BY <1>1, MergedParts
<1> HIDE DEF M
<1>3. CASE N.tags[t] # None /\ M.tags[t] = N.tags[t]
  <2>1. M.tags[u].name # N.tags[t].name
    BY <1>1, <1>3, AcceptedTags DEF M
  <2> QED BY <1>3, <2>1 DEF M
<1>4. CASE M.tags[t] = T.tags[t] /\ N.tags[u] # None /\ M.tags[u] = N.tags[u]
  <2>1. T.tags[t] # None
    BY <1>4 DEF M
  <2>2. T.tags[t].name # N.tags[u].name
    BY <1>1, <1>4, <2>1, AcceptedTags
  <2> QED BY <1>4, <2>2 DEF M
<1>5. CASE M.tags[t] = T.tags[t] /\ M.tags[u] = T.tags[u]
  BY <1>1, <1>5 DEF Whole, M
<1> QED BY <1>2, <1>3, <1>4, <1>5, NewestIsOne DEF M, IsMerge

\* A merge that is accepted leaves whole tables.
LEMMA MergedWhole ==
  ASSUME NEW T, NEW N, Whole(T), Whole(N), Accepted(T, N)
  PROVE  Whole(Merged(T, N))
<1> DEFINE M == Merged(T, N)
<1>1. T \in Tables /\ N \in Tables
  BY DEF Whole
<1>2. IsMerge(M, T, N)
  BY <1>1, MergedParts
<1>3. M \in Tables
  BY <1>1, MergedTyped
<1>4. \A t, u \in Tag : t # u /\ M.tags[t] # None /\ M.tags[u] # None =>
        M.tags[t].name # M.tags[u].name
  <2>1. ASSUME NEW t \in Tag, NEW u \in Tag, t # u, M.tags[t] # None, M.tags[u] # None
        PROVE  M.tags[t].name # M.tags[u].name
    <3>1. u < t \/ t < u
      BY <2>1, TagAssumption
    <3> QED BY <2>1, <3>1, MergedNames
  <2> QED BY <2>1
<1> HIDE DEF M
<1>5. \A r \in Row : T.rows[r] # None \/ N.rows[r] # None => M.rows[r] # None
  BY <1>2, NewestIsOne DEF IsMerge
<1>6. \A t \in Tag : T.tags[t] # None \/ N.tags[t] # None => M.tags[t] # None
  BY <1>2, NewestIsOne DEF IsMerge
<1>7. \A p \in Player : M.notes[p] # None => M.rows[p] # None
  BY <1>2, <1>5, NewestIsOne, RowAssumption DEF Whole, IsMerge
<1>8. \A l \in Player \X Tag : M.links[l] # None => M.rows[l[1]] # None /\ M.tags[l[2]] # None
  <2>1. ASSUME NEW l \in Player \X Tag, M.links[l] # None
        PROVE  M.rows[l[1]] # None /\ M.tags[l[2]] # None
    <3>1. l[1] \in Row /\ l[2] \in Tag
      BY RowAssumption
    <3>2. T.links[l] # None \/ N.links[l] # None
      BY <1>2, <2>1 DEF IsMerge
    <3> QED BY <1>5, <1>6, <3>1, <3>2 DEF Whole
  <2> QED BY <2>1
<1>9. Whole(M)
  BY <1>3, <1>4, <1>7, <1>8 DEF Whole
<1> QED BY <1>9 DEF M

\* It keeps what was there, and the file merged again changes nothing.
LEMMA MergedTwice ==
  ASSUME NEW T, NEW N, Whole(T), Whole(N), Accepted(T, N)
  PROVE  /\ Keeps(T, Merged(T, N))
         /\ Accepted(Merged(T, N), N)
         /\ Merged(Merged(T, N), N) = Merged(T, N)
<1> DEFINE M == Merged(T, N)
           MM == Merged(M, N)
<1>1. T \in Tables /\ N \in Tables /\ Whole(M) /\ M \in Tables
  BY MergedWhole DEF Whole
<1>2. IsMerge(M, T, N)
  BY <1>1, MergedParts
<1>3. IsMerge(MM, M, N)
  BY <1>1, MergedParts
<1>4. /\ \A r \in Row : ~Clash(T.rows[r], N.rows[r]) /\ Dated(T.rows[r]) /\ Dated(N.rows[r])
      /\ \A p \in Player : ~Clash(T.notes[p], N.notes[p]) /\ Dated(T.notes[p]) /\ Dated(N.notes[p])
      /\ \A t \in Tag : ~Clash(T.tags[t], N.tags[t]) /\ Dated(T.tags[t]) /\ Dated(N.tags[t])
  <2>1. \A t \in Tag : ~Clash(T.tags[t], N.tags[t])
    BY <1>1, AcceptedTags DEF Clash
  <2> QED BY <1>1, <2>1, RowsAreDated DEF Accepted
<1> HIDE DEF M, MM
<1>5. Keeps(T, M)
  BY <1>2, NewestKeeps DEF Keeps, IsMerge
<1>6. MM = M
  <2>1. MM.rows = M.rows
    BY <1>2, <1>3, <1>4, NewestTwice DEF IsMerge
  <2>2. MM.notes = M.notes
    BY <1>2, <1>3, <1>4, NewestTwice DEF IsMerge
  <2>3. MM.tags = M.tags
    BY <1>2, <1>3, <1>4, NewestTwice DEF IsMerge
  <2>4. MM.links = M.links
    BY <1>2, <1>3 DEF IsMerge
  <2>5. MM.facts = M.facts
    BY <1>2, <1>3 DEF IsMerge
  <2> QED BY <1>2, <1>3, <2>1, <2>2, <2>3, <2>4, <2>5 DEF IsMerge
<1>7. Accepted(M, N)
  <2>1. Resolved(M, N)
    <3>1. \A p \in Player : N.notes[p] # None => N.rows[p] # None
      BY DEF Whole
    <3>2. \A l \in Player \X Tag : N.links[l] # None => N.rows[l[1]] # None /\ N.tags[l[2]] # None
      BY DEF Whole
    <3> QED BY <3>1, <3>2 DEF Resolved
  <2>2. \A r \in Row : ~Clash(M.rows[r], N.rows[r])
    BY <1>2, <1>4, NewestTwice DEF IsMerge
  <2>3. \A p \in Player : ~Clash(M.notes[p], N.notes[p])
    BY <1>2, <1>4, NewestTwice DEF IsMerge
  <2>4. \A l \in Player \X Tag :
          M.links[l] # None /\ N.links[l] # None => M.links[l] = N.links[l]
    BY <1>2 DEF Accepted, IsMerge
  <2>5. MergedTags(M.tags, N.tags).ok
    <3>1. ASSUME NEW t \in Tag, N.tags[t] # None,
                 NEW u \in Tag \ {t}, NEW there,
                 there = IF u < t THEN Newest(M.tags[u], N.tags[u]) ELSE M.tags[u],
                 there # None
          PROVE  there.name # N.tags[t].name
      <4>1. there = M.tags[u]
        BY <1>2, <1>4, <3>1, NewestTwice DEF IsMerge
      <4>2. CASE u < t
        BY <1>1, <3>1, <4>1, <4>2, AcceptedTags DEF M
      <4>3. CASE ~(u < t) /\ M.tags[u] = T.tags[u]
        BY <1>1, <3>1, <4>1, <4>3, AcceptedTags
      <4>4. CASE M.tags[u] = N.tags[u]
        BY <3>1, <4>1, <4>4 DEF Whole
      <4> QED BY <1>2, <4>2, <4>3, <4>4, NewestIsOne DEF IsMerge
    <3>2. \A t \in Tag : ~Clash(M.tags[t], N.tags[t])
      BY <1>2, <1>4, NewestTwice DEF IsMerge
    <3> QED BY <3>1, <3>2 DEF MergedTags
  <2> QED BY <2>1, <2>2, <2>3, <2>4, <2>5 DEF Accepted
<1> QED BY <1>5, <1>6, <1>7 DEF M, MM

\* What has been merged, merged into where the file came from, ends there alike.
LEMMA MergedBack ==
  ASSUME NEW T, NEW N, T \in Tables, N \in Tables,
         Accepted(T, N), Accepted(N, Merged(T, N))
  PROVE  Merged(N, Merged(T, N)) = Merged(T, N)
<1> DEFINE M == Merged(T, N)
           B == Merged(N, M)
<1>1. M \in Tables
  BY MergedTyped
<1>2. IsMerge(M, T, N)
  BY MergedParts
<1>3. IsMerge(B, N, M)
  BY <1>1, MergedParts
<1>4. /\ \A r \in Row : ~Clash(T.rows[r], N.rows[r]) /\ Dated(T.rows[r]) /\ Dated(N.rows[r])
      /\ \A p \in Player : ~Clash(T.notes[p], N.notes[p]) /\ Dated(T.notes[p]) /\ Dated(N.notes[p])
      /\ \A t \in Tag : ~Clash(T.tags[t], N.tags[t]) /\ Dated(T.tags[t]) /\ Dated(N.tags[t])
  <2>1. \A t \in Tag : ~Clash(T.tags[t], N.tags[t])
    BY AcceptedTags DEF Clash
  <2> QED BY <2>1, RowsAreDated DEF Accepted
<1>5. \A l \in Player \X Tag : T.links[l] # None /\ N.links[l] # None => T.links[l] = N.links[l]
  BY DEF Accepted
<1> HIDE DEF M, B
<1>6. B.rows = M.rows
  BY <1>2, <1>3, <1>4, NewestBack DEF IsMerge
<1>7. B.notes = M.notes
  BY <1>2, <1>3, <1>4, NewestBack DEF IsMerge
<1>8. B.tags = M.tags
  BY <1>2, <1>3, <1>4, NewestBack DEF IsMerge
<1>9. B.links = M.links
  BY <1>2, <1>3, <1>5 DEF IsMerge
<1>10. B.facts = M.facts
  BY <1>2, <1>3 DEF IsMerge
<1>11. B = M
  BY <1>2, <1>3, <1>6, <1>7, <1>8, <1>9, <1>10 DEF IsMerge
<1> QED BY <1>11 DEF M, B

-----------------------------------------------------------------------------
(* Steps                                                                    *)

LEMMA EmptyIsWhole == Whole(Empty)
BY DEF Whole, Empty, Tables

LEMMA OneSite ==
  ASSUME BackupInv, NEW s \in Site, NEW new, Whole(new),
         tables' = [tables EXCEPT ![s] = new], edits' \in {edits, edits + 1},
         UNCHANGED <<now, file>>
  PROVE  BackupInv'
<1>1. \A r \in Site : tables'[r] = new \/ tables'[r] = tables[r]
  BY DEF BackupInv
<1>2. tables' = [r \in Site |-> tables'[r]]
  BY DEF BackupInv
<1>3. TablesAreWhole'
  <2>1. \A r \in Site : Whole(tables'[r])
    BY <1>1 DEF BackupInv, TablesAreWhole
  <2> QED BY <2>1 DEF TablesAreWhole
<1> QED BY <1>2, <1>3 DEF BackupInv

\* A row more, or written again, leaves the tables whole.
LEMMA WriteKeeps ==
  ASSUME BackupInv, NEW s \in Site, NEW r \in Row, Write(s, r)
  PROVE  BackupInv'
<1> DEFINE T == tables[s]
           row == [at |-> now, by |-> s]
           new == [T EXCEPT !.rows[r] = row]
<1>1. Whole(T) /\ T \in Tables
  BY DEF BackupInv, TablesAreWhole, Whole
<1>2. row \in Content /\ row # None
  BY NoneAssumption DEF BackupInv, Content
<1>3. /\ new = [rows |-> new.rows, notes |-> T.notes, tags |-> T.tags, links |-> T.links,
                facts |-> T.facts]
      /\ new.rows = [T.rows EXCEPT ![r] = row]
      /\ new.notes = T.notes /\ new.tags = T.tags /\ new.links = T.links /\ new.facts = T.facts
  BY <1>1, TablesParts
<1>4. tables' = [tables EXCEPT ![s] = new] /\ edits' = edits + 1 /\ UNCHANGED <<now, file>>
  BY DEF Write, Edit
<1> HIDE DEF new, row
<1>5. new.rows \in [Row -> Content \cup {None}]
  BY <1>1, <1>2, <1>3, TablesParts
<1>6. new \in Tables
  BY <1>1, <1>3, <1>5, TablesParts DEF Tables
<1>7. \A q \in Row : T.rows[q] # None => new.rows[q] # None
  BY <1>1, <1>2, <1>3, TablesParts
<1>8. Whole(new)
  BY <1>1, <1>3, <1>6, <1>7, RowAssumption DEF Whole
<1> QED BY <1>4, <1>8, OneSite

\* So does a record more.
LEMMA ObserveKeeps ==
  ASSUME BackupInv, NEW s \in Site, NEW f \in Fact, Observe(s, f)
  PROVE  BackupInv'
<1> DEFINE T == tables[s]
           facts == T.facts \cup {f}
           new == [T EXCEPT !.facts = facts]
<1>1. Whole(T) /\ T \in Tables
  BY DEF BackupInv, TablesAreWhole, Whole
<1>2. facts \in SUBSET Fact
  BY <1>1, TablesParts
<1>3. tables' = [tables EXCEPT ![s] = new] /\ edits' = edits + 1 /\ UNCHANGED <<now, file>>
  BY DEF Observe, Edit
<1> HIDE DEF facts
<1>4. /\ new = [rows |-> T.rows, notes |-> T.notes, tags |-> T.tags, links |-> T.links,
                facts |-> facts]
      /\ new.rows = T.rows /\ new.notes = T.notes /\ new.tags = T.tags /\ new.links = T.links
  BY <1>1, TablesParts
<1> HIDE DEF new
<1>5. new \in Tables
  BY <1>1, <1>2, <1>4, TablesParts DEF Tables
<1>6. Whole(new)
  BY <1>1, <1>4, <1>5 DEF Whole
<1> QED BY <1>3, <1>6, OneSite

\* A note is of a player who is there.
LEMMA AnnotateKeeps ==
  ASSUME BackupInv, NEW s \in Site, NEW p \in Player, NEW mine \in BOOLEAN, Annotate(s, p, mine)
  PROVE  BackupInv'
<1> DEFINE T == tables[s]
           note == [at |-> now, by |-> s, revision |-> edits + 1]
           new == [T EXCEPT !.notes[p] = note]
<1>1. Whole(T) /\ T \in Tables
  BY DEF BackupInv, TablesAreWhole, Whole
<1>2. note \in Note
  BY DEF BackupInv, Note
<1>3. /\ new = [rows |-> T.rows, notes |-> new.notes, tags |-> T.tags, links |-> T.links,
                facts |-> T.facts]
      /\ new.notes = [T.notes EXCEPT ![p] = note]
      /\ new.rows = T.rows /\ new.tags = T.tags /\ new.links = T.links
  BY <1>1, TablesParts
<1>4. /\ tables' = [tables EXCEPT ![s] = new] /\ edits' = edits + 1 /\ UNCHANGED <<now, file>>
      /\ T.rows[p] # None
  BY DEF Annotate, Edit
<1> HIDE DEF new, note
<1>5. new.notes \in [Player -> Note \cup {None}]
  BY <1>1, <1>2, <1>3, TablesParts
<1>6. new \in Tables
  BY <1>1, <1>3, <1>5, TablesParts DEF Tables
<1>7. \A q \in Player : q # p => new.notes[q] = T.notes[q]
  BY <1>1, <1>3, TablesParts
<1>8. Whole(new)
  BY <1>1, <1>3, <1>4, <1>6, <1>7 DEF Whole
<1> QED BY <1>4, <1>8, OneSite

\* A tag is given a name that no other has.
LEMMA NameTagKeeps ==
  ASSUME BackupInv, NEW s \in Site, NEW t \in Tag, NEW name \in Name, NameTag(s, t, name)
  PROVE  BackupInv'
<1> DEFINE T == tables[s]
           tag == [at |-> now, name |-> name]
           new == [T EXCEPT !.tags[t] = tag]
<1>1. Whole(T) /\ T \in Tables
  BY DEF BackupInv, TablesAreWhole, Whole
<1>2. tag \in TagRow /\ tag # None /\ tag.name = name
  BY NoneAssumption DEF BackupInv, TagRow
<1>3. /\ new = [rows |-> T.rows, notes |-> T.notes, tags |-> new.tags, links |-> T.links,
                facts |-> T.facts]
      /\ new.tags = [T.tags EXCEPT ![t] = tag]
      /\ new.rows = T.rows /\ new.notes = T.notes /\ new.links = T.links
  BY <1>1, TablesParts
<1>4. /\ tables' = [tables EXCEPT ![s] = new] /\ edits' = edits + 1 /\ UNCHANGED <<now, file>>
      /\ \A u \in Tag \ {t} : T.tags[u] # None => T.tags[u].name # name
  BY DEF NameTag, Edit
<1> HIDE DEF new, tag
<1>5. new.tags \in [Tag -> TagRow \cup {None}]
  BY <1>1, <1>2, <1>3, TablesParts
<1>6. new \in Tables
  BY <1>1, <1>3, <1>5, TablesParts DEF Tables
<1>7. new.tags[t] = tag /\ \A u \in Tag : u # t => new.tags[u] = T.tags[u]
  BY <1>1, <1>3, TablesParts
<1>8. \A l \in Player \X Tag : new.links[l] # None => new.rows[l[1]] # None /\ new.tags[l[2]] # None
  BY <1>1, <1>2, <1>3, <1>7 DEF Whole
<1>9. Whole(new)
  BY <1>1, <1>2, <1>3, <1>4, <1>6, <1>7, <1>8 DEF Whole
<1> QED BY <1>4, <1>9, OneSite

\* A tag takes its assignments along.
LEMMA DeleteTagKeeps ==
  ASSUME BackupInv, NEW s \in Site, NEW t \in Tag, DeleteTag(s, t)
  PROVE  BackupInv'
<1> DEFINE T == tables[s]
           links == [l \in DOMAIN T.links |-> IF l[2] = t THEN None ELSE T.links[l]]
           new == [T EXCEPT !.tags[t] = None, !.links = links]
<1>1. Whole(T) /\ T \in Tables
  BY DEF BackupInv, TablesAreWhole, Whole
<1>2. links = [l \in Player \X Tag |-> IF l[2] = t THEN None ELSE T.links[l]]
  BY <1>1, TablesParts
<1>3. tables' = [tables EXCEPT ![s] = new] /\ edits' = edits + 1 /\ UNCHANGED <<now, file>>
  BY DEF DeleteTag, Edit
<1> HIDE DEF links
<1>4. /\ new = [rows |-> T.rows, notes |-> T.notes, tags |-> new.tags, links |-> links,
                facts |-> T.facts]
      /\ new.tags = [T.tags EXCEPT ![t] = None] /\ new.links = links
      /\ new.rows = T.rows /\ new.notes = T.notes
  <2> DEFINE without == [T EXCEPT !.tags[t] = None]
  <2>1. new = [without EXCEPT !.links = links]
    OBVIOUS
  <2>2. /\ without = [rows |-> T.rows, notes |-> T.notes, tags |-> without.tags,
                      links |-> T.links, facts |-> T.facts]
        /\ without.tags = [T.tags EXCEPT ![t] = None]
    BY <1>1, TablesParts
  <2> HIDE DEF without, new
  <2> QED BY <2>1, <2>2
<1> HIDE DEF new
<1>5. new.tags \in [Tag -> TagRow \cup {None}]
  BY <1>1, <1>4, TablesParts
<1>6. links \in [Player \X Tag -> Time \cup {None}]
  <2>1. \A l \in Player \X Tag : T.links[l] \in Time \cup {None}
    BY <1>1, TablesParts
  <2> QED BY <1>2, <2>1
<1>7. new \in Tables
  BY <1>1, <1>4, <1>5, <1>6, TablesParts DEF Tables
<1>8. new.tags[t] = None /\ \A u \in Tag : u # t => new.tags[u] = T.tags[u]
  BY <1>1, <1>4, TablesParts
<1>9. \A l \in Player \X Tag : new.links[l] # None => new.links[l] = T.links[l] /\ l[2] # t
  BY <1>2, <1>4
<1>10. Whole(new)
  BY <1>1, <1>4, <1>7, <1>8, <1>9 DEF Whole
<1> QED BY <1>3, <1>10, OneSite

\* An assignment is of a player and a tag that are there.
LEMMA LinkKeeps ==
  ASSUME BackupInv, NEW s \in Site, NEW p \in Player, NEW t \in Tag,
         Assign(s, p, t) \/ Unassign(s, p, t)
  PROVE  BackupInv'
<1> DEFINE T == tables[s]
<1>1. Whole(T) /\ T \in Tables
  BY DEF BackupInv, TablesAreWhole, Whole
<1>2. PICK value \in Time \cup {None} :
        /\ tables' = [tables EXCEPT ![s] = [T EXCEPT !.links[<<p, t>>] = value]]
        /\ edits' = edits + 1 /\ UNCHANGED <<now, file>>
        /\ value # None => T.rows[p] # None /\ T.tags[t] # None
  BY DEF Assign, Unassign, Edit, BackupInv
<1> DEFINE new == [T EXCEPT !.links[<<p, t>>] = value]
<1>3. /\ new = [rows |-> T.rows, notes |-> T.notes, tags |-> T.tags, links |-> new.links,
                facts |-> T.facts]
      /\ new.links = [T.links EXCEPT ![<<p, t>>] = value]
      /\ new.rows = T.rows /\ new.notes = T.notes /\ new.tags = T.tags
  BY <1>1, TablesParts
<1>4. tables' = [tables EXCEPT ![s] = new]
  BY <1>2
<1> HIDE DEF new
<1>5. new.links \in [Player \X Tag -> Time \cup {None}]
  BY <1>1, <1>2, <1>3, TablesParts
<1>6. new \in Tables
  BY <1>1, <1>3, <1>5, TablesParts DEF Tables
<1>7. \A l \in Player \X Tag : new.links[l] # None => new.rows[l[1]] # None /\ new.tags[l[2]] # None
  <2>1. ASSUME NEW l \in Player \X Tag, new.links[l] # None
        PROVE  T.rows[l[1]] # None /\ T.tags[l[2]] # None
    <3>1. CASE l = <<p, t>>
      <4>1. new.links[l] = value
        BY <1>1, <1>3, <3>1, TablesParts
      <4> QED BY <1>2, <2>1, <3>1, <4>1
    <3>2. CASE l # <<p, t>>
      <4>1. new.links[l] = T.links[l]
        BY <1>1, <1>3, <3>2, TablesParts
      <4> QED BY <1>1, <2>1, <4>1 DEF Whole
    <3> QED BY <3>1, <3>2
  <2> QED BY <1>3, <2>1
<1>8. Whole(new)
  BY <1>1, <1>3, <1>6, <1>7 DEF Whole
<1> QED BY <1>2, <1>4, <1>8, OneSite

\* A file is a tenant's tables, without the raw records of a core backup.
LEMMA ExportKeeps ==
  ASSUME BackupInv, NEW s \in Site, Export(s)
  PROVE  BackupInv'
<1> DEFINE T == tables[s]
<1>1. Whole(T) /\ T \in Tables
  BY DEF BackupInv, TablesAreWhole, Whole
<1>2. PICK facts \in SUBSET Fact : file' = [T EXCEPT !.facts = facts]
  BY <1>1, TablesParts DEF Export, Exported
<1>3. /\ file' = [rows |-> T.rows, notes |-> T.notes, tags |-> T.tags, links |-> T.links,
                  facts |-> facts]
  BY <1>1, <1>2, TablesParts
<1>4. file' \in Tables
  BY <1>1, <1>3, TablesParts DEF Tables
<1>5. Whole(file')
  BY <1>1, <1>3, <1>4 DEF Whole
<1>6. UNCHANGED <<now, edits, tables>>
  BY DEF Export
<1> QED BY <1>5, <1>6 DEF BackupInv, TablesAreWhole

LEMMA ImportKeeps ==
  ASSUME BackupInv, NEW s \in Site, Import(s)
  PROVE  BackupInv'
<1>1. Whole(Merged(tables[s], file))
  BY MergedWhole DEF BackupInv, TablesAreWhole, Import
<1>2. tables' = [tables EXCEPT ![s] = Merged(tables[s], file)] /\ UNCHANGED <<now, edits, file>>
  BY DEF Import
<1> QED BY <1>1, <1>2, OneSite

LEMMA BackupNext == BackupInv /\ [Next]_vars => BackupInv'
<1> SUFFICES ASSUME BackupInv, [Next]_vars PROVE BackupInv'
  OBVIOUS
<1>1. CASE Tick
  BY <1>1, BoundAssumption DEF Tick, BackupInv, TablesAreWhole, Time
<1>2. ASSUME NEW s \in Site, NEW p \in Player, Open(s, p)
      PROVE  BackupInv'
  BY <1>2 DEF Open, BackupInv, TablesAreWhole
<1>3. CASE UNCHANGED vars
  BY <1>3 DEF vars, BackupInv, TablesAreWhole
<1> QED BY <1>1, <1>2, <1>3, WriteKeeps, ObserveKeeps, AnnotateKeeps, NameTagKeeps,
           DeleteTagKeeps, LinkKeeps, ExportKeeps, ImportKeeps DEF Next

LEMMA BackupInit == Init => BackupInv
<1> SUFFICES ASSUME Init PROVE BackupInv
  OBVIOUS
<1>1. now \in Time /\ edits \in Nat /\ tables = [s \in Site |-> tables[s]] /\ file = None
  BY BoundAssumption DEF Init, Time
<1>2. \A s \in Site : Whole(tables[s])
  BY EmptyIsWhole DEF Init
<1> QED BY <1>1, <1>2 DEF BackupInv, TablesAreWhole

LEMMA BackupAlways == Spec => []BackupInv
<1> QED BY BackupInit, BackupNext, PTL DEF Spec

-----------------------------------------------------------------------------
(* Revisions of notes                                                       *)

\* No copy has a revision that is still to be drawn, and none has that of another.
RevisionInv ==
  /\ browser = [s \in Site |-> [p \in Player |-> browser[s][p]]]
  /\ \A p \in Player : \A x \in Copies(p) : x \in Note \cup {None} /\ Revision(x) \in 0..edits
  /\ RevisionNamesNote

LEMMA CopiesKept ==
  ASSUME BackupInv, RevisionInv, edits' \in {edits, edits + 1},
         \A p \in Player : Copies(p)' \subseteq Copies(p),
         browser' = [s \in Site |-> [p \in Player |-> browser'[s][p]]]
  PROVE  RevisionInv'
<1>1. edits \in Nat
  BY DEF BackupInv
<1>2. \A p \in Player : \A x \in Copies(p)' : x \in Note \cup {None} /\ Revision(x) \in 0..edits'
  BY <1>1 DEF RevisionInv
<1>3. \A p \in Player : \A x, y \in Copies(p)' : Revision(x) = Revision(y) => x = y
  BY DEF RevisionInv, RevisionNamesNote
<1> QED BY <1>2, <1>3 DEF RevisionInv, RevisionNamesNote

\* An edit of anything but a note.
LEMMA NotesKept ==
  ASSUME BackupInv, RevisionInv, NEW s \in Site, NEW new, new.notes = tables[s].notes,
         Edit(s, new), UNCHANGED browser
  PROVE  RevisionInv'
<1>1. \A r \in Site : tables'[r].notes = tables[r].notes
  BY DEF Edit, BackupInv
<1>2. \A p \in Player : Copies(p)' \subseteq Copies(p)
  BY <1>1 DEF Edit, Copies
<1> QED BY <1>2, CopiesKept DEF Edit, RevisionInv

LEMMA EditsKeepNotes ==
  ASSUME BackupInv, RevisionInv, NEW s \in Site,
         \/ \E r \in Row : Write(s, r)
         \/ \E f \in Fact : Observe(s, f)
         \/ \E t \in Tag, name \in Name : NameTag(s, t, name)
         \/ \E t \in Tag : DeleteTag(s, t)
         \/ \E p \in Player, t \in Tag : Assign(s, p, t) \/ Unassign(s, p, t)
  PROVE  RevisionInv'
<1> DEFINE T == tables[s]
<1>1. T = [rows |-> T.rows, notes |-> T.notes, tags |-> T.tags, links |-> T.links,
           facts |-> T.facts]
  BY TablesParts DEF BackupInv, TablesAreWhole, Whole
<1>2. \A value : [T EXCEPT !.rows = value].notes = T.notes
  BY <1>1
<1>3. ASSUME NEW r \in Row, Write(s, r) PROVE RevisionInv'
  BY <1>1, <1>3, NotesKept DEF Write
<1>4. ASSUME NEW f \in Fact, Observe(s, f) PROVE RevisionInv'
  BY <1>1, <1>4, NotesKept DEF Observe
<1>5. ASSUME NEW t \in Tag, NEW name \in Name, NameTag(s, t, name) PROVE RevisionInv'
  BY <1>1, <1>5, NotesKept DEF NameTag
<1>6. ASSUME NEW t \in Tag, DeleteTag(s, t) PROVE RevisionInv'
  BY <1>1, <1>6, NotesKept DEF DeleteTag
<1>7. ASSUME NEW p \in Player, NEW t \in Tag, Assign(s, p, t) PROVE RevisionInv'
  BY <1>1, <1>7, NotesKept DEF Assign
<1>8. ASSUME NEW p \in Player, NEW t \in Tag, Unassign(s, p, t) PROVE RevisionInv'
  BY <1>1, <1>8, NotesKept DEF Unassign
<1> QED BY <1>3, <1>4, <1>5, <1>6, <1>7, <1>8

\* A browser shows one copy more.
LEMMA OpenNames ==
  ASSUME BackupInv, RevisionInv, NEW s \in Site, NEW p \in Player, Open(s, p)
  PROVE  RevisionInv'
<1>1. /\ browser' = [browser EXCEPT ![s][p] = tables[s].notes[p]]
      /\ UNCHANGED <<edits, tables, file>>
  BY DEF Open
<1>2. \A r \in Site, q \in Player :
        browser'[r][q] = IF r = s /\ q = p THEN tables[s].notes[p] ELSE browser[r][q]
  BY <1>1 DEF RevisionInv
<1>3. \A q \in Player : Copies(q)' \subseteq Copies(q)
  BY <1>1, <1>2 DEF Copies
<1>4. browser' = [r \in Site |-> [q \in Player |-> browser'[r][q]]]
  BY <1>1 DEF RevisionInv
<1> QED BY <1>1, <1>3, <1>4, CopiesKept

\* A save draws a revision that no copy has.
LEMMA AnnotateNames ==
  ASSUME BackupInv, RevisionInv, NEW s \in Site, NEW p \in Player, NEW mine \in BOOLEAN,
         Annotate(s, p, mine)
  PROVE  RevisionInv'
<1> DEFINE T == tables[s]
           note == [at |-> now, by |-> s, revision |-> edits + 1]
           new == [T EXCEPT !.notes[p] = note]
<1>1. T \in Tables /\ edits \in Nat
  BY DEF BackupInv, TablesAreWhole, Whole
<1>2. note \in Note /\ note # None /\ Revision(note) = edits + 1
  BY NoneAssumption DEF BackupInv, Note, Revision
<1>3. /\ tables' = [tables EXCEPT ![s] = new] /\ edits' = edits + 1 /\ UNCHANGED file
      /\ browser' = IF mine THEN [browser EXCEPT ![s][p] = note] ELSE browser
  BY DEF Annotate, Edit
<1> HIDE DEF note
<1>4. new.notes = [T.notes EXCEPT ![p] = note] /\ T.notes \in [Player -> Note \cup {None}]
  BY <1>1, TablesParts
<1> HIDE DEF new
<1>5. \A r \in Site, q \in Player :
        tables'[r].notes[q] \in {tables[r].notes[q]} \cup (IF q = p THEN {note} ELSE {})
  BY <1>3, <1>4 DEF BackupInv
<1>6. \A r \in Site, q \in Player :
        browser'[r][q] \in {browser[r][q]} \cup (IF q = p THEN {note} ELSE {})
  BY <1>3 DEF RevisionInv
<1>7. \A q \in Player : \A x \in Copies(q)' : x \in Copies(q) \/ x = note
  <2> SUFFICES ASSUME NEW q \in Player, NEW x \in Copies(q)' PROVE x \in Copies(q) \/ x = note
    OBVIOUS
  <2>1. CASE \E r \in Site : x = tables'[r].notes[q]
    BY <1>5, <2>1 DEF Copies
  <2>2. CASE \E r \in Site : x = browser'[r][q]
    BY <1>6, <2>2 DEF Copies
  <2>3. CASE file # None /\ x = file.notes[q]
    BY <2>3 DEF Copies
  <2> QED BY <1>3, <2>1, <2>2, <2>3 DEF Copies
<1>8. \A q \in Player : \A x \in Copies(q) :
        x \in Note \cup {None} /\ Revision(x) \in 0..edits /\ Revision(x) # Revision(note)
  BY <1>1, <1>2 DEF RevisionInv
<1>9. \A q \in Player : \A x \in Copies(q)' : x \in Note \cup {None} /\ Revision(x) \in 0..edits'
  BY <1>1, <1>2, <1>3, <1>7, <1>8
<1>10. \A q \in Player : \A x, y \in Copies(q)' : Revision(x) = Revision(y) => x = y
  BY <1>7, <1>8 DEF RevisionInv, RevisionNamesNote
<1>11. browser' = [r \in Site |-> [q \in Player |-> browser'[r][q]]]
  BY <1>3 DEF RevisionInv
<1> QED BY <1>9, <1>10, <1>11 DEF RevisionInv, RevisionNamesNote

\* The file takes the notes of a tenant.
LEMMA ExportNames ==
  ASSUME BackupInv, RevisionInv, NEW s \in Site, Export(s)
  PROVE  RevisionInv'
<1>1. tables[s] \in Tables /\ UNCHANGED <<edits, tables, browser>>
  BY DEF BackupInv, TablesAreWhole, Whole, Export
<1>2. file'.notes = tables[s].notes
  <2>1. PICK facts : file' = [tables[s] EXCEPT !.facts = facts]
    BY DEF Export, Exported
  <2> QED BY <1>1, <2>1, TablesParts
<1>3. \A p \in Player : Copies(p)' \subseteq Copies(p)
  BY <1>1, <1>2 DEF Copies
<1> QED BY <1>1, <1>3, CopiesKept DEF RevisionInv

\* A merge takes every note whole, from the tenant or from the file.
LEMMA ImportNames ==
  ASSUME BackupInv, RevisionInv, NEW s \in Site, Import(s)
  PROVE  RevisionInv'
<1> DEFINE M == Merged(tables[s], file)
<1>1. /\ tables' = [tables EXCEPT ![s] = M] /\ file # None
      /\ UNCHANGED <<edits, file, browser>>
  BY DEF Import
<1>2. IsMerge(M, tables[s], file)
  BY <1>1, MergedParts DEF BackupInv, TablesAreWhole, Whole
<1> HIDE DEF M
<1>3. \A p \in Player : M.notes[p] \in {tables[s].notes[p], file.notes[p]}
  BY <1>2, NewestIsOne DEF IsMerge
<1>4. \A r \in Site : tables'[r] = IF r = s THEN M ELSE tables[r]
  <2>1. tables = [r \in Site |-> tables[r]]
    BY DEF BackupInv
  <2> QED BY <1>1, <2>1
<1>5. \A r \in Site, p \in Player :
        tables'[r].notes[p] \in {tables[r].notes[p], file.notes[p]}
  BY <1>3, <1>4
<1>6. \A p \in Player : Copies(p)' \subseteq Copies(p)
  BY <1>1, <1>5 DEF Copies
<1> QED BY <1>1, <1>6, CopiesKept DEF RevisionInv

LEMMA RevisionNext == BackupInv /\ RevisionInv /\ [Next]_vars => RevisionInv'
<1> SUFFICES ASSUME BackupInv, RevisionInv, [Next]_vars PROVE RevisionInv'
  OBVIOUS
<1>1. CASE UNCHANGED <<edits, tables, file, browser>>
  BY <1>1, CopiesKept DEF Copies, RevisionInv
<1> QED BY <1>1, EditsKeepNotes, OpenNames, AnnotateNames, ExportNames, ImportNames
        DEF Next, Tick, vars

LEMMA RevisionInit == Init => RevisionInv
<1> SUFFICES ASSUME Init PROVE RevisionInv
  OBVIOUS
<1>1. \A p \in Player : \A x \in Copies(p) : x = None
  BY DEF Init, Empty, Copies
<1>2. browser = [s \in Site |-> [p \in Player |-> browser[s][p]]] /\ edits = 0
  BY DEF Init
<1> QED BY <1>1, <1>2 DEF RevisionInv, RevisionNamesNote, Revision

-----------------------------------------------------------------------------

\* Whatever is edited, exported and merged (backup_v3.py:801-979), notes and
\* assignments have their player and their tag, and names of tags stay unique.
THEOREM MergesKeepTablesWhole == Spec => []TablesAreWhole
<1>1. BackupInv => TablesAreWhole
  BY DEF BackupInv
<1> QED BY <1>1, BackupAlways, PTL

\* An import takes nothing back, and the same file, imported again after a lost
\* answer (app.py:1177), is accepted and changes nothing.
THEOREM ImportIsIdempotent == Spec => []ImportOnlyAddsOnce
<1>1. BackupInv => ImportOnlyAddsOnce
  <2> SUFFICES ASSUME BackupInv, NEW s \in Site, file # None, Accepted(tables[s], file)
               PROVE  /\ Keeps(tables[s], Merged(tables[s], file))
                      /\ Accepted(Merged(tables[s], file), file)
                      /\ Merged(Merged(tables[s], file), file) = Merged(tables[s], file)
    BY DEF ImportOnlyAddsOnce
  <2> QED BY MergedTwice DEF BackupInv, TablesAreWhole
<1> QED BY <1>1, BackupAlways, PTL

\* Two tenants that import each other's backups end up alike, or one is refused.
THEOREM ImportsConverge == Spec => []SitesConverge
<1>1. BackupInv => SitesConverge
  <2> SUFFICES ASSUME BackupInv, NEW s \in Site, NEW r \in Site,
                      Accepted(tables[s], tables[r]),
                      Accepted(tables[r], Merged(tables[s], tables[r]))
               PROVE  Merged(tables[r], Merged(tables[s], tables[r]))
                        = Merged(tables[s], tables[r])
    BY DEF SitesConverge
  <2>1. tables[s] \in Tables /\ tables[r] \in Tables
    BY DEF BackupInv, TablesAreWhole, Whole
  <2> QED BY <2>1, MergedBack
<1> QED BY <1>1, BackupAlways, PTL

\* Two copies of a note with one revision are one note, wherever files and imports
\* (backup_v3.py:736-772) have carried them: put_annotation, which compares nothing
\* but revisions (organization.py:210), replaces the note that was shown.
THEOREM RevisionsNameNotes == Spec => []RevisionNamesNote
<1>1. RevisionInv => RevisionNamesNote
  BY DEF RevisionInv
<1> QED BY <1>1, BackupInit, BackupNext, RevisionInit, RevisionNext, PTL DEF Spec

=============================================================================
