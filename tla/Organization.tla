---------------------------- MODULE Organization ----------------------------
(***************************************************************************)
(* What the users of one tenant keep on the server beside the collected    *)
(* data: the note of a friend and the dashboard, both saved with the       *)
(* revision the browser last saw (put_annotation, put_dashboard); tags;    *)
(* and the published copy of the dashboard with its visitors.  Browsers    *)
(* are src/web/src/components/FriendDialog.tsx and DashboardView.tsx.      *)
(* Requests and answers are lost and delayed.                              *)
(***************************************************************************)
EXTENDS Integers, Sequences, FiniteSets

CONSTANTS
  Device,      \* browsers of the tenant's users
  Visitor,     \* browsers of people the dashboard is shared with
  Text,        \* what a note or a dashboard can say
  Password,    \* passwords of a share
  Tag,         \* ids of tags; create_tag takes a fresh one
  Name,        \* spellings of tag names
  Fold(_),     \* str.casefold
  Blank,       \* the empty note, the default dashboard
  None,        \* no value
  Gone,        \* a deleted tag
  MaxWrites,   \* bound on stored documents, publications and tag changes
  MaxLate      \* bound on requests given up on and still under way

ASSUME TextAssumption == Blank \in Text /\ None \notin Text
ASSUME PasswordAssumption == None \notin Password
ASSUME NameAssumption == None \notin Name /\ Gone \notin Name /\ None # Gone
ASSUME DeviceAssumption == None \notin Device
ASSUME TagAssumption == None \notin Tag
ASSUME BoundAssumption == MaxWrites \in Nat /\ MaxLate \in Nat

VARIABLES
  doc,       \* which document it is, "note" or "board": their tables do not meet
  row,       \* its row in friend_annotations or dashboard_configs; revision 0 is no row
  author,    \* history: the browser whose save stored the row
  page,      \* what a browser shows
  late,      \* requests whose browser has given up on them
  cache,     \* the revision a browser has cached
  draft,     \* DASHBOARD_DRAFT_KEY in sessionStorage
  share,     \* the row of dashboard_shares; version 0 is no row
  sessions,  \* dashboard_share_sessions
  tag,       \* tags: the name of an id
  tagged,    \* friend_tags of one friend
  adding,    \* the tag a browser has created and not yet assigned
  shown,     \* history: the newest revision a browser has shown
  texts,     \* history: the text of every revision
  writes     \* counts against MaxWrites

vars == <<doc, row, author, page, late, cache, draft, share, sessions, tag, tagged, adding,
          shown, texts, writes>>

docs == <<doc, row, author, page, late, cache, draft, shown, texts>>
shares == <<share, sessions>>
labels == <<tag, tagged, adding>>

-----------------------------------------------------------------------------
(* Types                                                                    *)

Request == [text: Text, rev: Nat]
LateRequest == [by: Device, text: Text, rev: Nat]

\* at: the page is closed, open, has a request under way ("saving") or an answer
\* to it ("saved", "refused").  theirs is the document of a conflict.
Page == [at: {"closed", "open", "saving", "saved", "refused"},
         text: Text, base: Text, rev: Nat,
         sent: Request, theirs: Request,
         conflict: BOOLEAN]

Nothing == [text |-> Blank, rev |-> 0]
Closed == [at |-> "closed", text |-> Blank, base |-> Blank, rev |-> 0,
           sent |-> Nothing, theirs |-> Nothing, conflict |-> FALSE]

Init ==
  /\ doc \in {"note", "board"}
  /\ row = Nothing
  /\ author = None
  /\ page = [d \in Device |-> Closed]
  /\ late = {}
  /\ cache = [d \in Device |-> None]
  /\ draft = [d \in Device |-> None]
  /\ share = [version |-> 0, open |-> FALSE, password |-> None]
  /\ sessions = {}
  /\ tag = [i \in Tag |-> None]
  /\ tagged = {}
  /\ adding = [d \in Device |-> None]
  /\ shown = [d \in Device |-> -1]
  /\ texts = <<>>
  /\ writes = 0

\* A write the bound still admits.
Counted == writes < MaxWrites /\ writes' = writes + 1

-----------------------------------------------------------------------------
(* put_annotation and put_dashboard                                         *)

\* The revision is that of the row, or both are missing.
Accepts(rev) == rev = row.rev

\* The row with its new revision, a random token: here the next number.
Store(text, by) ==
  /\ Counted
  /\ author' = by
  /\ row' = [text |-> text, rev |-> row.rev + 1]
  /\ texts' = Append(texts, text)

-----------------------------------------------------------------------------
(* A browser                                                                *)

Dirty(d) == page[d].text # page[d].base

\* The page after an answer, or none: nothing is under way.
Settled(p, conflict) ==
  [p EXCEPT !.at = "open", !.sent = Nothing, !.conflict = conflict,
            !.theirs = IF conflict THEN @ ELSE Nothing]

\* The text of a revision.
TextAt(rev) == IF rev = 0 THEN Blank ELSE texts[rev]

\* What a page looks like when it first shows a revision.
Fresh(rev, text) ==
  [Closed EXCEPT !.at = "open", !.text = text, !.base = TextAt(rev), !.rev = rev]

Shows(d, rev) == shown' = [shown EXCEPT ![d] = IF rev > @ THEN rev ELSE @]

\* What the browser has cached, or what the server answers.
Fetched(d) == IF cache[d] = None THEN row.rev ELSE cache[d]

\* The dialog loads a friend's note once: what the cache has is shown, and what
\* the server answers then only goes into the cache.
OpenNote(d) ==
  /\ doc = "note" /\ page[d].at = "closed"
  /\ page' = [page EXCEPT ![d] = Fresh(Fetched(d), TextAt(Fetched(d)))]
  /\ \E rev \in {Fetched(d), row.rev} : cache' = [cache EXCEPT ![d] = rev]
  /\ Shows(d, Fetched(d))
  /\ UNCHANGED <<doc, row, author, late, draft, texts, writes, shares, labels>>

\* The dashboard is opened.  A draft of the same revision comes back, any other
\* is forgotten.
OpenBoard(d) ==
  LET kept == draft[d] # None /\ draft[d].rev = Fetched(d)
  IN
  /\ doc = "board" /\ page[d].at = "closed"
  /\ page' = [page EXCEPT ![d] =
       Fresh(Fetched(d), IF kept THEN draft[d].text ELSE TextAt(Fetched(d)))]
  /\ cache' = [cache EXCEPT ![d] = Fetched(d)]
  /\ draft' = IF kept THEN draft ELSE [draft EXCEPT ![d] = None]
  /\ Shows(d, Fetched(d))
  /\ UNCHANGED <<doc, row, author, late, texts, writes, shares, labels>>

\* It is fetched again, and shown if nothing on the page is unsaved.
Refetch(d) ==
  /\ doc = "board" /\ page[d].at = "open"
  /\ ~Dirty(d) /\ page[d].rev # row.rev
  /\ page' = [page EXCEPT ![d].text = row.text, ![d].base = row.text, ![d].rev = row.rev]
  /\ cache' = [cache EXCEPT ![d] = row.rev]
  /\ Shows(d, row.rev)
  /\ UNCHANGED <<doc, row, author, late, draft, texts, writes, shares, labels>>

\* The user edits, while a save is under way too.
Type(d) ==
  /\ page[d].at # "closed"
  /\ \E t \in Text \ {page[d].text} : page' = [page EXCEPT ![d].text = t]
  /\ UNCHANGED <<doc, row, author, late, cache, draft, shown, texts, writes, shares, labels>>

Send(d, rev, conflict) ==
  page' = [page EXCEPT ![d].at = "saving", ![d].sent = [text |-> page[d].text, rev |-> rev],
                       ![d].conflict = conflict,
                       ![d].theirs = IF conflict THEN @ ELSE Nothing]

\* Mutant: the revision that was fetched last, shown or not.
SaveFetched(d) ==
  /\ page[d].at = "open" /\ Dirty(d)
  /\ doc = "note" => ~page[d].conflict
  /\ Send(d, Fetched(d), page[d].conflict)
  /\ UNCHANGED <<doc, row, author, late, cache, draft, shown, texts, writes, shares, labels>>

\* Autosave of a note, the retry that follows a failure, the button of the
\* dashboard: with the revision of the page.
Save(d) ==
  /\ page[d].at = "open" /\ Dirty(d)
  /\ doc = "note" => ~page[d].conflict
  /\ Send(d, page[d].rev, page[d].conflict)
  /\ UNCHANGED <<doc, row, author, late, cache, draft, shown, texts, writes, shares, labels>>

\* After a conflict: my version, over the revision I have been shown.
KeepMine(d) ==
  /\ page[d].at = "open" /\ page[d].conflict
  /\ Send(d, page[d].theirs.rev, doc = "board")
  /\ UNCHANGED <<doc, row, author, late, cache, draft, shown, texts, writes, shares, labels>>

\* Or theirs.
TakeTheirs(d) ==
  /\ page[d].at = "open" /\ page[d].conflict
  /\ page' = [page EXCEPT ![d] =
       [Settled(@, FALSE) EXCEPT !.text = page[d].theirs.text, !.base = page[d].theirs.text,
                                 !.rev = page[d].theirs.rev]]
  /\ UNCHANGED <<doc, row, author, late, cache, draft, shown, texts, writes, shares, labels>>

\* The handler runs for a request the browser still waits for.
Handle(d) ==
  /\ page[d].at = "saving"
  /\ IF Accepts(page[d].sent.rev)
     THEN /\ Store(page[d].sent.text, d)
          /\ page' = [page EXCEPT ![d].at = "saved",
                                  ![d].theirs = [text |-> page[d].sent.text, rev |-> row.rev + 1]]
     ELSE /\ page' = [page EXCEPT ![d].at = "refused", ![d].theirs = row]
          /\ UNCHANGED <<row, author, texts, writes>>
  /\ UNCHANGED <<doc, late, cache, draft, shown, shares, labels>>

\* The handler runs for one it has given up on.
HandleLate(r) ==
  /\ r \in late
  /\ late' = late \ {r}
  /\ IF Accepts(r.rev)
     THEN Store(r.text, r.by)
     ELSE UNCHANGED <<row, author, texts, writes>>
  /\ UNCHANGED <<doc, page, cache, draft, shown, shares, labels>>

\* Mutant: what the page shows now is taken for what was saved.
SavedAsShown(d) ==
  /\ page[d].at = "saved"
  /\ page' = [page EXCEPT ![d] = [Settled(@, FALSE) EXCEPT !.base = page[d].text,
                                                         !.rev = page[d].theirs.rev]]
  /\ cache' = [cache EXCEPT ![d] = page[d].theirs.rev]
  /\ Shows(d, page[d].theirs.rev)
  /\ UNCHANGED <<doc, row, author, late, draft, texts, writes, shares, labels>>

\* onSuccess: the saved text is the new base.  The dashboard shows what was
\* saved, the note what has been typed since.
Saved(d) ==
  LET saved == page[d].theirs
  IN
  /\ page[d].at = "saved"
  /\ page' = [page EXCEPT ![d] =
       [Settled(@, FALSE) EXCEPT !.base = saved.text, !.rev = saved.rev,
                                 !.text = IF doc = "board" THEN saved.text ELSE page[d].text]]
  /\ cache' = [cache EXCEPT ![d] = page[d].theirs.rev]
  /\ Shows(d, saved.rev)
  /\ UNCHANGED <<doc, row, author, late, draft, texts, writes, shares, labels>>

\* onError with 409: the draft stays, the other version is shown beside it.
Refused(d) ==
  /\ page[d].at = "refused"
  /\ page' = [page EXCEPT ![d] = Settled(@, TRUE)]
  /\ Shows(d, page[d].theirs.rev)
  /\ UNCHANGED <<doc, row, author, late, cache, draft, texts, writes, shares, labels>>

\* A request its browser no longer waits for.
GivenUp(d) ==
  IF page[d].at = "saving"
  THEN late \cup {[by |-> d, text |-> page[d].sent.text, rev |-> page[d].sent.rev]}
  ELSE late

\* onError without an answer of the handler; it may run yet, or have run.
Fail(d) ==
  /\ page[d].at \in {"saving", "saved", "refused"}
  /\ Cardinality(GivenUp(d)) <= MaxLate
  /\ late' = GivenUp(d)
  /\ page' = [page EXCEPT ![d] = Settled(@, FALSE)]
  /\ UNCHANGED <<doc, row, author, cache, draft, shown, texts, writes, shares, labels>>

\* The dialog is closed, the dashboard is left or reloaded; a reload empties the
\* cache.
Leave(d) ==
  /\ page[d].at # "closed"
  /\ Cardinality(GivenUp(d)) <= MaxLate
  /\ late' = GivenUp(d)
  /\ draft' = IF doc = "board"
              THEN [draft EXCEPT ![d] = IF Dirty(d)
                                        THEN [text |-> page[d].text, rev |-> page[d].rev]
                                        ELSE None]
              ELSE draft
  /\ page' = [page EXCEPT ![d] = Closed]
  /\ cache' \in {cache, [cache EXCEPT ![d] = None]}
  /\ UNCHANGED <<doc, row, author, shown, texts, writes, shares, labels>>

-----------------------------------------------------------------------------
(* The published dashboard                                                  *)

\* Mutant: visitors need not unlock again after an update.
PublishQuietly ==
  /\ Counted
  /\ \E p \in Password \cup {None} :
       share' = [version |-> IF share.version = 0 THEN 1 ELSE share.version,
                 open |-> TRUE, password |-> p]
  /\ UNCHANGED <<docs, sessions, labels>>

\* publish_dashboard_share
Publish ==
  /\ Counted
  /\ \E p \in Password \cup {None} :
       share' = [version |-> share.version + 1, open |-> TRUE, password |-> p]
  /\ sessions' = {}
  /\ UNCHANGED <<docs, labels>>

\* revoke_dashboard_share
Revoke ==
  /\ share.open /\ Counted
  /\ share' = [share EXCEPT !.version = @ + 1, !.open = FALSE]
  /\ sessions' = {}
  /\ UNCHANGED <<docs, labels>>

\* unlock_dashboard_share with the right password, or of a share without one.
Unlock(v) ==
  /\ share.open
  /\ \E p \in Password :
       /\ share.password \in {p, None}
       /\ sessions' = sessions \cup {[by |-> v, version |-> share.version, with |-> p]}
  /\ UNCHANGED <<docs, share, labels, writes>>

\* A day goes by.
SessionExpires ==
  /\ \E s \in sessions : sessions' = sessions \ {s}
  /\ UNCHANGED <<docs, share, labels, writes>>

\* public_dashboard_share lets the visitor see the dashboard.
Granted(v) ==
  /\ share.open
  /\ \/ share.password = None
     \/ \E s \in sessions : s.by = v /\ s.version = share.version

-----------------------------------------------------------------------------
(* Tags                                                                     *)

\* _assert_unique_tag_name
Unique(name, i) == \A j \in Tag \ {i} : tag[j] \in Name => Fold(tag[j]) # Fold(name)

\* create_tag, from the dialog, which goes on to assign it.
CreateTag(d) ==
  /\ adding[d] = None /\ Counted
  /\ \E i \in Tag, n \in Name :
       /\ tag[i] = None /\ Unique(n, i)
       /\ tag' = [tag EXCEPT ![i] = n]
       /\ \/ adding' = [adding EXCEPT ![d] = i]
          \/ UNCHANGED adding            \* the answer is lost
  /\ UNCHANGED <<docs, shares, tagged>>

\* Mutant: whether the tag is still there is not asked again.
AssignForeign(d) ==
  /\ adding[d] # None
  /\ tagged' = tagged \cup {adding[d]}
  /\ adding' = [adding EXCEPT ![d] = None]
  /\ UNCHANGED <<docs, shares, tag, writes>>

\* assign_tag after create_tag: the tag may be gone, the request may be lost.
AssignCreated(d) ==
  /\ adding[d] # None
  /\ \/ tag[adding[d]] \in Name /\ tagged' = tagged \cup {adding[d]}
     \/ UNCHANGED tagged
  /\ adding' = [adding EXCEPT ![d] = None]
  /\ UNCHANGED <<docs, shares, tag, writes>>

\* assign_tag and unassign_tag of a tag in the list
Toggle ==
  /\ \E i \in Tag :
       \/ tag[i] \in Name /\ i \notin tagged /\ tagged' = tagged \cup {i}
       \/ i \in tagged /\ tagged' = tagged \ {i}
  /\ UNCHANGED <<docs, shares, tag, adding, writes>>

\* update_tag
RenameTag ==
  /\ Counted
  /\ \E i \in Tag, n \in Name :
       tag[i] \in Name /\ Unique(n, i) /\ tag' = [tag EXCEPT ![i] = n]
  /\ UNCHANGED <<docs, shares, tagged, adding>>

\* delete_tag; ON DELETE CASCADE takes its assignments.
DeleteTag ==
  /\ Counted
  /\ \E i \in Tag :
       /\ tag[i] \in Name
       /\ tag' = [tag EXCEPT ![i] = Gone]
       /\ tagged' = tagged \ {i}
  /\ UNCHANGED <<docs, shares, adding>>

-----------------------------------------------------------------------------

Browse(d) ==
  \/ OpenNote(d) \/ OpenBoard(d) \/ Refetch(d) \/ Type(d) \/ Leave(d)
  \/ Save(d) \/ KeepMine(d) \/ TakeTheirs(d)
  \/ Handle(d) \/ Saved(d) \/ Refused(d) \/ Fail(d)

\* The dialog of a friend holds the tags beside the note.
NextOfNote ==
  /\ doc = "note"
  /\ \/ \E d \in Device : CreateTag(d) \/ AssignCreated(d)
     \/ Toggle \/ RenameTag \/ DeleteTag

\* What is published is a dashboard.
NextOfBoard ==
  /\ doc = "board"
  /\ \/ Publish \/ Revoke \/ SessionExpires
     \/ \E v \in Visitor : Unlock(v)

Next ==
  \/ \E d \in Device : Browse(d)
  \/ \E r \in late : HandleLate(r)
  \/ NextOfNote
  \/ NextOfBoard

Spec == Init /\ [][Next]_vars

-----------------------------------------------------------------------------

TypeOK ==
  /\ doc \in {"note", "board"}
  /\ row \in [text: Text, rev: Nat]
  /\ page \in [Device -> Page]
  /\ author \in Device \cup {None}
  /\ late \subseteq LateRequest
  /\ cache \in [Device -> Nat \cup {None}]
  /\ draft \in [Device -> [text: Text, rev: Nat] \cup {None}]
  /\ share \in [version: Nat, open: BOOLEAN, password: Password \cup {None}]
  /\ sessions \subseteq [by: Visitor, version: Nat, with: Password]
  /\ tag \in [Tag -> Name \cup {None, Gone}]
  /\ tagged \subseteq Tag
  /\ adding \in [Device -> Tag \cup {None}]
  /\ shown \in [Device -> Nat \cup {-1}]
  /\ texts \in Seq(Text)
  /\ writes \in Nat

\* What a page takes for saved is what the server stored under the revision it
\* goes on with.  An edit typed while the save was under way, an answer that was
\* lost and a conflict must all leave the two in step, or the page calls an
\* edit saved that is stored nowhere.
BaseIsItsRevision ==
  \A d \in Device : page[d].at # "closed" =>
    page[d].base = TextAt(page[d].rev)

Document == INSTANCE SharedDocument WITH
  Client <- Device, Nobody <- None,
  value <- row.text, version <- row.rev, author <- author, known <- shown

\* The note and the dashboard are such documents, whatever is lost, late or
\* answered twice: the browser whose save replaces a version has itself shown that
\* version, also when it gave up on the request and the handler ran later.
NobodyOverwritesUnseen == Document!Spec

\* Who is let in to a protected dashboard has given the password it has now:
\* an update and a revocation leave no session behind that still opens it.
GrantsProvePassword ==
  \A v \in Visitor : Granted(v) =>
    share.password = None \/ \E s \in sessions : s.by = v /\ s.with = share.password

\* Two browsers create, rename, delete and assign: a friend's tags exist, and
\* no two names differ in case only.
TagsConsistent ==
  /\ \A i \in tagged : tag[i] \in Name
  /\ \A i, j \in Tag : tag[i] \in Name /\ tag[j] \in Name /\ i # j =>
       Fold(tag[i]) # Fold(tag[j])

\* What a browser has of the dashboard that is not saved.
Unsaved(d) ==
  IF page[d].at # "closed"
  THEN IF Dirty(d) THEN [text |-> page[d].text, rev |-> page[d].rev] ELSE None
  ELSE draft[d]

\* docs/isme/SKMB.md:33: "dashboard_conflict | Local dashboard draft and a newer
\* server revision both exist | browser | Both versions remain selectable until
\* the user resolves the conflict".
BothVersionsStaySelectable ==
  [][\A d \in Device :
       /\ doc = "board" /\ page[d].at \in {"closed", "open", "refused"}
       /\ Unsaved(d) # None /\ Unsaved(d).rev < row.rev /\ Unsaved(d).text # row.text
       => Unsaved(d)' # None \/ Type(d) \/ TakeTheirs(d)]_vars

=============================================================================
