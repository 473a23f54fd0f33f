------------------------- MODULE OrganizationProofs -------------------------
(***************************************************************************)
(* Proofs about Organization for any browsers, texts, tags and passwords   *)
(* and any number of writes and late requests: notes and dashboards are    *)
(* the documents SharedDocument promises.                                  *)
(***************************************************************************)
EXTENDS Organization, TLAPS

USE DEF docs, shares, labels

-----------------------------------------------------------------------------
(* The document and its pages                                               *)

\* A page of a browser that has been shown the revisions up to known.
PageOK(p, known) ==
  /\ p \in Page
  /\ p.at # "closed" => p.rev <= known /\ p.base = TextAt(p.rev)
  /\ p.at = "saving" => p.sent.rev <= known
  /\ p.at \in {"saved", "refused"} =>
       p.theirs.rev <= row.rev /\ p.theirs.text = TextAt(p.theirs.rev)
  /\ p.at = "open" /\ p.conflict =>
       p.theirs.rev <= known /\ p.theirs.text = TextAt(p.theirs.rev)

RowOK ==
  /\ row \in [text: Text, rev: Nat]
  /\ texts \in Seq(Text)
  /\ Len(texts) = row.rev /\ row.text = TextAt(row.rev)

ShownOK ==
  /\ shown \in [Device -> Nat \cup {-1}]
  /\ \A d \in Device : shown[d] <= row.rev

CacheOK ==
  /\ cache \in [Device -> Nat \cup {None}]
  /\ \A d \in Device : cache[d] # None => cache[d] \in Nat /\ cache[d] <= row.rev

DraftOK == draft \in [Device -> [text: Text, rev: Nat] \cup {None}]

PagesOK == page \in [Device -> Page] /\ \A d \in Device : PageOK(page[d], shown[d])

\* Whoever sent a request has been shown the revision it names.
LateOK == late \subseteq LateRequest /\ \A r \in late : r.rev <= shown[r.by]

DocInv == RowOK /\ ShownOK /\ CacheOK /\ DraftOK /\ PagesOK /\ LateOK

LEMMA TextsTyped ==
  ASSUME RowOK, NEW rev \in Nat, rev <= row.rev
  PROVE  TextAt(rev) \in Text
BY TextAssumption DEF RowOK, TextAt

LEMMA PageClosed == \A known : PageOK(Closed, known)
BY TextAssumption DEF PageOK, Closed, Page, Request, Nothing

\* A page that shows a revision for the first time.
LEMMA PageFresh ==
  ASSUME RowOK, NEW rev \in Nat, rev <= row.rev, NEW text \in Text,
         NEW known \in Nat, rev <= known
  PROVE  PageOK(Fresh(rev, text), known)
<1>1. TextAt(rev) \in Text /\ Blank \in Text
  BY TextsTyped, TextAssumption
<1>2. /\ Fresh(rev, text).at = "open" /\ Fresh(rev, text).rev = rev
      /\ Fresh(rev, text).base = TextAt(rev) /\ Fresh(rev, text).conflict = FALSE
  BY DEF Fresh, Closed
<1>3. Fresh(rev, text) \in Page
  BY <1>1 DEF Fresh, Closed, Page, Request, Nothing
<1> QED BY <1>2, <1>3 DEF PageOK

\* A step of one page that stores nothing.
LEMMA OnePage ==
  ASSUME DocInv, NEW d \in Device, NEW p, NEW known \in Nat \cup {-1},
         known >= shown[d], known <= row.rev, PageOK(p, known),
         page' = [page EXCEPT ![d] = p], shown' = [shown EXCEPT ![d] = known],
         UNCHANGED <<row, texts>>
  PROVE  RowOK' /\ ShownOK' /\ PagesOK'
<1>1. RowOK' /\ \A rev : TextAt(rev)' = TextAt(rev)
  BY DEF DocInv, RowOK, TextAt
<1>2. ShownOK'
  BY DEF DocInv, ShownOK
<1>3. \A q, k : PageOK(q, k)' <=> PageOK(q, k)
  BY <1>1 DEF PageOK
<1>4. /\ page' \in [Device -> Page]
      /\ page'[d] = p /\ shown'[d] = known
      /\ \A e \in Device : e # d => page'[e] = page[e] /\ shown'[e] = shown[e]
  BY DEF DocInv, PagesOK, ShownOK, PageOK
<1>5. \A e \in Device : PageOK(page'[e], shown'[e])
  BY <1>4 DEF DocInv, PagesOK
<1>6. \A e \in Device : PageOK(page[e], shown[e])'
  BY <1>1, <1>5 DEF PageOK
<1> QED BY <1>1, <1>2, <1>4, <1>6 DEF PagesOK

LEMMA ShowsNewest ==
  ASSUME ShownOK, NEW d \in Device, NEW rev \in Nat, rev <= row.rev, RowOK, Shows(d, rev)
  PROVE  \E known \in Nat :
           /\ shown' = [shown EXCEPT ![d] = known]
           /\ known >= shown[d] /\ known >= rev /\ known <= row.rev
<1> DEFINE known == IF rev > shown[d] THEN rev ELSE shown[d]
<1>1. shown[d] \in Nat \cup {-1} /\ shown[d] <= row.rev /\ row.rev \in Nat
  BY DEF ShownOK, RowOK
<1>2. known \in Nat /\ known >= shown[d] /\ known >= rev /\ known <= row.rev
  BY <1>1
<1>3. shown' = [shown EXCEPT ![d] = known]
  BY DEF Shows
<1> QED BY <1>2, <1>3

LEMMA ShowsNothing ==
  ASSUME ShownOK, NEW d \in Device, UNCHANGED shown
  PROVE  shown' = [shown EXCEPT ![d] = shown[d]] /\ shown[d] \in Nat \cup {-1}
         /\ shown[d] <= row.rev
BY DEF ShownOK

LEMMA FetchedIsStored ==
  ASSUME DocInv, NEW d \in Device
  PROVE  Fetched(d) \in Nat /\ Fetched(d) <= row.rev /\ TextAt(Fetched(d)) \in Text
<1>1. Fetched(d) \in Nat /\ Fetched(d) <= row.rev
  BY DEF DocInv, CacheOK, RowOK, Fetched
<1> QED BY <1>1, TextsTyped DEF DocInv

LEMMA CacheTakes ==
  ASSUME CacheOK, NEW d \in Device, NEW rev \in Nat, rev <= row.rev,
         cache' = [cache EXCEPT ![d] = rev], UNCHANGED row
  PROVE  CacheOK'
BY DEF CacheOK

LEMMA LateStays ==
  ASSUME LateOK, ShownOK, NEW d \in Device, NEW known \in Nat \cup {-1}, known >= shown[d],
         shown' = [shown EXCEPT ![d] = known], UNCHANGED late
  PROVE  LateOK'
<1>1. \A e \in Device : shown'[e] >= shown[e]
  BY DEF ShownOK
<1>2. SUFFICES ASSUME NEW r \in late PROVE r.rev <= shown'[r.by]
  BY DEF LateOK
<1>3. PICK e \in Device : e = r.by
  BY DEF LateOK, LateRequest
<1>4. r.rev <= shown[e] /\ shown'[e] >= shown[e]
  BY <1>1, <1>3 DEF LateOK
<1>5. r.rev \in Nat /\ shown[e] \in Nat \cup {-1} /\ shown'[e] \in Nat \cup {-1}
  BY DEF LateOK, LateRequest, ShownOK
<1> QED BY <1>3, <1>4, <1>5

LEMMA OpenNoteKeeps == ASSUME DocInv, NEW d \in Device, OpenNote(d) PROVE DocInv'
<1> DEFINE rev == Fetched(d)
<1>0. rev \in Nat /\ rev <= row.rev /\ TextAt(rev) \in Text /\ row.rev \in Nat
  BY FetchedIsStored DEF DocInv, RowOK
<1>1. PICK known \in Nat : /\ shown' = [shown EXCEPT ![d] = known]
                           /\ known >= shown[d] /\ known >= rev /\ known <= row.rev
  BY <1>0, ShowsNewest DEF OpenNote, DocInv
<1>2. PageOK(Fresh(rev, TextAt(rev)), known)
  BY <1>0, <1>1, PageFresh DEF DocInv
<1>3. /\ page' = [page EXCEPT ![d] = Fresh(rev, TextAt(rev))]
      /\ UNCHANGED <<row, texts, late, draft>>
  BY DEF OpenNote
<1>4. RowOK' /\ ShownOK' /\ PagesOK'
  BY <1>1, <1>2, <1>3, OnePage
<1>5. CacheOK'
  <2>1. PICK r \in {rev, row.rev} : cache' = [cache EXCEPT ![d] = r]
    BY DEF OpenNote
  <2>2. r \in Nat /\ r <= row.rev
    BY <1>0
  <2>3. CacheOK /\ UNCHANGED row
    BY <1>3 DEF DocInv
  <2> HIDE DEF rev
  <2> QED BY <2>1, <2>2, <2>3, CacheTakes
<1>6. LateOK'
  BY <1>1, <1>3, LateStays DEF DocInv
<1> QED BY <1>3, <1>4, <1>5, <1>6 DEF DocInv, DraftOK

LEMMA OpenBoardKeeps == ASSUME DocInv, NEW d \in Device, OpenBoard(d) PROVE DocInv'
<1> DEFINE rev == Fetched(d)
           kept == draft[d] # None /\ draft[d].rev = rev
           text == IF kept THEN draft[d].text ELSE TextAt(rev)
<1>0. rev \in Nat /\ rev <= row.rev /\ TextAt(rev) \in Text
  BY FetchedIsStored
<1>1. PICK known \in Nat : /\ shown' = [shown EXCEPT ![d] = known]
                           /\ known >= shown[d] /\ known >= rev /\ known <= row.rev
  BY <1>0, ShowsNewest DEF OpenBoard, DocInv
<1>2. text \in Text
  BY <1>0 DEF DocInv, DraftOK
<1>3. PageOK(Fresh(rev, text), known)
  BY <1>0, <1>1, <1>2, PageFresh DEF DocInv
<1>4. /\ page' = [page EXCEPT ![d] = Fresh(rev, text)]
      /\ cache' = [cache EXCEPT ![d] = rev]
      /\ draft' = IF kept THEN draft ELSE [draft EXCEPT ![d] = None]
      /\ UNCHANGED <<row, texts, late>>
  BY DEF OpenBoard
<1>5. RowOK' /\ ShownOK' /\ PagesOK'
  BY <1>1, <1>3, <1>4, OnePage
<1>6. CacheOK' /\ LateOK'
  BY <1>0, <1>1, <1>4, CacheTakes, LateStays DEF DocInv
<1>7. DraftOK'
  BY <1>4 DEF DocInv, DraftOK
<1> QED BY <1>5, <1>6, <1>7 DEF DocInv

LEMMA RefetchKeeps == ASSUME DocInv, NEW d \in Device, Refetch(d) PROVE DocInv'
<1> DEFINE p == [page[d] EXCEPT !.text = row.text, !.base = row.text, !.rev = row.rev]
<1>0. row.rev \in Nat /\ row.text = TextAt(row.rev) /\ row.text \in Text
  BY DEF DocInv, RowOK
<1>1. PICK known \in Nat : /\ shown' = [shown EXCEPT ![d] = known]
                           /\ known >= shown[d] /\ known >= row.rev /\ known <= row.rev
  BY <1>0, ShowsNewest DEF Refetch, DocInv
<1>2. PageOK(page[d], shown[d]) /\ page[d] \in Page /\ page[d].at = "open"
      /\ shown[d] \in Nat \cup {-1}
  BY DEF DocInv, PagesOK, ShownOK, Refetch
<1>3. p \in Page
  BY <1>0, <1>2 DEF Page
<1>4. PageOK(p, known)
  BY <1>0, <1>1, <1>2, <1>3 DEF PageOK, Page, Request
<1>5. /\ page' = [page EXCEPT ![d] = p]
      /\ cache' = [cache EXCEPT ![d] = row.rev]
      /\ UNCHANGED <<row, texts, late, draft>>
  <2>1. page' = [page EXCEPT ![d].text = row.text, ![d].base = row.text, ![d].rev = row.rev]
    BY DEF Refetch
  <2>2. page' = [page EXCEPT ![d] = p]
    BY <2>1 DEF DocInv, PagesOK
  <2> QED BY <2>2 DEF Refetch
<1>6. RowOK' /\ ShownOK' /\ PagesOK'
  BY <1>1, <1>4, <1>5, OnePage
<1>7. CacheOK' /\ LateOK'
  <2> HIDE DEF p
  <2>1. CacheOK /\ LateOK /\ ShownOK /\ UNCHANGED <<row, late>> /\ row.rev <= row.rev
    BY <1>0, <1>5 DEF DocInv
  <2>2. CacheOK'
    BY <1>0, <1>5, <2>1, CacheTakes
  <2>3. LateOK'
    BY <1>1, <2>1, LateStays
  <2> QED BY <2>2, <2>3
<1>8. DraftOK'
  BY <1>5 DEF DocInv, DraftOK
<1> QED BY <1>6, <1>7, <1>8 DEF DocInv

\* A step of one page that shows nothing and stores nothing; its browser may give
\* up on its request.
LEMMA OnlyPage ==
  ASSUME DocInv, NEW d \in Device, NEW p, PageOK(p, shown[d]),
         page' = [page EXCEPT ![d] = p], late' \in {late, GivenUp(d)},
         CacheOK', DraftOK', UNCHANGED <<row, texts, shown>>
  PROVE  DocInv'
<1>1. RowOK' /\ ShownOK' /\ PagesOK'
  <2>1. /\ shown' = [shown EXCEPT ![d] = shown[d]]
        /\ shown[d] \in Nat \cup {-1} /\ shown[d] <= row.rev
    BY ShowsNothing DEF DocInv
  <2>2. shown[d] >= shown[d]
    BY <2>1
  <2> QED BY <2>1, <2>2, OnePage
<1>2. LateOK'
  <2>1. page[d].at = "saving" => page[d].sent \in Request /\ page[d].sent.rev <= shown[d]
    BY DEF DocInv, PagesOK, PageOK, Page
  <2>2. \A r \in GivenUp(d) : r \in LateRequest /\ r.rev <= shown[r.by]
    BY <2>1 DEF GivenUp, DocInv, LateOK, Request, LateRequest
  <2>3. \A r \in late' : r \in LateRequest /\ r.rev <= shown[r.by]
    BY <2>2 DEF DocInv, LateOK
  <2> QED BY <2>3 DEF LateOK
<1> QED BY <1>1, <1>2 DEF DocInv

LEMMA SameCacheAndDraft ==
  ASSUME DocInv, UNCHANGED <<row, cache, draft>>
  PROVE  CacheOK' /\ DraftOK'
BY DEF DocInv, CacheOK, DraftOK

LEMMA PageNow ==
  ASSUME DocInv, NEW d \in Device
  PROVE  PageOK(page[d], shown[d]) /\ page[d] \in Page /\ shown[d] \in Nat \cup {-1}
BY DEF DocInv, PagesOK, ShownOK

LEMMA TypeKeeps == ASSUME DocInv, NEW d \in Device, Type(d) PROVE DocInv'
<1>1. PICK t \in Text : page' = [page EXCEPT ![d].text = t]
  BY DEF Type
<1> DEFINE p == [page[d] EXCEPT !.text = t]
<1>2. page' = [page EXCEPT ![d] = p]
  BY <1>1 DEF DocInv, PagesOK
<1>3. PageOK(p, shown[d])
  <2>1. p \in Page
    BY PageNow DEF Page
  <2> QED BY <2>1, PageNow DEF PageOK, Page, Request
<1>4. CacheOK' /\ DraftOK' /\ late' \in {late, GivenUp(d)} /\ UNCHANGED <<row, texts, shown>>
  BY SameCacheAndDraft DEF Type
<1> HIDE DEF p
<1> QED BY <1>2, <1>3, <1>4, OnlyPage

\* A request that names a revision the browser has been shown.
LEMMA SendKeeps ==
  ASSUME DocInv, NEW d \in Device, NEW rev \in Nat, rev <= shown[d], NEW c \in BOOLEAN,
         page[d].at = "open", Send(d, rev, c), UNCHANGED <<row, late, cache, draft, shown, texts>>
  PROVE  DocInv'
<1> DEFINE p == [page[d] EXCEPT !.at = "saving", !.sent = [text |-> page[d].text, rev |-> rev],
                                !.conflict = c, !.theirs = IF c THEN @ ELSE Nothing]
<1>1. page' = [page EXCEPT ![d] = p]
  BY DEF Send, DocInv, PagesOK
<1>2. PageOK(p, shown[d])
  <2>1. p \in Page
    BY PageNow, TextAssumption DEF Page, Request, Nothing
  <2>2. /\ p.at = "saving" /\ p.sent.rev = rev
        /\ p.rev = page[d].rev /\ p.base = page[d].base
    BY PageNow DEF Page
  <2> QED BY <2>1, <2>2, PageNow DEF PageOK
<1>3. CacheOK' /\ DraftOK' /\ late' \in {late, GivenUp(d)} /\ UNCHANGED <<row, texts, shown>>
  BY SameCacheAndDraft
<1> HIDE DEF p
<1> QED BY <1>1, <1>2, <1>3, OnlyPage

LEMMA SaveKeeps == ASSUME DocInv, NEW d \in Device, Save(d) PROVE DocInv'
<1>1. page[d].rev \in Nat /\ page[d].rev <= shown[d] /\ page[d].conflict \in BOOLEAN
      /\ page[d].at = "open"
  BY PageNow DEF Save, PageOK, Page
<1>2. Send(d, page[d].rev, page[d].conflict) /\ UNCHANGED <<row, late, cache, draft, shown, texts>>
  BY DEF Save
<1> QED BY <1>1, <1>2, SendKeeps

LEMMA KeepMineKeeps == ASSUME DocInv, NEW d \in Device, KeepMine(d) PROVE DocInv'
<1>1. page[d].theirs.rev \in Nat /\ page[d].theirs.rev <= shown[d] /\ page[d].at = "open"
      /\ (doc = "board") \in BOOLEAN
  BY PageNow DEF KeepMine, PageOK, Page, Request
<1>2. Send(d, page[d].theirs.rev, doc = "board")
      /\ UNCHANGED <<row, late, cache, draft, shown, texts>>
  BY DEF KeepMine
<1> QED BY <1>1, <1>2, SendKeeps

\* The parts of a settled page.
LEMMA SettledPage ==
  ASSUME NEW p \in Page, NEW c \in BOOLEAN
  PROVE  /\ Settled(p, c) \in Page
         /\ Settled(p, c).at = "open" /\ Settled(p, c).conflict = c
         /\ Settled(p, c).rev = p.rev /\ Settled(p, c).base = p.base
         /\ c => Settled(p, c).theirs = p.theirs
BY TextAssumption DEF Settled, Page, Request, Nothing

LEMMA TakeTheirsKeeps == ASSUME DocInv, NEW d \in Device, TakeTheirs(d) PROVE DocInv'
<1> DEFINE their == page[d].theirs
           p == [Settled(page[d], FALSE) EXCEPT !.text = their.text, !.base = their.text,
                                                !.rev = their.rev]
<1>1. /\ their \in Request /\ their.rev <= shown[d] /\ their.text = TextAt(their.rev)
  BY PageNow DEF TakeTheirs, PageOK, Page
<1>2. page' = [page EXCEPT ![d] = p]
  BY DEF TakeTheirs, DocInv, PagesOK
<1>3. PageOK(p, shown[d])
  <2>1. Settled(page[d], FALSE) \in Page /\ Settled(page[d], FALSE).at = "open"
        /\ Settled(page[d], FALSE).conflict = FALSE
    BY PageNow, SettledPage
  <2>2. p \in Page /\ p.at = "open" /\ p.conflict = FALSE
        /\ p.rev = their.rev /\ p.base = their.text
    BY <1>1, <2>1 DEF Page, Request
  <2> HIDE DEF p, their
  <2> QED BY <1>1, <2>2 DEF PageOK
<1>4. CacheOK' /\ DraftOK' /\ late' \in {late, GivenUp(d)} /\ UNCHANGED <<row, texts, shown>>
  BY SameCacheAndDraft DEF TakeTheirs
<1> HIDE DEF p
<1> QED BY <1>2, <1>3, <1>4, OnlyPage

LEMMA FailKeeps == ASSUME DocInv, NEW d \in Device, Fail(d) PROVE DocInv'
<1>1. PageOK(Settled(page[d], FALSE), shown[d])
  <2>1. Settled(page[d], FALSE) \in Page /\ Settled(page[d], FALSE).at = "open"
        /\ Settled(page[d], FALSE).conflict = FALSE
        /\ Settled(page[d], FALSE).rev = page[d].rev
        /\ Settled(page[d], FALSE).base = page[d].base
    BY PageNow, SettledPage
  <2>2. page[d].rev <= shown[d] /\ page[d].base = TextAt(page[d].rev)
    BY PageNow DEF Fail, PageOK
  <2> QED BY <2>1, <2>2 DEF PageOK
<1>2. page' = [page EXCEPT ![d] = Settled(page[d], FALSE)]
  BY DEF Fail
<1>3. CacheOK' /\ DraftOK' /\ late' \in {late, GivenUp(d)} /\ UNCHANGED <<row, texts, shown>>
  BY SameCacheAndDraft DEF Fail
<1> QED BY <1>1, <1>2, <1>3, OnlyPage

LEMMA LeaveKeeps == ASSUME DocInv, NEW d \in Device, Leave(d) PROVE DocInv'
<1>1. page' = [page EXCEPT ![d] = Closed] /\ late' \in {late, GivenUp(d)}
      /\ UNCHANGED <<row, texts, shown>>
  BY DEF Leave
<1>2. CacheOK'
  BY DEF Leave, DocInv, CacheOK
<1>3. DraftOK'
  <2>1. page[d].text \in Text /\ page[d].rev \in Nat
    BY PageNow DEF Page
  <2> QED BY <2>1 DEF Leave, DocInv, DraftOK
<1> QED BY <1>1, <1>2, <1>3, PageClosed, OnlyPage

LEMMA SavedKeeps == ASSUME DocInv, NEW d \in Device, Saved(d) PROVE DocInv'
<1> DEFINE saved == page[d].theirs
           p == [Settled(page[d], FALSE) EXCEPT
                   !.base = saved.text, !.rev = saved.rev,
                   !.text = IF doc = "board" THEN saved.text ELSE page[d].text]
<1>1. saved \in Request /\ saved.rev \in Nat /\ saved.rev <= row.rev
      /\ saved.text = TextAt(saved.rev)
  BY PageNow DEF Saved, PageOK, Page, Request
<1>2. page' = [page EXCEPT ![d] = p]
  BY DEF Saved, DocInv, PagesOK
<1>3. cache' = [cache EXCEPT ![d] = saved.rev] /\ Shows(d, saved.rev)
      /\ UNCHANGED <<row, texts, late, draft>>
  BY DEF Saved
<1>4. p \in Page /\ p.at = "open" /\ p.conflict = FALSE
      /\ p.rev = saved.rev /\ p.base = saved.text
  <2>1. Settled(page[d], FALSE) \in Page /\ Settled(page[d], FALSE).at = "open"
        /\ Settled(page[d], FALSE).conflict = FALSE
    BY PageNow, SettledPage
  <2>2. page[d].text \in Text
    BY PageNow DEF Page
  <2> QED BY <1>1, <2>1, <2>2 DEF Page, Request
<1> HIDE DEF p, saved
<1>5. RowOK /\ ShownOK /\ CacheOK /\ LateOK /\ DraftOK
  BY DEF DocInv
<1>6. PICK known \in Nat : /\ shown' = [shown EXCEPT ![d] = known]
                           /\ known >= shown[d] /\ known >= saved.rev /\ known <= row.rev
  BY <1>1, <1>3, <1>5, ShowsNewest
<1>7. PageOK(p, known)
  BY <1>1, <1>4, <1>6 DEF PageOK
<1>8. RowOK' /\ ShownOK' /\ PagesOK'
  BY <1>2, <1>3, <1>6, <1>7, OnePage
<1>9. CacheOK' /\ LateOK' /\ DraftOK'
  <2>1. CacheOK'
    BY <1>1, <1>3, <1>5, CacheTakes
  <2>2. LateOK'
    BY <1>3, <1>5, <1>6, LateStays
  <2>3. DraftOK'
    BY <1>3, <1>5 DEF DraftOK
  <2> QED BY <2>1, <2>2, <2>3
<1> QED BY <1>8, <1>9 DEF DocInv

LEMMA RefusedKeeps == ASSUME DocInv, NEW d \in Device, Refused(d) PROVE DocInv'
<1> DEFINE their == page[d].theirs
           p == Settled(page[d], TRUE)
<1>1. their \in Request /\ their.rev \in Nat /\ their.rev <= row.rev
      /\ their.text = TextAt(their.rev)
  BY PageNow DEF Refused, PageOK, Page, Request
<1>2. page' = [page EXCEPT ![d] = p] /\ Shows(d, their.rev)
      /\ UNCHANGED <<row, texts, late, draft, cache>>
  BY DEF Refused
<1>3. p \in Page /\ p.at = "open" /\ p.theirs = their
      /\ p.rev = page[d].rev /\ p.base = page[d].base
  BY PageNow, SettledPage
<1>4. page[d].rev \in Nat /\ page[d].rev <= shown[d] /\ page[d].base = TextAt(page[d].rev)
  BY PageNow DEF Refused, PageOK, Page
<1> HIDE DEF p, their
<1>5. RowOK /\ ShownOK /\ LateOK /\ shown[d] \in Nat \cup {-1}
  BY PageNow DEF DocInv
<1>6. PICK known \in Nat : /\ shown' = [shown EXCEPT ![d] = known]
                           /\ known >= shown[d] /\ known >= their.rev /\ known <= row.rev
  BY <1>1, <1>2, <1>5, ShowsNewest
<1>7. PageOK(p, known)
  BY <1>1, <1>3, <1>4, <1>5, <1>6 DEF PageOK
<1>8. RowOK' /\ ShownOK' /\ PagesOK'
  BY <1>2, <1>6, <1>7, OnePage
<1>9. LateOK'
  BY <1>2, <1>5, <1>6, LateStays
<1>10. CacheOK' /\ DraftOK'
  BY <1>2, SameCacheAndDraft
<1> QED BY <1>8, <1>9, <1>10 DEF DocInv

\* A stored text is the newest revision, and the older ones stay what they were.
LEMMA StoreAppends ==
  ASSUME RowOK, NEW text \in Text, NEW by, Store(text, by)
  PROVE  /\ RowOK' /\ row'.rev = row.rev + 1 /\ row'.text = text
         /\ \A rev \in Nat : rev <= row.rev => TextAt(rev)' = TextAt(rev)
<1>1. /\ texts' \in Seq(Text) /\ Len(texts') = Len(texts) + 1
      /\ \A k \in 1..Len(texts) : texts'[k] = texts[k]
      /\ texts'[Len(texts) + 1] = text
  BY DEF RowOK, Store
<1>2. row.rev \in Nat /\ row.rev = Len(texts) /\ row' = [text |-> text, rev |-> row.rev + 1]
  BY DEF RowOK, Store
<1>3. \A rev \in Nat : rev <= row.rev => TextAt(rev)' = TextAt(rev)
  BY <1>1, <1>2 DEF TextAt
<1>4. \A rev \in Nat : rev = row.rev + 1 => texts'[rev] = text /\ rev # 0
  BY <1>1, <1>2
<1>5. TextAt(row.rev)' = text
  BY <1>2, <1>4 DEF TextAt
<1>6. RowOK'
  BY <1>1, <1>2, <1>5 DEF RowOK
<1> QED BY <1>2, <1>3, <1>5, <1>6

\* So the pages of before stay true.
LEMMA StoreKeepsPages ==
  ASSUME RowOK, NEW text \in Text, NEW by, Store(text, by), NEW p, NEW known \in Nat \cup {-1},
         known <= row.rev, PageOK(p, known)
  PROVE  PageOK(p, known)'
<1>1. p \in Page /\ p.rev \in Nat /\ p.theirs.rev \in Nat /\ row.rev \in Nat
  BY DEF PageOK, Page, Request, RowOK
<1>2. row'.rev = row.rev + 1 /\ \A rev \in Nat : rev <= row.rev => TextAt(rev)' = TextAt(rev)
  BY StoreAppends
<1>3. p.at # "closed" => TextAt(p.rev)' = TextAt(p.rev)
  BY <1>1, <1>2 DEF PageOK
<1>4. p.theirs.rev <= row.rev => TextAt(p.theirs.rev)' = TextAt(p.theirs.rev)
  BY <1>1, <1>2
<1>5. p.at = "open" /\ p.conflict => p.theirs.rev <= row.rev
  BY <1>1 DEF PageOK
<1> QED BY <1>1, <1>2, <1>3, <1>4, <1>5 DEF PageOK

LEMMA StoreKeeps ==
  ASSUME DocInv, NEW text \in Text, NEW by, Store(text, by), UNCHANGED <<shown, cache, draft>>,
         late' \subseteq late,
         page' \in [Device -> Page],
         \A d \in Device : page'[d] # page[d] => PageOK(page[d], shown[d])'
  PROVE  DocInv'
<1>1. RowOK' /\ row'.rev = row.rev + 1 /\ row.rev \in Nat
  BY StoreAppends DEF DocInv, RowOK
<1>2. ShownOK' /\ CacheOK' /\ DraftOK' /\ LateOK'
  <2>1. ShownOK'
    BY <1>1 DEF DocInv, ShownOK
  <2>2. CacheOK'
    BY <1>1 DEF DocInv, CacheOK
  <2> QED BY <2>1, <2>2 DEF DocInv, DraftOK, LateOK
<1>3. SUFFICES ASSUME NEW d \in Device PROVE PageOK(page[d], shown[d])'
  BY <1>1, <1>2 DEF DocInv, PagesOK
<1>4. PICK p : p = page'[d]
  OBVIOUS
<1>5. PICK known : known = shown[d]
  OBVIOUS
<1>6. known \in Nat \cup {-1} /\ known <= row.rev /\ shown'[d] = known
  BY <1>5 DEF DocInv, ShownOK
<1>7. PageOK(p, known)'
  <2>1. CASE page'[d] = page[d]
    <3>1. PageOK(p, known)
      BY <1>4, <1>5, <2>1, PageNow
    <3> QED BY <1>6, <3>1, StoreKeepsPages DEF DocInv
  <2>2. CASE page'[d] # page[d]
    BY <1>4, <1>5, <1>6, <2>2 DEF PageOK
  <2> QED BY <2>1, <2>2
<1> QED BY <1>4, <1>6, <1>7 DEF PageOK

LEMMA HandleKeeps == ASSUME DocInv, NEW d \in Device, Handle(d) PROVE DocInv'
<1>1. page[d].at = "saving" /\ page[d] \in Page /\ page[d].sent \in Request
      /\ page[d].rev \in Nat /\ page[d].rev <= shown[d] /\ page[d].base = TextAt(page[d].rev)
      /\ shown[d] \in Nat \cup {-1} /\ shown[d] <= row.rev /\ row.rev \in Nat
  BY PageNow DEF Handle, PageOK, Page, DocInv, ShownOK, RowOK
<1>2. CASE Accepts(page[d].sent.rev)
  <2> DEFINE text == page[d].sent.text
             answer == [text |-> text, rev |-> row.rev + 1]
             p == [page[d] EXCEPT !.at = "saved", !.theirs = answer]
  <2>1. Store(text, d) /\ page' = [page EXCEPT ![d] = p]
        /\ UNCHANGED <<shown, cache, draft, late>> /\ text \in Text
    BY <1>1, <1>2 DEF Handle, DocInv, PagesOK, Request
  <2>2. p \in Page /\ p.at = "saved" /\ p.theirs.text = text /\ p.theirs.rev = row.rev + 1
        /\ p.rev = page[d].rev /\ p.base = page[d].base
    <3>1. answer \in Request /\ answer.text = text /\ answer.rev = row.rev + 1
      BY <1>1, <2>1 DEF Request
    <3> HIDE DEF answer
    <3> QED BY <1>1, <3>1 DEF Page
  <2>3. PICK q, t : q = p /\ t = text
    OBVIOUS
  <2> HIDE DEF p, text, answer
  <2>4. /\ row'.rev = row.rev + 1 /\ row'.text = text
        /\ \A rev \in Nat : rev <= row.rev => TextAt(rev)' = TextAt(rev)
        /\ row'.text = TextAt(row.rev)' /\ row'.rev \in Nat
    BY <2>1, StoreAppends DEF DocInv, RowOK
  <2>5. PICK known : known = shown[d]
    OBVIOUS
  <2>6. TextAt(q.rev)' = q.base /\ q.rev <= known /\ shown'[d] = known
    BY <1>1, <2>1, <2>2, <2>3, <2>4, <2>5
  <2>7. q.theirs.rev = row'.rev /\ q.theirs.text = TextAt(row.rev)'
    BY <2>2, <2>3, <2>4
  <2>8. q.theirs.text = TextAt(q.theirs.rev)'
    BY <2>7 DEF TextAt
  <2>9. q \in Page /\ q.at = "saved" /\ q.theirs.rev <= row'.rev
    BY <2>2, <2>3, <2>4, <2>7
  <2>10. PageOK(q, known)'
    BY <2>6, <2>8, <2>9 DEF PageOK
  <2>11. page'[d] = q /\ \A e \in Device : e # d => page'[e] = page[e]
    BY <2>1, <2>3 DEF DocInv, PagesOK
  <2>12. PageOK(page[d], shown[d])'
    BY <2>6, <2>10, <2>11 DEF PageOK
  <2>13. \A e \in Device : page'[e] # page[e] => PageOK(page[e], shown[e])'
    BY <2>11, <2>12
  <2>14. page' \in [Device -> Page]
    BY <2>1, <2>3, <2>9 DEF DocInv, PagesOK
  <2> QED BY <2>1, <2>13, <2>14, StoreKeeps
<1>3. CASE ~Accepts(page[d].sent.rev)
  <2> DEFINE p == [page[d] EXCEPT !.at = "refused", !.theirs = row]
  <2>1. page' = [page EXCEPT ![d] = p] /\ UNCHANGED <<row, texts, shown, cache, draft, late>>
    BY <1>3 DEF Handle, DocInv, PagesOK
  <2>2. row \in Request /\ row.text = TextAt(row.rev)
    BY DEF DocInv, RowOK, Request
  <2>3. p \in Page /\ p.at = "refused" /\ p.theirs = row
        /\ p.rev = page[d].rev /\ p.base = page[d].base
    BY <1>1, <2>2 DEF Page
  <2> HIDE DEF p
  <2>4. PageOK(p, shown[d])
    BY <1>1, <2>2, <2>3 DEF PageOK
  <2>5. CacheOK' /\ DraftOK'
    BY <2>1, SameCacheAndDraft
  <2> QED BY <2>1, <2>4, <2>5, OnlyPage
<1> QED BY <1>2, <1>3

LEMMA HandleLateKeeps == ASSUME DocInv, NEW r \in late, HandleLate(r) PROVE DocInv'
<1>1. r \in LateRequest /\ r.text \in Text
  BY DEF DocInv, LateOK, LateRequest
<1>2. UNCHANGED <<page, shown, cache, draft>> /\ late' \subseteq late
  BY DEF HandleLate
<1>3. CASE Accepts(r.rev)
  <2>1. Store(r.text, r.by)
    BY <1>3 DEF HandleLate
  <2>2. page' \in [Device -> Page] /\ \A d \in Device : page'[d] = page[d]
    BY <1>2 DEF DocInv, PagesOK
  <2> QED BY <1>1, <1>2, <2>1, <2>2, StoreKeeps
<1>4. CASE ~Accepts(r.rev)
  <2>1. UNCHANGED <<row, texts>>
    BY <1>4 DEF HandleLate
  <2> QED BY <1>2, <2>1 DEF DocInv, RowOK, ShownOK, CacheOK, DraftOK, PagesOK, LateOK,
                           PageOK, TextAt
<1> QED BY <1>3, <1>4

LEMMA OthersKeepDocs == ASSUME DocInv, UNCHANGED docs PROVE DocInv'
BY DEF DocInv, RowOK, ShownOK, CacheOK, DraftOK, PagesOK, LateOK, PageOK, TextAt

LEMMA NotesAndBoardsLeaveDocs == NextOfNote \/ NextOfBoard => UNCHANGED docs
BY DEF NextOfNote, NextOfBoard, CreateTag, AssignCreated, Toggle, RenameTag, DeleteTag,
       Publish, Revoke, SessionExpires, Unlock

LEMMA DocInit == Init => DocInv
<1> SUFFICES ASSUME Init PROVE DocInv
  OBVIOUS
<1>1. RowOK /\ ShownOK /\ CacheOK /\ DraftOK /\ LateOK
  BY TextAssumption DEF Init, Nothing, RowOK, TextAt, ShownOK, CacheOK, DraftOK, LateOK
<1>2. PagesOK
  <2>1. page = [d \in Device |-> Closed]
    BY DEF Init
  <2>2. Closed \in Page
    BY PageClosed DEF PageOK
  <2> QED BY <2>1, <2>2, PageClosed DEF PagesOK
<1> QED BY <1>1, <1>2 DEF DocInv

LEMMA BrowseKeeps == ASSUME DocInv, NEW d \in Device, Browse(d) PROVE DocInv'
BY OpenNoteKeeps, OpenBoardKeeps, RefetchKeeps, TypeKeeps, LeaveKeeps, SaveKeeps,
   KeepMineKeeps, TakeTheirsKeeps, HandleKeeps, SavedKeeps, RefusedKeeps, FailKeeps DEF Browse

LEMMA DocStep == DocInv /\ [Next]_vars => DocInv'
<1> SUFFICES ASSUME DocInv, [Next]_vars PROVE DocInv'
  OBVIOUS
<1>1. CASE \E d \in Device : Browse(d)
  BY <1>1, BrowseKeeps
<1>2. CASE \E r \in late : HandleLate(r)
  BY <1>2, HandleLateKeeps
<1>3. CASE NextOfNote \/ NextOfBoard
  BY <1>3, NotesAndBoardsLeaveDocs, OthersKeepDocs
<1>4. CASE UNCHANGED vars
  BY <1>4, OthersKeepDocs DEF vars
<1> QED BY <1>1, <1>2, <1>3, <1>4 DEF Next

THEOREM DocInvariant == Spec => []DocInv
BY DocInit, DocStep, PTL DEF Spec

\* What a page takes for saved is what is stored under its revision, whatever is
\* lost, typed meanwhile or refused.
THEOREM SavedIsStored == Spec => []BaseIsItsRevision
<1>1. DocInv => BaseIsItsRevision
  BY DEF DocInv, PagesOK, PageOK, BaseIsItsRevision
<1> QED BY <1>1, DocInvariant, PTL

-----------------------------------------------------------------------------
(* Notes and dashboards implement SharedDocument                            *)

LEMMA ShowsShow ==
  ASSUME DocInv, NEW d \in Device, NEW rev \in Nat, rev <= row.rev, Shows(d, rev),
         UNCHANGED <<row, author>>
  PROVE  [Document!Next]_(Document!register)
<1>1. /\ shown \in [Device -> Nat \cup {-1}] /\ row.rev \in Nat
      /\ shown' = [shown EXCEPT ![d] = IF rev > shown[d] THEN rev ELSE shown[d]]
  BY DEF DocInv, ShownOK, RowOK, Shows
<1>2. CASE rev > shown[d]
  <2>1. rev \in 0..row.rev
    BY <1>1
  <2>2. Document!Show(d)
    BY <1>1, <1>2, <2>1 DEF Document!Show
  <2> QED BY <2>2 DEF Document!Next
<1>3. CASE ~(rev > shown[d])
  BY <1>1, <1>3 DEF Document!register
<1> QED BY <1>2, <1>3

LEMMA StoreWrites ==
  ASSUME DocInv, NEW d \in Device, NEW rev \in Nat, rev <= shown[d], Accepts(rev),
         NEW text \in Text, Store(text, d), UNCHANGED shown
  PROVE  [Document!Next]_(Document!register)
<1>1. shown[d] = row.rev
  BY DEF DocInv, ShownOK, RowOK, Accepts
<1>2. row'.rev = row.rev + 1 /\ row'.text = text /\ author' = d
  BY DEF Store
<1>3. Document!Write(d)
  BY <1>1, <1>2 DEF Document!Write
<1> QED BY <1>3 DEF Document!Next

LEMMA SameRegister ==
  ASSUME UNCHANGED <<row, author, shown>> PROVE [Document!Next]_(Document!register)
BY DEF Document!register

LEMMA HandleWrites ==
  ASSUME DocInv, NEW d \in Device, Handle(d) PROVE [Document!Next]_(Document!register)
<1>1. page[d].sent.rev \in Nat /\ page[d].sent.text \in Text /\ page[d].sent.rev <= shown[d]
  BY PageNow DEF Handle, PageOK, Page, Request
<1>2. CASE Accepts(page[d].sent.rev)
  <2>1. Store(page[d].sent.text, d) /\ UNCHANGED shown
    BY <1>2 DEF Handle
  <2> QED BY <1>1, <1>2, <2>1, StoreWrites
<1>3. CASE ~Accepts(page[d].sent.rev)
  BY <1>3, SameRegister DEF Handle
<1> QED BY <1>2, <1>3

LEMMA HandleLateWrites ==
  ASSUME DocInv, NEW r \in late, HandleLate(r) PROVE [Document!Next]_(Document!register)
<1>1. r.rev \in Nat /\ r.text \in Text
  BY DEF DocInv, LateOK, LateRequest
<1>2. PICK d \in Device : r.by = d /\ r.rev <= shown[d]
  BY DEF DocInv, LateOK, LateRequest
<1>3. CASE Accepts(r.rev)
  <2>1. Store(r.text, d) /\ UNCHANGED shown
    BY <1>2, <1>3 DEF HandleLate
  <2> QED BY <1>1, <1>2, <1>3, <2>1, StoreWrites
<1>4. CASE ~Accepts(r.rev)
  BY <1>4, SameRegister DEF HandleLate
<1> QED BY <1>3, <1>4

LEMMA BrowseShows ==
  ASSUME DocInv, NEW d \in Device, Browse(d) PROVE [Document!Next]_(Document!register)
<1>1. CASE OpenNote(d) \/ OpenBoard(d)
  <2>1. Shows(d, Fetched(d)) /\ UNCHANGED <<row, author>>
    BY <1>1 DEF OpenNote, OpenBoard
  <2> QED BY <2>1, FetchedIsStored, ShowsShow
<1>2. CASE Refetch(d)
  <2>1. row.rev \in Nat /\ row.rev <= row.rev
    BY DEF DocInv, RowOK
  <2>2. Shows(d, row.rev) /\ UNCHANGED <<row, author>>
    BY <1>2 DEF Refetch
  <2> QED BY <2>1, <2>2, ShowsShow
<1>3. CASE Saved(d) \/ Refused(d)
  <2>1. page[d].theirs.rev \in Nat /\ page[d].theirs.rev <= row.rev
    BY <1>3, PageNow DEF Saved, Refused, PageOK, Page, Request
  <2>2. Shows(d, page[d].theirs.rev) /\ UNCHANGED <<row, author>>
    BY <1>3 DEF Saved, Refused
  <2> QED BY <2>1, <2>2, ShowsShow
<1>4. CASE Handle(d)
  BY <1>4, HandleWrites
<1>5. CASE Type(d) \/ Leave(d) \/ Save(d) \/ KeepMine(d) \/ TakeTheirs(d) \/ Fail(d)
  BY <1>5, SameRegister DEF Type, Leave, Save, KeepMine, TakeTheirs, Fail
<1> QED BY <1>1, <1>2, <1>3, <1>4, <1>5 DEF Browse

\* Every note and every dashboard is the document SharedDocument promises: the
\* browser whose save replaces a version has itself shown that version.
THEOREM ImplementsDocument == Spec => NobodyOverwritesUnseen
<1>1. Init => Document!Init
  BY DEF Init, Nothing, Document!Init
<1>2. DocInv /\ [Next]_vars => [Document!Next]_(Document!register)
  <2> SUFFICES ASSUME DocInv, [Next]_vars PROVE [Document!Next]_(Document!register)
    OBVIOUS
  <2>1. CASE \E d \in Device : Browse(d)
    BY <2>1, BrowseShows
  <2>2. CASE \E r \in late : HandleLate(r)
    BY <2>2, HandleLateWrites
  <2>3. CASE NextOfNote \/ NextOfBoard
    BY <2>3, NotesAndBoardsLeaveDocs, SameRegister
  <2>4. CASE UNCHANGED vars
    BY <2>4, SameRegister DEF vars
  <2> QED BY <2>1, <2>2, <2>3, <2>4 DEF Next
<1> QED BY <1>1, <1>2, DocInvariant, PTL DEF Spec, NobodyOverwritesUnseen, Document!Spec

-----------------------------------------------------------------------------
(* The published dashboard                                                  *)

\* Sessions are of versions there have been, and those of the version published
\* now were opened with its password.
ShareInv ==
  /\ share = [version |-> share.version, open |-> share.open, password |-> share.password]
  /\ share.version \in Nat
  /\ \A s \in sessions :
       /\ s.version \in Nat
       /\ s.version = share.version /\ share.password # None => s.with = share.password

\* Publishing and revoking leave no session behind.
LEMMA ShareStep == ShareInv /\ [Next]_vars => ShareInv'
<1> SUFFICES ASSUME ShareInv, [Next]_vars PROVE ShareInv'
  OBVIOUS
<1>1. CASE UNCHANGED shares
  BY <1>1 DEF ShareInv
<1>2. CASE Publish
  BY <1>2 DEF Publish, ShareInv
<1>3. CASE Revoke
  <2>1. sessions' = {} /\ share' = [share EXCEPT !.version = @ + 1, !.open = FALSE]
    BY <1>3 DEF Revoke
  <2>2. share' = [version |-> share.version + 1, open |-> FALSE, password |-> share.password]
    BY <2>1 DEF ShareInv
  <2>3. /\ share'.version = share.version + 1 /\ share'.open = FALSE
        /\ share'.password = share.password /\ share.version \in Nat
    BY <2>2 DEF ShareInv
  <2>4. share' = [version |-> share'.version, open |-> share'.open,
                  password |-> share'.password]
    BY <2>2, <2>3
  <2> QED BY <2>1, <2>3, <2>4 DEF ShareInv
<1>4. ASSUME NEW v \in Visitor, Unlock(v) PROVE ShareInv'
  BY <1>4 DEF Unlock, ShareInv
<1>5. CASE SessionExpires
  BY <1>5 DEF SessionExpires, ShareInv
<1>6. CASE \E d \in Device : Browse(d)
  <2>1. UNCHANGED shares
    BY <1>6 DEF Browse, OpenNote, OpenBoard, Refetch, Type, Leave, Save, KeepMine, TakeTheirs,
                Handle, Saved, Refused, Fail
  <2> QED BY <2>1, <1>1
<1>7. CASE \E r \in late : HandleLate(r)
  BY <1>1, <1>7 DEF HandleLate
<1>8. CASE NextOfNote
  <2>1. UNCHANGED shares
    BY <1>8 DEF NextOfNote, CreateTag, AssignCreated, Toggle, RenameTag, DeleteTag
  <2> QED BY <2>1, <1>1
<1> QED BY <1>1, <1>2, <1>3, <1>4, <1>5, <1>6, <1>7, <1>8 DEF Next, NextOfBoard, vars

\* Whoever sees a protected dashboard has given the password it has now.
THEOREM GrantsAreProven == Spec => []GrantsProvePassword
<1>1. Init => ShareInv
  BY DEF Init, ShareInv
<1>2. ShareInv => GrantsProvePassword
  BY DEF ShareInv, GrantsProvePassword, Granted
<1> QED BY <1>1, <1>2, ShareStep, PTL DEF Spec

-----------------------------------------------------------------------------
(* Tags                                                                     *)

TagInv ==
  /\ tag \in [Tag -> Name \cup {None, Gone}]
  /\ tagged \subseteq Tag /\ adding \in [Device -> Tag \cup {None}]
  /\ TagsConsistent

\* A new name of one tag, which no other has.
LEMMA NameTaken ==
  ASSUME TagInv, NEW i \in Tag, NEW n \in Name, Unique(n, i), tag' = [tag EXCEPT ![i] = n],
         tagged' = tagged, adding' \in [Device -> Tag \cup {None}]
  PROVE  TagInv'
<1>1. /\ tag' \in [Tag -> Name \cup {None, Gone}] /\ tag'[i] = n
      /\ \A j \in Tag : j # i => tag'[j] = tag[j]
  BY DEF TagInv
<1>2. \A j \in tagged' : tag'[j] \in Name
  BY <1>1 DEF TagInv, TagsConsistent
<1>3. \A j, k \in Tag : tag'[j] \in Name /\ tag'[k] \in Name /\ j # k =>
        Fold(tag'[j]) # Fold(tag'[k])
  BY <1>1 DEF TagInv, TagsConsistent, Unique
<1> QED BY <1>1, <1>2, <1>3 DEF TagInv, TagsConsistent

LEMMA TagStep == TagInv /\ [Next]_vars => TagInv'
<1> SUFFICES ASSUME TagInv, [Next]_vars PROVE TagInv'
  OBVIOUS
<1>1. CASE UNCHANGED labels
  BY <1>1 DEF TagInv, TagsConsistent
<1>2. ASSUME NEW d \in Device, CreateTag(d) PROVE TagInv'
  BY <1>2, NameTaken DEF CreateTag, TagInv
<1>3. ASSUME NEW d \in Device, AssignCreated(d) PROVE TagInv'
  BY <1>3 DEF AssignCreated, TagInv, TagsConsistent
<1>4. CASE Toggle
  BY <1>4 DEF Toggle, TagInv, TagsConsistent
<1>5. CASE RenameTag
  BY <1>5, NameTaken DEF RenameTag, TagInv
<1>6. CASE DeleteTag
  BY <1>6, NameAssumption DEF DeleteTag, TagInv, TagsConsistent
<1>7. CASE \E d \in Device : Browse(d)
  <2>1. UNCHANGED labels
    BY <1>7 DEF Browse, OpenNote, OpenBoard, Refetch, Type, Leave, Save, KeepMine, TakeTheirs,
                Handle, Saved, Refused, Fail
  <2> QED BY <2>1, <1>1
<1>8. CASE \E r \in late : HandleLate(r)
  BY <1>1, <1>8 DEF HandleLate
<1>9. CASE NextOfBoard
  <2>1. UNCHANGED labels
    BY <1>9 DEF NextOfBoard, Publish, Revoke, SessionExpires, Unlock
  <2> QED BY <2>1, <1>1
<1> QED BY <1>1, <1>2, <1>3, <1>4, <1>5, <1>6, <1>7, <1>8, <1>9 DEF Next, NextOfNote, vars

\* The tags of a friend exist and no two names differ in case only.
THEOREM TagsAreConsistent == Spec => []TagsConsistent
<1>1. Init => TagInv
  BY NameAssumption DEF Init, TagInv, TagsConsistent
<1>2. TagInv => TagsConsistent
  BY DEF TagInv
<1> QED BY <1>1, <1>2, TagStep, PTL DEF Spec

=============================================================================
