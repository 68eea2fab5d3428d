----------------------------- MODULE Paging_proofs -----------------------------
(***************************************************************************)
(* Proofs about lists read page by page, for logs and lists of any length, *)
(* any page sizes and filters, and any number of changes between pages.    *)
(***************************************************************************)
EXTENDS Paging, FiniteSetTheorems, SequenceTheorems, TLAPS

-----------------------------------------------------------------------------
(* Pages. *)

\* A page holds something, whatever size is asked for.
LEMMA PageSizeType ==
    ASSUME NEW asked, NEW default \in 1..MaxPage
    PROVE  PageSize(asked, default) \in Nat /\ PageSize(asked, default) > 0
  BY PageAssumption DEF PageSize

\* What is due is finite: it is part of the log.
LEMMA DueIsFinite ==
    ASSUME TypeOK, NEW q, NEW cursor
    PROVE  /\ Due(q, cursor) \subseteq 1..Len(log)
           /\ IsFiniteSet(Due(q, cursor))
<1>1. DOMAIN log = 1..Len(log) /\ Len(log) \in Nat
  BY DEF TypeOK
<1>2. Due(q, cursor) \subseteq 1..Len(log)
  BY <1>1 DEF Due, Matching, JobEvents
<1>3. IsFiniteSet(1..Len(log))
  BY <1>1, FS_Interval
<1>. QED BY <1>2, <1>3, FS_Subset

\* The list of findings is finite, and a finding stands before its end.
LEMMA ListedIsFinite ==
    ASSUME TypeOK, NEW q
    PROVE  /\ Listed(q) \subseteq 1..Len(findings)
           /\ IsFiniteSet(Listed(q))
           /\ Cardinality(Listed(q)) \in Nat
<1>1. DOMAIN findings = 1..Len(findings) /\ Len(findings) \in Nat
  BY DEF TypeOK
<1>2. Listed(q) \subseteq 1..Len(findings)
  BY <1>1 DEF Listed
<1>3. IsFiniteSet(1..Len(findings))
  BY <1>1, FS_Interval
<1>4. IsFiniteSet(Listed(q))
  BY <1>2, <1>3, FS_Subset
<1>. QED BY <1>2, <1>4, FS_CardinalityType

LEMMA FindingFields ==
    ASSUME TypeOK, NEW f \in DOMAIN findings
    PROVE  /\ findings[f] \in Finding
           /\ place[findings[f].cue] \in Int
           /\ Rank[findings[f].severity] \in Int
           /\ f \in Int
<1>1. findings[f] \in Finding /\ f \in Int
  BY DEF TypeOK
<1>2. findings[f].cue \in CueId /\ findings[f].severity \in Severity
  BY <1>1 DEF Finding
<1>3. place[findings[f].cue] \in Int
  BY <1>2 DEF TypeOK
<1>4. Rank[findings[f].severity] \in Int
  BY <1>2 DEF Rank, Severity
<1>. QED BY <1>1, <1>3, <1>4

LEMMA PositionInList ==
    ASSUME TypeOK, NEW q, NEW f \in Listed(q)
    PROVE  Position(q, f) \in Nat /\ Position(q, f) < Cardinality(Listed(q))
<1>. DEFINE B == {g \in Listed(q) : ShownBefore(g, f)}
<1>1. B \in SUBSET Listed(q)
  OBVIOUS
<1>2. f \in DOMAIN findings
  BY DEF Listed
<1>3. ~ ShownBefore(f, f)
  BY <1>2, FindingFields DEF ShownBefore
<1>4. B # Listed(q)
  BY <1>3
<1>5. /\ IsFiniteSet(B)
      /\ Cardinality(B) <= Cardinality(Listed(q))
      /\ Cardinality(B) # Cardinality(Listed(q))
  BY <1>1, <1>4, ListedIsFinite, FS_Subset
<1>6. Cardinality(B) \in Nat
  BY <1>5, FS_CardinalityType
<1>. QED BY <1>5, <1>6, ListedIsFinite DEF Position

-----------------------------------------------------------------------------
(* Types. *)

LEMMA PlacementsType ==
    ASSUME NEW P \in SUBSET CueId
    PROVE  Placements(P) \subseteq [CueId -> 0..Cardinality(CueId)]
<1>1. IsFiniteSet(P) /\ Cardinality(P) <= Cardinality(CueId)
  BY CueIdAssumption, FS_Subset
<1>2. Cardinality(P) \in Nat /\ Cardinality(CueId) \in Nat
  BY <1>1, CueIdAssumption, FS_CardinalityType
<1>. QED BY <1>1, <1>2 DEF Placements

LEMMA InitType == Init => TypeOK
  BY PlacementsType DEF Init, TypeOK

\* A batch appends findings and leaves those there are.
LEMMA BatchAppends ==
    ASSUME TypeOK, NEW batch \in Seq(Found), NEW type, NEW actor,
           BatchFindings(batch, type, actor)
    PROVE  /\ findings' \in Seq(Finding)
           /\ DOMAIN findings \subseteq DOMAIN findings'
           /\ \A f \in DOMAIN findings : findings'[f] = findings[f]
<1>. DEFINE new == [i \in DOMAIN batch |-> [cue |-> batch[i].cue,
                        severity |-> batch[i].severity, status |-> "open"]]
<1>1. findings' = findings \o new
  BY DEF BatchFindings
<1>2. \A i \in DOMAIN batch : new[i] \in Finding
  BY FoundAssumption DEF Finding
<1>3. new \in Seq(Finding)
  <2>1. DOMAIN batch = 1..Len(batch) /\ Len(batch) \in Nat
    OBVIOUS
  <2>. QED BY <1>2, <2>1
<1>4. findings \in Seq(Finding)
  BY DEF TypeOK
<1>. HIDE DEF new
<1>. QED BY <1>1, <1>3, <1>4, ConcatProperties

LEMMA SaveType ==
    ASSUME TypeOK, NEW id \in JobId, NEW actor \in Actor, NEW type,
           Save(id, type, actor),
           type \in {"finding.reported", "finding.batch", "review.finished",
                     "rework.cues.edited", "finding.response.batch", "review.submitted"}
    PROVE  log' \in Seq(Event)
<1>1. [jobID |-> id, type |-> type, actor |-> actor] \in Event
  BY DEF Event
<1>. QED BY <1>1 DEF Save, TypeOK

LEMMA DisturbedType == TypeOK => Disturbed \in Listing \cup {NoWalk}
  BY DEF TypeOK, Disturbed, Listing

LEMMA ReadType ==
    ASSUME TypeOK, NEW q \in TimelineQuery, NEW cursor \in Nat,
           NEW seen \in SUBSET Nat, NEW again \in SUBSET Nat,
           ReadTimeline(q, cursor, seen, again)
    PROVE  reading' \in Reading
<1>1. TimelinePage(q, cursor) \subseteq Nat
  BY DueIsFinite DEF TimelinePage, TypeOK
<1>2. JobEvents \subseteq Nat
  BY DEF JobEvents, TypeOK
<1>3. MoreEvents(q, cursor) \in BOOLEAN
  BY DEF MoreEvents
<1>4. Len(log) \in Nat
  BY DEF TypeOK
<1>. DEFINE page == TimelinePage(q, cursor)
            more == MoreEvents(q, cursor)
<1>5. PICK last \in 0..Len(log) :
        reading' = [query |-> q, cursor |-> last, seen |-> seen \cup page,
                    again |-> again \cup (seen \cap page),
                    more |-> more, chain |-> JobEvents]
  BY DEF ReadTimeline, Chain
<1>6. page \subseteq Nat
  BY <1>1
<1>7. more \in BOOLEAN
  BY <1>3
<1>. HIDE DEF page, more
<1>8. /\ last \in Nat
      /\ seen \cup page \in SUBSET Nat
      /\ again \cup (seen \cap page) \in SUBSET Nat
      /\ JobEvents \in SUBSET Nat
  BY <1>2, <1>4, <1>6
<1>. QED BY <1>5, <1>7, <1>8 DEF Reading

LEMMA ListType ==
    ASSUME TypeOK, NEW q \in FindingQuery, NEW cursor \in Nat,
           NEW seen \in SUBSET Nat, NEW atStart \in SUBSET Nat, NEW disturbed \in BOOLEAN,
           ListFindings(q, cursor, seen, atStart, disturbed)
    PROVE  listing' \in Listing
<1>1. FindingsPage(q, cursor) \subseteq Nat
  BY ListedIsFinite DEF FindingsPage, TypeOK
<1>2. MoreFindings(q, cursor) \in BOOLEAN
  BY DEF MoreFindings
<1>3. End(q, cursor) \in Nat
  BY PageSizeType, PageAssumption DEF End
<1>. QED BY <1>1, <1>2, <1>3 DEF ListFindings, Listing

LEMMA StepType == TypeOK /\ [Next]_vars => TypeOK'
<1>. SUFFICES ASSUME TypeOK, [Next]_vars PROVE TypeOK'
  OBVIOUS
<1>1. ASSUME NEW actor \in Actor, NEW batch \in Seq(Found),
             NEW type \in {"finding.reported", "finding.batch"},
             BatchFindings(batch, type, actor)
      PROVE  TypeOK'
  <2>1. findings' \in Seq(Finding)
    BY <1>1, BatchAppends
  <2>2. log' \in Seq(Event)
    BY <1>1, SaveType, JobAssumption DEF BatchFindings
  <2>. QED BY <1>1, <2>1, <2>2 DEF TypeOK, BatchFindings
<1>2. ASSUME NEW actor \in Actor, NEW x \in Found, AddFinding(x, actor) PROVE TypeOK'
  <2>1. <<x>> \in Seq(Found)
    OBVIOUS
  <2>2. BatchFindings(<<x>>, "finding.reported", actor)
    BY <1>2 DEF AddFinding
  <2>. QED BY <1>1, <2>1, <2>2
<1>3. ASSUME NEW actor \in Actor, NEW x \in Found, NEW y \in Found,
             BatchFindings(<<x, y>>, "finding.batch", actor)
      PROVE  TypeOK'
  <2>1. <<x, y>> \in Seq(Found)
    OBVIOUS
  <2>. QED BY <1>1, <1>3, <2>1
<1>4. ASSUME NEW actor \in Actor, FinishReview(actor) PROVE TypeOK'
  <2>1. log' \in Seq(Event)
    BY <1>4, SaveType, JobAssumption DEF FinishReview
  <2>. QED BY <1>4, <2>1 DEF TypeOK, FinishReview
<1>5. ASSUME NEW actor \in Actor, ReworkCues(actor) PROVE TypeOK'
  <2>1. log' \in Seq(Event)
    BY <1>5, SaveType, JobAssumption DEF ReworkCues
  <2>2. place' \in [CueId -> 0..Cardinality(CueId)]
    BY <1>5, PlacementsType DEF ReworkCues
  <2>. QED BY <1>5, <2>1, <2>2, DisturbedType DEF TypeOK, ReworkCues
<1>6. ASSUME NEW actor \in Actor, NEW answered \in SUBSET DOMAIN findings,
             BatchRespond(answered, actor)
      PROVE  TypeOK'
  <2>1. log' \in Seq(Event)
    BY <1>6, SaveType, JobAssumption DEF BatchRespond
  <2>2. \A f \in DOMAIN findings :
           (IF f \in answered THEN [findings[f] EXCEPT !.status = "resolved"]
                              ELSE findings[f]) \in Finding
    BY FindingFields DEF Finding
  <2>3. findings' \in Seq(Finding)
    <3>1. DOMAIN findings = 1..Len(findings) /\ Len(findings) \in Nat
      BY DEF TypeOK
    <3>. QED BY <1>6, <2>2, <3>1 DEF BatchRespond
  <2>. QED BY <1>6, <2>1, <2>3, DisturbedType DEF TypeOK, BatchRespond
<1>7. ASSUME NEW actor \in Actor, Submit(actor) PROVE TypeOK'
  <2>1. log' \in Seq(Event)
    BY <1>7, SaveType, JobAssumption DEF Submit
  <2>. QED BY <1>7, <2>1 DEF TypeOK, Submit
<1>8. ASSUME NEW actor \in Actor, NEW id \in JobId, OnOtherJob(id, actor) PROVE TypeOK'
  <2>1. log' \in Seq(Event)
    BY <1>8, SaveType DEF OnOtherJob
  <2>. QED BY <1>8, <2>1 DEF TypeOK, OnOtherJob
<1>9. ASSUME NEW q \in TimelineQuery, StartTimeline(q) PROVE TypeOK'
  <2>1. reading' \in Reading
    BY <1>9, ReadType DEF StartTimeline
  <2>. QED BY <1>9, <2>1 DEF TypeOK, StartTimeline, ReadTimeline
<1>10. ASSUME NextTimeline PROVE TypeOK'
  <2>1. reading \in Reading
    BY <1>10 DEF NextTimeline, TypeOK
  <2>2. reading' \in Reading
    BY <1>10, <2>1, ReadType DEF NextTimeline, Reading
  <2>. QED BY <1>10, <2>2 DEF TypeOK, NextTimeline, ReadTimeline
<1>11. ASSUME NEW q \in FindingQuery, StartListing(q) PROVE TypeOK'
  <2>1. Listed(q) \in SUBSET Nat
    BY ListedIsFinite DEF TypeOK
  <2>2. listing' \in Listing
    BY <1>11, <2>1, ListType DEF StartListing
  <2>. QED BY <1>11, <2>2 DEF TypeOK, StartListing, ListFindings
<1>12. ASSUME NextListing PROVE TypeOK'
  <2>1. listing \in Listing
    BY <1>12 DEF NextListing, TypeOK
  <2>2. listing' \in Listing
    BY <1>12, <2>1, ListType DEF NextListing, Listing
  <2>. QED BY <1>12, <2>2 DEF TypeOK, NextListing, ListFindings
<1>13. CASE UNCHANGED vars
  BY <1>13 DEF vars, TypeOK
<1>. QED BY <1>2, <1>3, <1>4, <1>5, <1>6, <1>7, <1>8, <1>9, <1>10, <1>11, <1>12, <1>13
     DEF Next

\* The lists and the walks over them keep their types.
THEOREM Types == Spec => []TypeOK
<1>1. Init => TypeOK
  BY InitType
<1>2. TypeOK /\ [Next]_vars => TypeOK'
  BY StepType
<1>. QED BY <1>1, <1>2, PTL DEF Spec

-----------------------------------------------------------------------------
(* The timeline. *)

\* What makes the walk inductive: its cursor stays inside the log, so that an
\* event appended later is beyond it.
TimelineInv ==
    reading # NoWalk =>
        /\ reading.cursor \in 0..Len(log)
        /\ reading.again = {}
        /\ reading.seen = {i \in Matching(reading.query) : i <= reading.cursor}
        /\ /\ ~ reading.more
           /\ reading.query.type = Any /\ reading.query.actor = Any
           => reading.seen = reading.chain

\* Appending an event changes nothing up to the end of the log.
LEMMA SaveKeepsMatching ==
    ASSUME TypeOK, NEW id, NEW type, NEW actor, Save(id, type, actor),
           NEW q, NEW n \in 0..Len(log)
    PROVE  /\ Len(log) <= Len(log')
           /\ {i \in Matching(q) : i <= n}' = {i \in Matching(q) : i <= n}
<1>. DEFINE e == [jobID |-> id, type |-> type, actor |-> actor]
<1>1. log' = Append(log, e) /\ log \in Seq(Event)
  BY DEF Save, TypeOK
<1>2. /\ Len(log') = Len(log) + 1 /\ Len(log) \in Nat
      /\ DOMAIN log = 1..Len(log) /\ DOMAIN log' = 1..(Len(log) + 1)
      /\ \A i \in 1..Len(log) : log'[i] = log[i]
  <2>. HIDE DEF e
  <2>. QED BY <1>1
<1>3. \A i \in 1..Len(log) : i \in Matching(q) <=> i \in Matching(q)'
  BY <1>2 DEF Matching, JobEvents
<1>4. /\ Matching(q) \subseteq 1..Len(log)
      /\ Matching(q)' \subseteq 1..(Len(log) + 1)
  BY <1>2 DEF Matching, JobEvents
<1>. QED BY <1>2, <1>3, <1>4

\* A step that appends an event and leaves the walk alone keeps it exact.
LEMMA SaveKeepsTimeline ==
    ASSUME TypeOK, TimelineInv, NEW id, NEW type, NEW actor, Save(id, type, actor),
           UNCHANGED reading
    PROVE  TimelineInv'
<1>. SUFFICES ASSUME reading # NoWalk PROVE TimelineInv'
  BY DEF TimelineInv
<1>. DEFINE n == reading.cursor
            q == reading.query
<1>1. n \in 0..Len(log)
  BY DEF TimelineInv
<1>2. /\ Len(log) <= Len(log')
      /\ {i \in Matching(q) : i <= n}' = {i \in Matching(q) : i <= n}
  BY <1>1, SaveKeepsMatching
<1>3. Len(log) \in Nat /\ Len(log') \in Nat
  BY DEF TypeOK, Save
<1>4. reading'.cursor \in 0..Len(log')
  BY <1>1, <1>2, <1>3
<1>. QED BY <1>2, <1>4 DEF TimelineInv

\* A page is the beginning of what is due: an event due no later than one of the
\* page is in the page.
LEMMA PageIsBeginning ==
    ASSUME TypeOK, NEW q, NEW cursor,
           NEW last \in TimelinePage(q, cursor), NEW i \in Due(q, cursor), i <= last
    PROVE  i \in TimelinePage(q, cursor)
<1>. DEFINE due == Due(q, cursor)
            A == {k \in due : k <= i}
            B == {k \in due : k <= last}
            size == PageSize(q.limit, TimelineDefault)
<1>1. last \in due /\ Cardinality(B) <= size
  BY DEF TimelinePage
<1>2. due \subseteq Int /\ IsFiniteSet(due)
  BY DueIsFinite
<1>3. A \in SUBSET B /\ B \in SUBSET due
  BY <1>1, <1>2
<1>4. IsFiniteSet(B) /\ IsFiniteSet(A) /\ Cardinality(A) <= Cardinality(B)
  BY <1>2, <1>3, FS_Subset
<1>5. Cardinality(A) \in Nat /\ Cardinality(B) \in Nat /\ size \in Nat
  BY <1>4, FS_CardinalityType, PageSizeType, PageAssumption
<1>. QED BY <1>1, <1>4, <1>5 DEF TimelinePage

\* When nothing is left after it, a page is all that was due.
LEMMA LastPageIsAll ==
    ASSUME TypeOK, NEW q, NEW cursor, ~ MoreEvents(q, cursor)
    PROVE  TimelinePage(q, cursor) = Due(q, cursor)
<1>. DEFINE due == Due(q, cursor)
            size == PageSize(q.limit, TimelineDefault)
<1>1. IsFiniteSet(due) /\ Cardinality(due) \in Nat /\ size \in Nat
  BY DueIsFinite, FS_CardinalityType, PageSizeType, PageAssumption
<1>2. Cardinality(due) <= size
  BY <1>1 DEF MoreEvents
<1>3. ASSUME NEW i \in due PROVE Cardinality({k \in due : k <= i}) <= size
  <2>. DEFINE A == {k \in due : k <= i}
  <2>1. A \in SUBSET due
    OBVIOUS
  <2>2. IsFiniteSet(A) /\ Cardinality(A) <= Cardinality(due)
    BY <1>1, <2>1, FS_Subset
  <2>3. Cardinality(A) \in Nat
    BY <2>2, FS_CardinalityType
  <2>. QED BY <1>1, <1>2, <2>2, <2>3
<1>. QED BY <1>3 DEF TimelinePage

\* One page more: the events given so far are those up to the new cursor.
LEMMA ReadKeepsTimeline ==
    ASSUME TypeOK, NEW q, NEW cursor \in 0..Len(log), NEW seen,
           seen = {i \in Matching(q) : i <= cursor},
           ReadTimeline(q, cursor, seen, {})
    PROVE  TimelineInv'
<1>. DEFINE page == TimelinePage(q, cursor)
            due == Due(q, cursor)
<1>1. PICK last \in 0..Len(log) :
        /\ IF page = {} THEN last = cursor
                        ELSE last \in page /\ \A i \in page : i <= last
        /\ reading' = [query |-> q, cursor |-> last, seen |-> seen \cup page,
                       again |-> {} \cup (seen \cap page),
                       more |-> MoreEvents(q, cursor), chain |-> JobEvents]
  BY DEF ReadTimeline, Chain
<1>2. UNCHANGED log
  BY DEF ReadTimeline
<1>3. Len(log) \in Nat /\ Matching(q) \subseteq Int
  BY DEF TypeOK, Matching, JobEvents
<1>4. page \subseteq due /\ due = {i \in Matching(q) : i > cursor}
  BY DEF TimelinePage, Due
<1>5. seen \cap page = {}
  BY <1>3, <1>4
<1>6. seen \cup page = {i \in Matching(q) : i <= last}
  <2>1. CASE page = {}
    BY <1>1, <2>1
  <2>2. CASE page # {}
    <3>1. last \in page /\ \A i \in page : i <= last
      BY <1>1, <2>2
    <3>2. \A i \in due : i <= last => i \in page
      BY <3>1, PageIsBeginning
    <3>3. last > cursor
      BY <3>1, <1>4
    <3>. QED BY <3>1, <3>2, <3>3, <1>3, <1>4
  <2>. QED BY <2>1, <2>2
<1>7. ASSUME ~ MoreEvents(q, cursor), q.type = Any, q.actor = Any
      PROVE  seen \cup page = JobEvents
  <2>1. page = due
    BY <1>7, LastPageIsAll
  <2>2. Matching(q) = JobEvents
    BY <1>7 DEF Matching
  <2>. QED BY <2>1, <2>2, <1>3, <1>4
<1>8. Matching(q)' = Matching(q)
  BY <1>2 DEF Matching, JobEvents
<1>. HIDE DEF page, due
<1>. QED BY <1>1, <1>2, <1>5, <1>6, <1>7, <1>8 DEF TimelineInv

LEMMA StepTimeline == TypeOK /\ TimelineInv /\ [Next]_vars => TimelineInv'
<1>. SUFFICES ASSUME TypeOK, TimelineInv, [Next]_vars PROVE TimelineInv'
  OBVIOUS
<1>1. ASSUME NEW actor \in Actor, NEW x \in Found, AddFinding(x, actor) PROVE TimelineInv'
  BY <1>1, SaveKeepsTimeline DEF AddFinding, BatchFindings
<1>2. ASSUME NEW actor \in Actor, NEW x \in Found, NEW y \in Found,
             BatchFindings(<<x, y>>, "finding.batch", actor)
      PROVE  TimelineInv'
  BY <1>2, SaveKeepsTimeline DEF BatchFindings
<1>3. ASSUME NEW actor \in Actor, FinishReview(actor) PROVE TimelineInv'
  BY <1>3, SaveKeepsTimeline DEF FinishReview
<1>4. ASSUME NEW actor \in Actor, ReworkCues(actor) PROVE TimelineInv'
  BY <1>4, SaveKeepsTimeline DEF ReworkCues
<1>5. ASSUME NEW actor \in Actor, NEW answered \in SUBSET DOMAIN findings,
             BatchRespond(answered, actor)
      PROVE  TimelineInv'
  BY <1>5, SaveKeepsTimeline DEF BatchRespond
<1>6. ASSUME NEW actor \in Actor, Submit(actor) PROVE TimelineInv'
  BY <1>6, SaveKeepsTimeline DEF Submit
<1>7. ASSUME NEW actor \in Actor, NEW id \in JobId, OnOtherJob(id, actor) PROVE TimelineInv'
  BY <1>7, SaveKeepsTimeline DEF OnOtherJob
<1>8. ASSUME NEW q \in TimelineQuery, StartTimeline(q) PROVE TimelineInv'
  <2>1. {} = {i \in Matching(q) : i <= 0}
    BY DEF Matching, JobEvents, TypeOK
  <2>2. 0 \in 0..Len(log)
    BY DEF TypeOK
  <2>. QED BY <1>8, <2>1, <2>2, ReadKeepsTimeline DEF StartTimeline
<1>9. ASSUME NextTimeline PROVE TimelineInv'
  BY <1>9, ReadKeepsTimeline DEF NextTimeline, TimelineInv
<1>10. ASSUME NEW q \in FindingQuery, StartListing(q) PROVE TimelineInv'
  BY <1>10 DEF StartListing, ListFindings, TimelineInv, Matching, JobEvents
<1>11. ASSUME NextListing PROVE TimelineInv'
  BY <1>11 DEF NextListing, ListFindings, TimelineInv, Matching, JobEvents
<1>12. CASE UNCHANGED vars
  BY <1>12 DEF vars, TimelineInv, Matching, JobEvents
<1>. QED BY <1>1, <1>2, <1>3, <1>4, <1>5, <1>6, <1>7, <1>8, <1>9, <1>10, <1>11, <1>12
     DEF Next

LEMMA TimelineInvariant == Spec => []TimelineInv
<1>1. Init => TimelineInv
  BY DEF Init, TimelineInv
<1>2. TypeOK /\ TimelineInv /\ [Next]_vars => TimelineInv'
  BY StepTimeline
<1>. QED BY <1>1, <1>2, Types, PTL DEF Spec

\* Whatever is appended meanwhile, for whichever job, a walk over a timeline has
\* been given each event that passes its filters exactly once.
THEOREM TimelineWalks == Spec => []TimelineWalkIsExact
<1>1. TimelineInv => TimelineWalkIsExact
  BY DEF TimelineInv, TimelineWalkIsExact
<1>. QED BY <1>1, TimelineInvariant, PTL

\* A finished walk without filters has the events the chainDigest is the hash of.
THEOREM ChainDigestsTheWalk == Spec => []ChainCoversTheWalk
<1>1. TimelineInv => ChainCoversTheWalk
  BY DEF TimelineInv, ChainCoversTheWalk
<1>. QED BY <1>1, TimelineInvariant, PTL

-----------------------------------------------------------------------------
(* The findings. *)

\* What makes this walk inductive: a finding that was listed when it began, and
\* has not been shown, is still ahead of the cursor.
FindingsInv ==
    listing # NoWalk /\ ~ listing.disturbed =>
        /\ listing.atStart \subseteq Listed(listing.query)
        /\ \A f \in listing.atStart \ listing.seen :
              /\ listing.more
              /\ Position(listing.query, f) >= listing.cursor

\* What a new page does not show of what is ahead is ahead of its end.
LEMMA ListKeepsFindings ==
    ASSUME TypeOK, NEW q, NEW cursor \in Nat, NEW seen, NEW atStart \in SUBSET Listed(q),
           NEW disturbed, ListFindings(q, cursor, seen, atStart, disturbed),
           \A f \in atStart \ seen : Position(q, f) >= cursor
    PROVE  FindingsInv'
<1>. DEFINE size == PageSize(q.limit, FindingsDefault)
            page == FindingsPage(q, cursor)
            end == End(q, cursor)
            more == MoreFindings(q, cursor)
<1>1. /\ listing' = [query |-> q, cursor |-> end, seen |-> seen \cup page,
                     more |-> more, atStart |-> atStart, disturbed |-> disturbed]
      /\ UNCHANGED <<findings, place>>
  BY DEF ListFindings
<1>2. size \in Nat /\ size > 0 /\ end = cursor + size
  BY PageSizeType, PageAssumption DEF End
<1>3. ASSUME NEW f \in atStart, f \notin seen \cup page
      PROVE  more /\ Position(q, f) >= end
  <2>1. /\ Position(q, f) \in Nat /\ Position(q, f) < Cardinality(Listed(q))
        /\ Cardinality(Listed(q)) \in Nat
    BY PositionInList, ListedIsFinite
  <2>2. Position(q, f) >= cursor
    BY <1>3
  <2>3. Position(q, f) \notin cursor..(cursor + size - 1)
    BY <1>3 DEF FindingsPage
  <2>4. Position(q, f) >= end
    BY <1>2, <2>1, <2>2, <2>3
  <2>. QED BY <1>2, <2>1, <2>4 DEF MoreFindings
<1>4. Listed(q)' = Listed(q) /\ \A f : Position(q, f)' = Position(q, f)
  BY <1>1 DEF Listed, Position, ShownBefore
<1>. HIDE DEF page, end, more, size
<1>. QED BY <1>1, <1>3, <1>4 DEF FindingsInv

\* A step that moves no finding and leaves the walk alone.
LEMMA StillList ==
    ASSUME FindingsInv, UNCHANGED <<findings, place, listing>>
    PROVE  FindingsInv'
<1>1. \A q : Listed(q)' = Listed(q) /\ \A f : Position(q, f)' = Position(q, f)
  BY DEF Listed, Position, ShownBefore
<1>. QED BY <1>1 DEF FindingsInv

\* New findings only push those already listed further back.
LEMMA ReportsPushBack ==
    ASSUME TypeOK, TypeOK', NEW batch \in Seq(Found), NEW type, NEW actor,
           BatchFindings(batch, type, actor), NEW q, NEW f \in Listed(q)
    PROVE  /\ f \in Listed(q)'
           /\ Position(q, f) \in Nat /\ Position(q, f)' \in Nat
           /\ Position(q, f)' >= Position(q, f)
<1>1. /\ DOMAIN findings \subseteq DOMAIN findings'
      /\ \A g \in DOMAIN findings : findings'[g] = findings[g]
      /\ UNCHANGED place
  BY BatchAppends DEF BatchFindings
<1>2. Listed(q) \subseteq Listed(q)'
  BY <1>1 DEF Listed
<1>. DEFINE B == {g \in Listed(q) : ShownBefore(g, f)}
            C == {g \in Listed(q)' : ShownBefore(g, f)'}
<1>3. \A g \in Listed(q) : ShownBefore(g, f) <=> ShownBefore(g, f)'
  BY <1>1 DEF Listed, ShownBefore
<1>4. B \in SUBSET C
  BY <1>2, <1>3
<1>5. IsFiniteSet(Listed(q)')
  <2>1. DOMAIN findings' = 1..Len(findings') /\ Len(findings') \in Nat
    BY DEF TypeOK
  <2>2. IsFiniteSet(1..Len(findings'))
    BY <2>1, FS_Interval
  <2>3. Listed(q)' \in SUBSET (1..Len(findings'))
    BY <2>1 DEF Listed
  <2>. QED BY <2>2, <2>3, FS_Subset
<1>6. C \in SUBSET Listed(q)'
  OBVIOUS
<1>7. IsFiniteSet(C) /\ IsFiniteSet(B) /\ Cardinality(B) <= Cardinality(C)
  BY <1>4, <1>5, <1>6, FS_Subset
<1>8. Cardinality(B) \in Nat /\ Cardinality(C) \in Nat
  BY <1>7, FS_CardinalityType
<1>9. Position(q, f) = Cardinality(B) /\ Position(q, f)' = Cardinality(C)
  BY DEF Position
<1>. HIDE DEF B, C
<1>. QED BY <1>2, <1>7, <1>8, <1>9

LEMMA ReportsKeepFindings ==
    ASSUME TypeOK, TypeOK', FindingsInv, NEW batch \in Seq(Found), NEW type, NEW actor,
           BatchFindings(batch, type, actor)
    PROVE  FindingsInv'
<1>. SUFFICES ASSUME listing # NoWalk, ~ listing.disturbed PROVE FindingsInv'
  BY DEF FindingsInv, BatchFindings
<1>1. UNCHANGED listing
  BY DEF BatchFindings
<1>. PICK q : q = listing.query
  OBVIOUS
<1>2. \A f \in Listed(q) : /\ f \in Listed(q)'
                           /\ Position(q, f) \in Nat /\ Position(q, f)' \in Nat
                           /\ Position(q, f)' >= Position(q, f)
  BY ReportsPushBack
<1>3. listing.atStart \subseteq Listed(q)
  BY DEF FindingsInv
<1>4. ASSUME NEW f \in listing.atStart \ listing.seen
      PROVE  listing.more /\ Position(q, f)' >= listing.cursor
  <2>1. f \in Listed(q) /\ listing.more /\ Position(q, f) >= listing.cursor
    BY DEF FindingsInv
  <2>2. listing.cursor \in Int
    BY DEF TypeOK, Listing
  <2>3. /\ Position(q, f) \in Nat /\ Position(q, f)' \in Nat
        /\ Position(q, f)' >= Position(q, f)
    BY <1>2, <2>1
  <2>. QED BY <2>1, <2>2, <2>3
<1>5. q = listing'.query
  BY <1>1
<1>. QED BY <1>1, <1>2, <1>3, <1>4, <1>5 DEF FindingsInv

\* Answers move nothing in a list that is not filtered by status.
LEMMA AnswersKeepFindings ==
    ASSUME TypeOK, FindingsInv, NEW answered \in SUBSET DOMAIN findings, NEW actor,
           BatchRespond(answered, actor)
    PROVE  FindingsInv'
<1>1. CASE listing # NoWalk /\ listing.query.status # Any
  <2>1. listing' = [listing EXCEPT !.disturbed = TRUE] /\ listing \in Listing
    BY <1>1 DEF BatchRespond, Disturbed, TypeOK
  <2>2. listing'.disturbed
    BY <2>1 DEF Listing
  <2>. QED BY <2>2 DEF FindingsInv
<1>2. CASE listing # NoWalk /\ listing.query.status = Any
  <2>. DEFINE q == listing.query
  <2>1. UNCHANGED <<listing, place>>
    BY <1>2 DEF BatchRespond
  <2>2. /\ DOMAIN findings' = DOMAIN findings
        /\ \A f \in DOMAIN findings : /\ findings'[f].cue = findings[f].cue
                                      /\ findings'[f].severity = findings[f].severity
    BY FindingFields DEF BatchRespond, Finding
  <2>3. Listed(q)' = Listed(q)
    BY <1>2, <2>1, <2>2 DEF Listed
  <2>4. \A f, g \in Listed(q) : ShownBefore(f, g)' <=> ShownBefore(f, g)
    BY <2>1, <2>2 DEF ShownBefore, Listed
  <2>5. \A f \in Listed(q) : Position(q, f)' = Position(q, f)
    <3>. TAKE f \in Listed(q)
    <3>1. {g \in Listed(q) : ShownBefore(g, f)}' = {g \in Listed(q) : ShownBefore(g, f)}
      BY <2>1, <2>3, <2>4
    <3>. QED BY <3>1 DEF Position
  <2>. QED BY <2>1, <2>3, <2>5 DEF FindingsInv
<1>3. CASE listing = NoWalk
  BY <1>3 DEF BatchRespond, FindingsInv
<1>. QED BY <1>1, <1>2, <1>3

LEMMA StepFindings == TypeOK /\ TypeOK' /\ FindingsInv /\ [Next]_vars => FindingsInv'
<1>. SUFFICES ASSUME TypeOK, TypeOK', FindingsInv, [Next]_vars PROVE FindingsInv'
  OBVIOUS
<1>1. ASSUME NEW actor \in Actor, NEW x \in Found, AddFinding(x, actor) PROVE FindingsInv'
  <2>1. <<x>> \in Seq(Found)
    OBVIOUS
  <2>. QED BY <1>1, <2>1, ReportsKeepFindings DEF AddFinding
<1>2. ASSUME NEW actor \in Actor, NEW x \in Found, NEW y \in Found,
             BatchFindings(<<x, y>>, "finding.batch", actor)
      PROVE  FindingsInv'
  <2>1. <<x, y>> \in Seq(Found)
    OBVIOUS
  <2>. QED BY <1>2, <2>1, ReportsKeepFindings
<1>3. ASSUME NEW actor \in Actor, FinishReview(actor) PROVE FindingsInv'
  BY <1>3, StillList DEF FinishReview
<1>4. ASSUME NEW actor \in Actor, ReworkCues(actor) PROVE FindingsInv'
  <2>1. listing' = Disturbed
    BY <1>4 DEF ReworkCues
  <2>2. listing' = NoWalk \/ listing'.disturbed
    BY <2>1 DEF Disturbed, TypeOK, Listing
  <2>. QED BY <2>2 DEF FindingsInv
<1>5. ASSUME NEW actor \in Actor, NEW answered \in SUBSET DOMAIN findings,
             BatchRespond(answered, actor)
      PROVE  FindingsInv'
  BY <1>5, AnswersKeepFindings
<1>6. ASSUME NEW actor \in Actor, Submit(actor) PROVE FindingsInv'
  BY <1>6, StillList DEF Submit
<1>7. ASSUME NEW actor \in Actor, NEW id \in JobId, OnOtherJob(id, actor) PROVE FindingsInv'
  BY <1>7, StillList DEF OnOtherJob
<1>8. ASSUME NEW q \in TimelineQuery, StartTimeline(q) PROVE FindingsInv'
  BY <1>8, StillList DEF StartTimeline, ReadTimeline
<1>9. ASSUME NextTimeline PROVE FindingsInv'
  BY <1>9, StillList DEF NextTimeline, ReadTimeline
<1>10. ASSUME NEW q \in FindingQuery, StartListing(q) PROVE FindingsInv'
  <2>1. \A f \in Listed(q) : Position(q, f) >= 0
    BY PositionInList
  <2>. QED BY <1>10, <2>1, ListKeepsFindings DEF StartListing
<1>11. ASSUME NextListing PROVE FindingsInv'
  <2>. DEFINE q == listing.query
  <2>1. /\ listing # NoWalk
        /\ ListFindings(q, listing.cursor, listing.seen, listing.atStart, listing.disturbed)
    BY <1>11 DEF NextListing
  <2>2. listing \in Listing /\ listing.cursor \in Nat
    BY <2>1 DEF TypeOK, Listing
  <2>3. CASE listing.disturbed
    <3>1. listing'.disturbed
      BY <2>1, <2>3 DEF ListFindings
    <3>. QED BY <3>1 DEF FindingsInv
  <2>4. CASE ~ listing.disturbed
    <3>1. /\ listing.atStart \in SUBSET Listed(q)
          /\ \A f \in listing.atStart \ listing.seen : Position(q, f) >= listing.cursor
      BY <2>1, <2>4 DEF FindingsInv
    <3>. QED BY <2>1, <2>2, <3>1, ListKeepsFindings
  <2>. QED BY <2>3, <2>4
<1>12. CASE UNCHANGED vars
  BY <1>12, StillList DEF vars
<1>. QED BY <1>1, <1>2, <1>3, <1>4, <1>5, <1>6, <1>7, <1>8, <1>9, <1>10, <1>11, <1>12
     DEF Next

\* A walk over the findings misses none that was listed when it began, however
\* many are reported between its pages, unless a rework moves the list.
THEOREM FindingWalks == Spec => []NoFindingMissed
<1>1. Init => FindingsInv
  BY DEF Init, FindingsInv
<1>2. TypeOK /\ TypeOK' /\ FindingsInv /\ [Next]_vars => FindingsInv'
  BY StepFindings
<1>3. FindingsInv => NoFindingMissed
  BY DEF FindingsInv, NoFindingMissed
<1>. QED BY <1>1, <1>2, <1>3, Types, PTL DEF Spec

=============================================================================
